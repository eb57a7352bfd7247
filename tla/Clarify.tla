------------------------------ MODULE Clarify ------------------------------
(***************************************************************************)
(* The clarify bridge of compat/patch_clarify.py: an agent's worker thread *)
(* asks a form of questions and blocks; the App's requests answer it on    *)
(* the event loop; the status of its run, its deadline and the unload of   *)
(* the plugin end the wait. tools.clarify_gateway, which keeps the entry   *)
(* of each question, is external.                                          *)
(***************************************************************************)
EXTENDS Integers, Sequences, FiniteSets

CONSTANTS
    Forms,       \* the calls of Bridge.callback in a behaviour
    Runs,        \* API runs
    Size,        \* questions of a form
    Raw,         \* the answers the App may send to a question
    Timed,       \* whether get_clarify_timeout() is positive
    MaxSubmits   \* bound: answers sent by the App's devices

ClarifyAssumption ==
    /\ Size \in Nat \ {0} /\ MaxSubmits \in Nat
    /\ Raw \subseteq {"label", "other", "skip", "junk"}
    /\ Timed \in BOOLEAN

VARIABLES
    form,      \* each call: where its thread is, and what it has collected
    entry,     \* clarify_gateway's table: the response of each open question
    stage,     \* each run: its status, as _set_run_status last saw it
    sink,      \* the runs with an event sink in run_sinks
    closed,    \* Bridge.closed
    accepted,  \* what the App was told 200 for, per form
    events,    \* what the sinks have published, in order
    submits    \* answers sent so far

vars == <<form, entry, stage, sink, closed, accepted, events, submits>>

Questions == 1..Size
Values == {"label", "other", "SKIPPED"}
Gone == "gone"
Open == "open"
Cancelled == "CANCELLED"
Outcomes == {"answered", "timed_out", "cancelled"}

Init ==
    /\ form = [f \in Forms |-> [pc |-> "idle", run |-> "none", at |-> 1,
                                answers |-> <<>>, outcome |-> "answered",
                                submitted |-> FALSE]]
    /\ entry = [f \in Forms |-> [q \in Questions |-> Gone]]
    /\ stage = [r \in Runs |-> "new"]
    /\ sink = {} /\ closed = FALSE
    /\ accepted = [f \in Forms |-> {}]
    /\ events = <<>> /\ submits = 0

\* self.forms holds the forms between registration and the finally block.
Registered(f) == form[f].pc \in {"waiting", "leaving"}

-----------------------------------------------------------------------------
(* Runs, as the wrapper of _set_run_status sees them.                      *)

\* A status that is not terminal gives the run its sink.
RunStarts(r) ==
    /\ stage[r] = "new"
    /\ stage' = [stage EXCEPT ![r] = "live"]
    /\ sink' = IF closed THEN sink ELSE sink \cup {r}
    /\ UNCHANGED <<form, entry, closed, accepted, events, submits>>

\* A terminal status first takes the sink away, without the lock ...
RunEnds(r) ==
    /\ stage[r] = "live"
    /\ stage' = [stage EXCEPT ![r] = IF closed THEN "over" ELSE "ending"]
    /\ sink' = sink \ {r}
    /\ UNCHANGED <<form, entry, closed, accepted, events, submits>>

\* Cancelling resolves each entry that is still in the table. Whether the
\* table keeps an earlier response is the gateway's affair: both happen.
CancelledEntries(fs) ==
    { [f \in Forms |-> [q \in Questions |->
         IF f \in fs /\ entry[f][q] # Gone /\ (entry[f][q] = Open \/ last)
           THEN Cancelled ELSE entry[f][q]]] : last \in BOOLEAN }

\* Mutant: the end of a run finds none of its forms.
FormsOf_None(r) == {}

\* The registered forms of a run.
FormsOf(r) == {f \in Forms : Registered(f) /\ form[f].run = r}

\* ... then, under the lock, cancels what the run's forms wait for.
CancelRun(r) ==
    /\ stage[r] = "ending"
    /\ stage' = [stage EXCEPT ![r] = "over"]
    /\ entry' \in CancelledEntries(FormsOf(r))
    /\ UNCHANGED <<form, sink, closed, accepted, events, submits>>

Close ==
    /\ ~closed
    /\ closed' = TRUE /\ sink' = {}
    /\ entry' \in CancelledEntries({f \in Forms : Registered(f)})
    /\ UNCHANGED <<form, stage, accepted, events, submits>>

-----------------------------------------------------------------------------
(* Bridge.callback, in the agent's thread.                                 *)

\* The run and its sink are read without the lock.
Ask(f, r) ==
    /\ form[f].pc = "idle"
    /\ r \in sink
    /\ form' = [form EXCEPT ![f].pc = "asking", ![f].run = r]
    /\ UNCHANGED <<entry, stage, sink, closed, accepted, events, submits>>

\* Under the lock: an unloaded bridge refuses, any other publishes the form.
Register(f) ==
    /\ form[f].pc = "asking"
    /\ IF closed
         THEN /\ form' = [form EXCEPT ![f].pc = "refused"]
              /\ UNCHANGED <<entry, events>>
         ELSE /\ form' = [form EXCEPT ![f].pc = "waiting"]
              /\ entry' = [entry EXCEPT ![f] = [q \in Questions |-> Open]]
              /\ events' = Append(events, <<"request", f>>)
    /\ UNCHANGED <<stage, sink, closed, accepted, submits>>

\* wait_for_response returns the response and drops the entry.
Collect(f) ==
    LET q == form[f].at
        v == entry[f][q]
    IN  /\ form[f].pc = "waiting" /\ v \notin {Gone, Open}
        /\ entry' = [entry EXCEPT ![f][q] = Gone]
        /\ form' = [form EXCEPT ![f] =
             IF v = Cancelled
               THEN [@ EXCEPT !.pc = "leaving", !.outcome = "cancelled"]
               ELSE [@ EXCEPT !.answers = Append(form[f].answers, v), !.at = q + 1,
                              !.pc = IF q = Size THEN "leaving" ELSE "waiting"]]
        /\ UNCHANGED <<stage, sink, closed, accepted, events, submits>>

Expire(f) ==
    /\ Timed /\ form[f].pc = "waiting" /\ entry[f][form[f].at] = Open
    /\ entry' = [entry EXCEPT ![f][form[f].at] = Gone]
    /\ form' = [form EXCEPT ![f].pc = "leaving", ![f].outcome = "timed_out"]
    /\ UNCHANGED <<stage, sink, closed, accepted, events, submits>>

\* The finally block: the form goes, unvisited entries are disposed of.
Leave(f) ==
    /\ form[f].pc = "leaving"
    /\ form' = [form EXCEPT ![f].pc = "done"]
    /\ entry' = [entry EXCEPT ![f] = [q \in Questions |-> Gone]]
    /\ events' = Append(events, <<"resolved", f>>)
    /\ UNCHANGED <<stage, sink, closed, accepted, submits>>

-----------------------------------------------------------------------------
(* Bridge.handle, for an answer of the App.                                *)

\* _coerce: free text and a matching label are answers, a skip is the
\* gateway's own word for one, and nothing else answers a choice.
Coerce(raw) == CASE raw = "skip" -> "SKIPPED"
                 [] raw = "junk" -> "none"
                 [] OTHER -> raw

\* Mutant: a form takes answers twice.
Answerable_Again(f) == Registered(f)

\* A form takes one set of answers, as long as none of its questions is over.
Answerable(f) ==
    /\ Registered(f) /\ ~form[f].submitted
    /\ \A q \in Questions : q >= form[f].at /\ entry[f][q] \in {Open, Gone}

\* An entry already dropped makes resolve fail at that question; the ones
\* before it stay resolved, and the App is told 404.
Submit(f, raw) ==
    LET missing == {q \in Questions : entry[f][q] = Gone}
        upto    == {q \in Questions : \A p \in missing : q < p}
    IN  /\ submits < MaxSubmits
        /\ Answerable(f)
        /\ \A q \in Questions : Coerce(raw[q]) # "none"
        /\ submits' = submits + 1
        /\ entry' = [entry EXCEPT ![f] = [q \in Questions |->
                       IF q \in upto THEN Coerce(raw[q]) ELSE @[q]]]
        /\ IF missing = {}
             THEN /\ form' = [form EXCEPT ![f].submitted = TRUE]
                  /\ accepted' = [accepted EXCEPT ![f] = @ \cup {raw}]
             ELSE UNCHANGED <<form, accepted>>
        /\ UNCHANGED <<stage, sink, closed, events>>

-----------------------------------------------------------------------------
Thread(f) == Register(f) \/ Collect(f) \/ Expire(f) \/ Leave(f)

Next ==
    \/ \E r \in Runs : RunStarts(r) \/ RunEnds(r) \/ CancelRun(r)
    \/ \E f \in Forms : \/ Thread(f)
                        \/ \E r \in Runs : Ask(f, r)
                        \/ \E raw \in [Questions -> Raw] : Submit(f, raw)
    \/ Close

Spec == Init /\ [][Next]_vars

\* The worker threads run, a due deadline fires, and a status call that has
\* begun finishes. Nobody has to answer, and no run has to end.
FairSpec == /\ Spec
            /\ \A f \in Forms : WF_vars(Thread(f))
            /\ \A r \in Runs : WF_vars(CancelRun(r))

-----------------------------------------------------------------------------
TypeOK ==
    /\ form \in [Forms -> [pc : {"idle", "asking", "waiting", "leaving", "done",
                                 "refused"},
                           run : Runs \cup {"none"}, at : 1..(Size + 1),
                           answers : Seq(Values), outcome : Outcomes,
                           submitted : BOOLEAN]]
    /\ entry \in [Forms -> [Questions -> Values \cup {Gone, Open, Cancelled}]]
    /\ stage \in [Runs -> {"new", "live", "ending", "over"}]
    /\ sink \subseteq Runs /\ closed \in BOOLEAN
    /\ accepted \in [Forms -> SUBSET [Questions -> Raw]]
    /\ events \in Seq({"request", "resolved"} \X Forms)
    /\ submits \in 0..MaxSubmits

\* An App told "answered" was heard: unless the run ended or the bridge was
\* unloaded, the agent gets exactly those answers, all of them, whatever the
\* deadline and a second device did meanwhile (Bridge.handle against
\* Bridge.callback).
AnsweredIsDelivered ==
    \A f \in Forms :
      accepted[f] # {} /\ stage[form[f].run] = "live" /\ ~closed =>
        /\ \A raw \in accepted[f] :
             form[f].answers = [q \in 1..(form[f].at - 1) |-> Coerce(raw[q])]
        /\ form[f].pc = "done" => /\ form[f].outcome = "answered"
                                  /\ Len(form[f].answers) = Size

\* The agent never acts on an answer the App was refused or never sent.
AnswersWereSent ==
    \A f \in Forms : form[f].answers # <<>> =>
      \E raw \in accepted[f] : \A q \in DOMAIN form[f].answers :
        form[f].answers[q] = Coerce(raw[q])

\* A call that is over leaves nothing in the gateway's table, whichever of
\* answer, deadline, run end and unload it lost the race to.
NothingLeft ==
    \A f \in Forms : ~Registered(f) => \A q \in Questions : entry[f][q] = Gone

Published(e) == \E i \in DOMAIN events : events[i] = e

\* The App sees each form open once and close once, in that order, and a
\* form it can still list is open (the sinks publish under the lock).
EventsPair ==
    /\ \A i, j \in DOMAIN events : events[i] = events[j] => i = j
    /\ \A f \in Forms :
         /\ Published(<<"request", f>>) <=> Registered(f) \/ form[f].pc = "done"
         /\ Published(<<"resolved", f>>) <=> form[f].pc = "done"
         /\ \A i, j \in DOMAIN events :
              events[i] = <<"request", f>> /\ events[j] = <<"resolved", f>> => i < j

\* All a form owes the App and the agent.
AnswersHeard == AnsweredIsDelivered /\ AnswersWereSent /\ NothingLeft /\ EventsPair

\* Unloading frees every thread that waits, and none waits after it (close,
\* and the closed test of callback); a form published before its run's
\* terminal status ends with the run. Both hold even where questions have no
\* deadline: Held(f) leads to Freed(f).
Held(f) ==
    \/ closed /\ form[f].pc \in {"asking", "waiting"}
    \/ form[f].pc = "waiting" /\ stage[form[f].run] = "ending"
Freed(f) == form[f].pc \in {"done", "refused"}
=============================================================================

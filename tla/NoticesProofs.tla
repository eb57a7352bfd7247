---------------------------- MODULE NoticesProofs ----------------------------
(***************************************************************************)
(* Safety of what the gateway tells a user who is away and keeps for one   *)
(* who comes back, for every value of the constants: the artifacts and     *)
(* their quota (ArtifactQuota), the activity snapshot (Activity), the push *)
(* of a detached turn (DetachPush), the notification ledger (Notifications)*)
(* and the action properties of the group.                                 *)
(***************************************************************************)
EXTENDS MCNotices, FiniteSets, SequenceTheorems, FiniteSetTheorems, TLAPS


-----------------------------------------------------------------------------
(* ArtifactQuota.                                                          *)

\* An upload that has reserved and stored nothing yet leaves time for the life
\* of a receipt, and no read has met its artifact.
UploadFact(cf, w) ==
    /\ up[w].pc = "idle" => up[w].n = 0
    /\ up[w].pc # "idle" => /\ up[w].n \in 1..issued /\ up[w].n \notin receipts
                            /\ rows[up[w].n] # Quota(cf)!None => ~rows[up[w].n].final
    /\ up[w].pc = "reserved" =>
          /\ disk[up[w].n] = Quota(cf)!None
          /\ rows[up[w].n] # Quota(cf)!None => now + cf.Ttl <= rows[up[w].n].exp
UploadFacts(cf) == \A w \in cf.Uploaders : UploadFact(cf, w)

\* The reservations to come have no row, what was read no file.
IssueFacts(cf) ==
    /\ \A n \in Quota(cf)!Ids : n > issued => /\ rows[n] = Quota(cf)!None /\ disk[n] = Quota(cf)!None
                                              /\ n \notin receipts
    /\ \A n \in spent : disk[n] = Quota(cf)!None

\* A live file has a row, its own, that lives as long.
DiskFact(cf, n) ==
    disk[n] # Quota(cf)!None /\ disk[n].exp > now =>
        /\ rows[n] # Quota(cf)!None /\ rows[n].exp >= disk[n].exp
        /\ rows[n].size = disk[n].size /\ rows[n].by = disk[n].by
DiskFacts(cf) == \A n \in Quota(cf)!Ids : DiskFact(cf, n)

\* A finalised row lives no longer than its file, and without faults it has a
\* file or a read.
FinalFact(cf, n) ==
    rows[n] # Quota(cf)!None /\ rows[n].final =>
        /\ disk[n] # Quota(cf)!None => rows[n].exp = disk[n].exp
        /\ ~cf.Faults /\ rows[n].exp > now => disk[n] # Quota(cf)!None \/ n \in reading
FinalFacts(cf) == \A n \in Quota(cf)!Ids : FinalFact(cf, n)

\* The rows, live or not, are within the limits.
Mine(cf, p) == {n \in Quota(cf)!Held(rows) : rows[n].by = p}
RowsWithin(cf) ==
    /\ Quota(cf)!Bytes(rows, Quota(cf)!Held(rows)) <= cf.GlobalLimit
    /\ \A p \in cf.Principals : Quota(cf)!Bytes(rows, Mine(cf, p)) <= cf.PrincipalLimit

QuotaInv(cf) ==
    /\ Quota(cf)!TypeOK /\ UploadFacts(cf) /\ IssueFacts(cf) /\ DiskFacts(cf) /\ FinalFacts(cf) /\ RowsWithin(cf)

-----------------------------------------------------------------------------
(* What a fold adds up. Induction over finite sets, in the form that a     *)
(* family of them has a minimal member.                                    *)

\* A family of subsets of a finite set has a minimal member.
LEMMA Minimal ==
  ASSUME NEW S, IsFiniteSet(S), NEW F \in SUBSET (SUBSET S), F # {}
  PROVE  \E A \in F : \A B \in F : B \subseteq A => B = A
  <1>1. IsWellFoundedOn(StrictSubsetOrdering(S), FiniteSubsetsOf(S))
    BY FS_StrictSubsetOrderingWellFounded
  <1>2. F \subseteq FiniteSubsetsOf(S) BY FS_FiniteSubsetsOfFinite
  <1>3. \E A \in F : \A B \in F : <<B, A>> \notin StrictSubsetOrdering(S)
    BY <1>1, <1>2, WFMin
  <1> QED BY <1>3 DEF StrictSubsetOrdering

First(s) == CHOOSE x \in s : TRUE
Adds(sum, table, s) == IF s = {} THEN 0 ELSE table[First(s)].size + sum[s \ {First(s)}]
Sums(sum, table, S) == sum = [s \in SUBSET S |-> Adds(sum, table, s)]

Sized(table, S) == \A n \in S : table[n].size \in Nat

LEMMA Agree ==
  ASSUME NEW S, IsFiniteSet(S), NEW A \in SUBSET S, NEW B \in SUBSET S, NEW table,
         NEW f, NEW g, Sums(f, table, A), Sums(g, table, B)
  PROVE  \A C \in SUBSET (A \cap B) : f[C] = g[C]
  <1> DEFINE F == {C \in SUBSET (A \cap B) : f[C] # g[C]}
  <1> SUFFICES ASSUME F # {} PROVE FALSE OBVIOUS
  <1>1. PICK C \in F : \A D \in F : D \subseteq C => D = C
    <2>1. F \in SUBSET (SUBSET S) OBVIOUS
    <2> HIDE DEF F
    <2> QED BY <2>1, Minimal
  <1>2. f[C] = Adds(f, table, C) /\ g[C] = Adds(g, table, C) BY DEF Sums
  <1>3. C # {} BY <1>2 DEF Adds
  <1>4. First(C) \in C BY <1>3 DEF First
  <1>5. f[C \ {First(C)}] = g[C \ {First(C)}] BY <1>1, <1>4
  <1> QED BY <1>2, <1>5 DEF Adds

LEMMA Summable ==
  ASSUME NEW S, IsFiniteSet(S), NEW table, Sized(table, S)
  PROVE  \E f \in [SUBSET S -> Nat] : Sums(f, table, S)
  <1> DEFINE P(A) == \E f \in [SUBSET A -> Nat] : Sums(f, table, A)
             F == {A \in SUBSET S : ~P(A)}
  <1> SUFFICES ASSUME F # {} PROVE FALSE OBVIOUS
  <1>1. PICK A \in F : \A B \in F : B \subseteq A => B = A
    <2>1. F \in SUBSET (SUBSET S) OBVIOUS
    <2> HIDE DEF F
    <2> QED BY <2>1, Minimal
  <1>2. \A B \in SUBSET A : B # A => P(B) BY <1>1
  <1> DEFINE h(B) == CHOOSE f \in [SUBSET B -> Nat] : Sums(f, table, B)
             below(B) == h(B)[B]
  <1>3. \A B \in SUBSET A : B # A => h(B) \in [SUBSET B -> Nat] /\ Sums(h(B), table, B)
    BY <1>2
  <1>4. \A B \in SUBSET A : B # A => below(B) \in Nat BY <1>3
  <1>5. ASSUME NEW B \in SUBSET A, B # A, B # {}
        PROVE  below(B) = table[First(B)].size + below(B \ {First(B)})
    <2>1. First(B) \in B BY <1>5 DEF First
    <2> DEFINE C == B \ {First(B)}
    <2>2. C \in SUBSET A /\ C # A /\ C \in SUBSET B BY <2>1, <1>5
    <2>3. Sums(h(B), table, B) /\ Sums(h(C), table, C) BY <2>2, <1>5, <1>3
    <2>4. h(B)[B] = table[First(B)].size + h(B)[C] BY <2>3, <1>5 DEF Sums, Adds
    <2>5. h(B)[C] = h(C)[C]
      <3> HIDE DEF h, C
      <3>1. B \in SUBSET S /\ C \in SUBSET S /\ C \in SUBSET (B \cap C) BY <2>2
      <3> QED BY <3>1, <2>3, Agree
    <2> QED BY <2>4, <2>5
  <1>6. A # {} => below({}) = 0
    <2> HAVE A # {}
    <2>1. Sums(h({}), table, {}) BY <1>3
    <2> HIDE DEF h
    <2> QED BY <2>1 DEF Sums, Adds
  <1> DEFINE top == IF A = {} THEN 0 ELSE table[First(A)].size + below(A \ {First(A)})
             g == [B \in SUBSET A |-> IF B = A THEN top ELSE below(B)]
  <1> HIDE DEF below
  <1>7. A # {} => First(A) \in A BY DEF First
  <1>8. top \in Nat BY <1>4, <1>7 DEF Sized
  <1>9. g \in [SUBSET A -> Nat] BY <1>8, <1>4
  <1>10. ASSUME NEW B \in SUBSET A PROVE g[B] = Adds(g, table, B)
    <2>1. B # {} => First(B) \in B BY DEF First
    <2>2. CASE B = A BY <2>1, <2>2 DEF Adds
    <2>3. CASE B # A BY <2>1, <2>3, <1>5, <1>6 DEF Adds
    <2> QED BY <2>2, <2>3
  <1>11. Sums(g, table, A)
    <2> DEFINE k == [s \in SUBSET A |-> Adds(g, table, s)]
    <2>1. \A s \in SUBSET A : g[s] = k[s] BY <1>10
    <2>2. g = k
      <3> HIDE DEF g
      <3> QED BY <2>1, <1>9
    <2> QED BY <2>2 DEF Sums
  <1> QED BY <1>9, <1>11, <1>1

\* The sum that adds the members as CHOOSE gives them, which is what the fold of
\* Bytes does.
Total(table, S) == (CHOOSE f : Sums(f, table, S))[S]

LEMMA BytesTotal ==
  ASSUME NEW cf, NEW table, NEW S PROVE Quota(cf)!Bytes(table, S) = Total(table, S)
  BY DEF Total, Quota!Bytes, Quota!MapThenSumSet, Quota!MapThenFoldSet, Sums, Adds, First

LEMMA BytesAre ==
  ASSUME NEW S, IsFiniteSet(S), NEW table, Sized(table, S)
  PROVE  \E f \in [SUBSET S -> Nat] : Sums(f, table, S) /\ Total(table, S) = f[S]
  <1>1. \E f : Sums(f, table, S) BY Summable
  <1> DEFINE f == CHOOSE f : Sums(f, table, S)
  <1>2. Sums(f, table, S) BY <1>1
  <1>3. Total(table, S) = f[S] BY DEF Total
  <1>4. PICK k \in [SUBSET S -> Nat] : Sums(k, table, S) BY Summable
  <1>5. f = k
    <2> HIDE DEF f
    <2>1. \A C \in SUBSET (S \cap S) : f[C] = k[C] BY <1>2, <1>4, Agree
    <2> QED BY <2>1, <1>2 DEF Sums
  <1> QED BY <1>2, <1>3, <1>4, <1>5

LEMMA BytesNone == ASSUME NEW table PROVE Total(table, {}) = 0
  <1>1. IsFiniteSet({}) /\ Sized(table, {}) BY FS_EmptySet DEF Sized
  <1>2. PICK f : Sums(f, table, {}) /\ Total(table, {}) = f[{}] BY <1>1, BytesAre
  <1> QED BY <1>2 DEF Sums, Adds

LEMMA BytesTyped ==
  ASSUME NEW S, IsFiniteSet(S), NEW table, Sized(table, S)
  PROVE  Total(table, S) \in Nat
  <1>1. PICK f \in [SUBSET S -> Nat] : Total(table, S) = f[S] BY BytesAre
  <1> QED BY <1>1

LEMMA BytesFirst ==
  ASSUME NEW S, IsFiniteSet(S), S # {}, NEW table, Sized(table, S)
  PROVE  Total(table, S)
           = table[First(S)].size + Total(table, S \ {First(S)})
  <1> DEFINE T == S \ {First(S)}
  <1>1. First(S) \in S BY DEF First
  <1>2. IsFiniteSet(T) /\ Sized(table, T) BY FS_Subset DEF Sized
  <1>3. PICK f : Sums(f, table, S) /\ Total(table, S) = f[S] BY BytesAre
  <1>4. PICK g : Sums(g, table, T) /\ Total(table, T) = g[T] BY <1>2, BytesAre
  <1>5. f[T] = g[T]
    <2>1. T \in SUBSET S /\ S \in SUBSET S /\ T \in SUBSET (S \cap T) OBVIOUS
    <2> HIDE DEF T
    <2> QED BY <2>1, <1>3, <1>4, Agree
  <1>6. f[S] = table[First(S)].size + f[T] BY <1>3 DEF Sums, Adds
  <1> QED BY <1>3, <1>4, <1>5, <1>6

\* The sum does not depend on the order in which the fold takes the members.
LEMMA BytesWithout ==
  ASSUME NEW S, IsFiniteSet(S), NEW table, Sized(table, S), NEW x \in S
  PROVE  Total(table, S) = table[x].size + Total(table, S \ {x})
  <1> DEFINE Sum(A) == Total(table, A)
             Bad(A) == \E y \in A : Sum(A) # table[y].size + Sum(A \ {y})
             F == {A \in SUBSET S : Bad(A)}
  <1> SUFFICES ASSUME F # {} PROVE FALSE OBVIOUS
  <1>1. PICK A \in F : \A B \in F : B \subseteq A => B = A
    <2>1. F \in SUBSET (SUBSET S) OBVIOUS
    <2> HIDE DEF F
    <2> QED BY <2>1, Minimal
  <1>2. PICK y \in A : Sum(A) # table[y].size + Sum(A \ {y}) OBVIOUS
  <1> DEFINE c == First(A)
  <1>3. c \in A BY DEF First
  <1>4. \A B \in SUBSET S : IsFiniteSet(B) /\ Sized(table, B) /\ Sum(B) \in Nat
    BY FS_Subset, BytesTyped DEF Sized
  <1>5. Sum(A) = table[c].size + Sum(A \ {c}) BY <1>4, BytesFirst
  <1>6. y # c BY <1>2, <1>5
  <1>7. /\ Sum(A \ {c}) = table[y].size + Sum((A \ {c}) \ {y})
        /\ Sum(A \ {y}) = table[c].size + Sum((A \ {y}) \ {c})
    <2>1. ASSUME NEW B \in SUBSET A, B # A, NEW z \in B
          PROVE  Sum(B) = table[z].size + Sum(B \ {z})
      BY <2>1, <1>1
    <2>2. A \ {c} \in SUBSET A /\ A \ {c} # A /\ y \in A \ {c} BY <1>3, <1>6
    <2>3. A \ {y} \in SUBSET A /\ A \ {y} # A /\ c \in A \ {y} BY <1>3, <1>6
    <2> HIDE DEF Sum, c, F
    <2> QED BY <2>1, <2>2, <2>3
  <1>9. (A \ {c}) \ {y} = (A \ {y}) \ {c} OBVIOUS
  <1>10. table[c].size \in Nat /\ table[y].size \in Nat BY <1>3 DEF Sized
  <1>11. Sum((A \ {y}) \ {c}) \in Nat BY <1>4
  <1> HIDE DEF Sum, c, F
  <1> QED BY <1>2, <1>5, <1>7, <1>9, <1>10, <1>11

\* Fewer members of at most the same sizes are not more bytes.
LEMMA BytesMonotone ==
  ASSUME NEW S, IsFiniteSet(S), NEW t, NEW u, Sized(t, S), Sized(u, S),
         NEW A \in SUBSET S, NEW B \in SUBSET S, A \subseteq B,
         \A n \in A : t[n].size <= u[n].size
  PROVE  Total(t, A) <= Total(u, B)
  <1> DEFINE T(C) == Total(t, C)
             U(C) == Total(u, C)
             F == {C \in SUBSET B : ~(T(A \cap C) <= U(C))}
  <1> SUFFICES ASSUME F # {} PROVE FALSE
    <2>1. A \cap B = A OBVIOUS
    <2>2. B \notin F => T(A \cap B) <= U(B) OBVIOUS
    <2> HIDE DEF T, U
    <2>3. F = {} => T(A) <= U(B) BY <2>1, <2>2
    <2> QED BY <2>3 DEF T, U
  <1>1. PICK C \in F : \A D \in F : D \subseteq C => D = C
    <2>1. F \in SUBSET (SUBSET S) OBVIOUS
    <2> HIDE DEF F
    <2> QED BY <2>1, Minimal
  <1>2. \A D \in SUBSET S : /\ IsFiniteSet(D) /\ Sized(t, D) /\ Sized(u, D)
                            /\ T(D) \in Nat /\ U(D) \in Nat
    BY FS_Subset, BytesTyped DEF Sized
  <1>3. C # {}
    <2> SUFFICES ASSUME C = {} PROVE FALSE OBVIOUS
    <2>1. T(A \cap C) = 0
      BY BytesNone
    <2>2. U(C) = 0 BY BytesNone
    <2>3. ~(T(A \cap C) <= U(C)) OBVIOUS
    <2> QED BY <2>1, <2>2, <2>3
  <1>4. PICK x : x \in C BY <1>3
  <1>5. U(C) = u[x].size + U(C \ {x})
    BY <1>2, <1>4, BytesWithout
  <1>6. T(A \cap (C \ {x})) <= U(C \ {x}) BY <1>1, <1>4
  <1>7. /\ T(A \cap (C \ {x})) \in Nat /\ U(C \ {x}) \in Nat /\ U(C) \in Nat
        /\ T(A \cap C) \in Nat BY <1>2
  <1>8. u[x].size \in Nat BY <1>4 DEF Sized
  <1>9. CASE x \in A
    <2>1. T(A \cap C) = t[x].size + T((A \cap C) \ {x})
      BY <1>2, <1>4, <1>9, BytesWithout
    <2>2. (A \cap C) \ {x} = A \cap (C \ {x}) OBVIOUS
    <2>3. t[x].size \in Nat /\ t[x].size <= u[x].size BY <1>9 DEF Sized
    <2>4. ~(T(A \cap C) <= U(C)) OBVIOUS
    <2>5. T(A \cap C) = t[x].size + T(A \cap (C \ {x})) BY <2>1, <2>2
    <2> DEFINE l == t[x].size
               m == u[x].size
               p == T(A \cap (C \ {x}))
               q == U(C \ {x})
    <2>6. l \in Nat /\ m \in Nat /\ p \in Nat /\ q \in Nat /\ l <= m /\ p <= q
      BY <2>3, <1>6, <1>7, <1>8
    <2>7. T(A \cap C) = l + p /\ U(C) = m + q BY <2>5, <1>5
    <2>8. l + p <= m + q
      <3> HIDE DEF l, m, p, q
      <3> QED BY <2>6
    <2> QED BY <2>4, <2>7, <2>8
  <1>10. CASE x \notin A
    <2>1. A \cap C = A \cap (C \ {x}) BY <1>10
    <2>2. ~(T(A \cap C) <= U(C)) OBVIOUS
    <2> DEFINE m == u[x].size
               p == T(A \cap (C \ {x}))
               q == U(C \ {x})
    <2>3. T(A \cap C) = p /\ U(C) = m + q BY <2>1, <1>5
    <2>4. m \in Nat /\ p \in Nat /\ q \in Nat /\ p <= q BY <1>6, <1>7, <1>8
    <2>5. p <= m + q
      <3> HIDE DEF m, p, q
      <3> QED BY <2>4
    <2> QED BY <2>2, <2>3, <2>5
  <1> QED BY <1>9, <1>10

-----------------------------------------------------------------------------
(* The invariant of the quota.                                             *)

LEMMA QuotaNumbers ==
  ASSUME NEW cf, Quota(cf)!Shape
  PROVE  /\ cf.Cap \in Nat /\ cf.PrincipalLimit \in Nat /\ cf.GlobalLimit \in Nat /\ cf.Ttl \in Nat
         /\ cf.Grace \in Nat /\ cf.MaxStores \in Nat /\ cf.MaxNow \in Nat /\ cf.Faults \in BOOLEAN
         /\ cf.Ttl < cf.Grace /\ cf.Sizes \subseteq Nat
  BY DEF Quota!Shape

LEMMA NoneIsNoRow ==
  ASSUME NEW cf
  PROVE  Quota(cf)!None \notin Quota(cf)!Row
  BY DEF Quota!Row, Quota!None

\* A table without the rows that expired.
LEMMA PurgedRows ==
  ASSUME NEW cf,
         Quota(cf)!Shape, now \in Nat, NEW table \in [Quota(cf)!Ids -> Quota(cf)!Row \cup {Quota(cf)!None}]
  PROVE  /\ Quota(cf)!Purged(table) \in [Quota(cf)!Ids -> Quota(cf)!Row \cup {Quota(cf)!None}]
         /\ \A n \in Quota(cf)!Ids :
               Quota(cf)!Purged(table)[n] = IF table[n] # Quota(cf)!None /\ table[n].exp > now
                                        THEN table[n] ELSE Quota(cf)!None
  BY DEF Quota!Purged, Quota!LiveIn, Quota!Held

LEMMA RowFields ==
  ASSUME NEW cf,
         NEW table \in [Quota(cf)!Ids -> Quota(cf)!Row \cup {Quota(cf)!None}], NEW n \in Quota(cf)!Ids
  PROVE  /\ table[n].size \in Nat /\ table[n].exp \in Nat /\ table[n].final \in BOOLEAN
         /\ table[n] # Quota(cf)!None => table[n] \in Quota(cf)!Row
         /\ table[n] # Quota(cf)!None =>
               table[n].size \in 1..cf.Cap /\ table[n].by \in cf.Principals /\ table[n].exp \in Nat
  <1>1. CASE table[n] = Quota(cf)!None BY <1>1 DEF Quota!None
  <1>2. CASE table[n] \in Quota(cf)!Row
    BY <1>2 DEF Quota!Row
  <1> QED BY <1>1, <1>2

LEMMA UploadIs ==
  ASSUME NEW cf,
         Quota(cf)!Shape, Quota(cf)!TypeOK, UploadFacts(cf), NEW w \in cf.Uploaders, up[w].pc # "idle"
  PROVE  /\ up[w].n \in Quota(cf)!Ids /\ up[w].n \in 1..issued /\ up[w].n \notin receipts
         /\ rows[up[w].n] \in Quota(cf)!Row \cup {Quota(cf)!None}
         /\ disk[up[w].n] \in Quota(cf)!Row \cup {Quota(cf)!None}
         /\ \A v \in cf.Uploaders : v # w => up[v].n # up[w].n
  <1>1. up[w].n \in 1..issued /\ up[w].n \notin receipts BY DEF UploadFacts, UploadFact
  <1>2. up[w].n \in Quota(cf)!Ids BY <1>1, QuotaNumbers DEF Quota!TypeOK, Quota!Ids
  <1>3. ASSUME NEW v \in cf.Uploaders, v # w, up[v].n = up[w].n PROVE FALSE
    BY <1>3 DEF Quota!TypeOK, Quota!Idle
  <1> QED BY <1>1, <1>2, <1>3 DEF Quota!TypeOK

\* The tables after a step: each row is made, kept, given its receipt, or gone.
LEMMA QuotaTablesTyped ==
  ASSUME NEW cf,
         Quota(cf)!Shape, Quota(cf)!TypeOK, UploadFacts(cf), [Quota(cf)!Next]_(Quota(cf)!vars)
  PROVE  /\ rows' \in [Quota(cf)!Ids -> Quota(cf)!Row \cup {Quota(cf)!None}]
         /\ disk' \in [Quota(cf)!Ids -> Quota(cf)!Row \cup {Quota(cf)!None}]
  <1>1. CASE UNCHANGED <<rows, disk>>
    BY <1>1 DEF Quota!TypeOK
  <1>2. ASSUME NEW w \in cf.Uploaders, NEW p \in cf.Principals, NEW size \in cf.Sizes, Quota(cf)!Reserve(w, p, size)
        PROVE  /\ rows' \in [Quota(cf)!Ids -> Quota(cf)!Row \cup {Quota(cf)!None}]
               /\ disk' \in [Quota(cf)!Ids -> Quota(cf)!Row \cup {Quota(cf)!None}]
    <2>1. now \in Nat /\ rows \in [Quota(cf)!Ids -> Quota(cf)!Row \cup {Quota(cf)!None}]
      BY QuotaNumbers DEF Quota!TypeOK
    <2>2. Quota(cf)!Purged(rows) \in [Quota(cf)!Ids -> Quota(cf)!Row \cup {Quota(cf)!None}]
      BY <2>1, PurgedRows
    <2>3. [by |-> p, size |-> size, exp |-> Quota(cf)!OpenUntil, final |-> FALSE] \in Quota(cf)!Row
      BY <1>2, <2>1, QuotaNumbers DEF Quota!Reserve, Quota!Accepted, Quota!OpenUntil, Quota!Row
    <2>4. disk' \in [Quota(cf)!Ids -> Quota(cf)!Row \cup {Quota(cf)!None}]
      BY <1>2 DEF Quota!Reserve, Quota!TypeOK
    <2> QED BY <1>2, <2>2, <2>3, <2>4 DEF Quota!Reserve
  <1>3. ASSUME NEW w \in cf.Uploaders, Quota(cf)!Stores(w)
        PROVE  /\ rows' \in [Quota(cf)!Ids -> Quota(cf)!Row \cup {Quota(cf)!None}]
               /\ disk' \in [Quota(cf)!Ids -> Quota(cf)!Row \cup {Quota(cf)!None}]
    <2> DEFINE n == up[w].n
               file == [by |-> rows[n].by, size |-> rows[n].size, exp |-> now + cf.Ttl, final |-> TRUE]
    <2>1. n \in Quota(cf)!Ids /\ rows[n] \in Quota(cf)!Row BY <1>3, UploadIs DEF Quota!Stores
    <2>2. now \in Nat /\ cf.Ttl \in Nat BY QuotaNumbers DEF Quota!TypeOK
    <2>3. file \in Quota(cf)!Row BY <2>1, <2>2 DEF Quota!Row
    <2> HIDE DEF file
    <2>4. disk' = [disk EXCEPT ![n] = file] BY <1>3 DEF Quota!Stores, file
    <2> HIDE DEF n
    <2>5. disk' \in [Quota(cf)!Ids -> Quota(cf)!Row \cup {Quota(cf)!None}] BY <2>1, <2>3, <2>4 DEF Quota!TypeOK
    <2> QED BY <1>3, <2>5 DEF Quota!Stores, Quota!TypeOK
  <1>4. ASSUME NEW w \in cf.Uploaders, Quota(cf)!StoreFails(w)
        PROVE  /\ rows' \in [Quota(cf)!Ids -> Quota(cf)!Row \cup {Quota(cf)!None}]
               /\ disk' \in [Quota(cf)!Ids -> Quota(cf)!Row \cup {Quota(cf)!None}]
    BY <1>4 DEF Quota!StoreFails, Quota!TypeOK, Quota!Cancelled, Quota!Released
  <1>5. ASSUME NEW w \in cf.Uploaders, Quota(cf)!Finalizes(w)
        PROVE  /\ rows' \in [Quota(cf)!Ids -> Quota(cf)!Row \cup {Quota(cf)!None}]
               /\ disk' \in [Quota(cf)!Ids -> Quota(cf)!Row \cup {Quota(cf)!None}]
    <2> DEFINE n == up[w].n
               sealed == [rows[n] EXCEPT !.exp = disk[n].exp, !.final = TRUE]
    <2>1. n \in Quota(cf)!Ids /\ rows[n] \in Quota(cf)!Row BY <1>5, UploadIs DEF Quota!Finalizes, Quota!Open
    <2>2. disk[n].exp \in Nat BY <2>1, RowFields DEF Quota!TypeOK
    <2>3. sealed \in Quota(cf)!Row BY <2>1, <2>2 DEF Quota!Row
    <2> HIDE DEF sealed
    <2>4. rows' = [rows EXCEPT ![n] = sealed] BY <1>5 DEF Quota!Finalizes, sealed
    <2> HIDE DEF n
    <2>5. rows' \in [Quota(cf)!Ids -> Quota(cf)!Row \cup {Quota(cf)!None}] BY <2>1, <2>3, <2>4 DEF Quota!TypeOK
    <2> QED BY <1>5, <2>5 DEF Quota!Finalizes, Quota!TypeOK
  <1>6. ASSUME NEW w \in cf.Uploaders, Quota(cf)!FinalizeFails(w)
        PROVE  /\ rows' \in [Quota(cf)!Ids -> Quota(cf)!Row \cup {Quota(cf)!None}]
               /\ disk' \in [Quota(cf)!Ids -> Quota(cf)!Row \cup {Quota(cf)!None}]
    BY <1>6 DEF Quota!FinalizeFails, Quota!TypeOK, Quota!Cancelled, Quota!Released
  <1>7. ASSUME NEW n \in Quota(cf)!Ids, Quota(cf)!Loads(n)
        PROVE  /\ rows' \in [Quota(cf)!Ids -> Quota(cf)!Row \cup {Quota(cf)!None}]
               /\ disk' \in [Quota(cf)!Ids -> Quota(cf)!Row \cup {Quota(cf)!None}]
    BY <1>7 DEF Quota!Loads, Quota!TypeOK, Quota!Cancelled, Quota!Released
  <1>8. ASSUME NEW n \in Quota(cf)!Ids, Quota(cf)!Returns(n)
        PROVE  /\ rows' \in [Quota(cf)!Ids -> Quota(cf)!Row \cup {Quota(cf)!None}]
               /\ disk' \in [Quota(cf)!Ids -> Quota(cf)!Row \cup {Quota(cf)!None}]
    BY <1>8 DEF Quota!Returns, Quota!TypeOK, Quota!Cancelled, Quota!Released
  <1>9. CASE Quota(cf)!Prune
    BY QuotaNumbers, <1>9, PurgedRows DEF Quota!TypeOK, Quota!Prune
  <1> QED
    BY <1>1, <1>2, <1>3, <1>4, <1>5, <1>6, <1>7, <1>8, <1>9
    DEF Quota!vars, Quota!Next, Quota!Crash, Quota!ReadFails, Quota!Tick

\* An upload that is over keeps no reservation from the others.
LEMMA IdleAgain ==
  ASSUME NEW cf,
         Quota(cf)!TypeOK, UploadFacts(cf), NEW w \in cf.Uploaders, up' = [up EXCEPT ![w] = Quota(cf)!Idle]
  PROVE  /\ up' \in [cf.Uploaders -> [pc : {"idle", "reserved", "stored"}, n : {0} \cup Quota(cf)!Ids]]
         /\ \A v, x \in cf.Uploaders : v # x /\ up'[v].n = up'[x].n => up'[v] = Quota(cf)!Idle
  <1>1. Quota(cf)!Idle \in [pc : {"idle", "reserved", "stored"}, n : {0} \cup Quota(cf)!Ids]
    BY DEF Quota!Idle
  <1>2. \A v \in cf.Uploaders : v # w => up'[v] = up[v] BY DEF Quota!TypeOK
  <1>3. up'[w] = Quota(cf)!Idle BY DEF Quota!TypeOK
  <1>4. ASSUME NEW v \in cf.Uploaders, NEW x \in cf.Uploaders, v # x, up'[v].n = up'[x].n
        PROVE  up'[v] = Quota(cf)!Idle
    <2>1. CASE v = w BY <2>1, <1>3
    <2>2. CASE x = w
      BY <1>2, <1>3, <1>4, <2>2 DEF Quota!Idle, UploadFacts, UploadFact, Quota!TypeOK
    <2>3. CASE v # w /\ x # w BY <2>3, <1>2, <1>4 DEF Quota!TypeOK
    <2> QED BY <2>1, <2>2, <2>3
  <1> QED BY <1>1, <1>4 DEF Quota!TypeOK

LEMMA UploadsTyped ==
  ASSUME NEW cf,
         Quota(cf)!Shape, Quota(cf)!TypeOK, UploadFacts(cf), [Quota(cf)!Next]_(Quota(cf)!vars)
  PROVE  /\ up' \in [cf.Uploaders -> [pc : {"idle", "reserved", "stored"}, n : {0} \cup Quota(cf)!Ids]]
         /\ \A v, x \in cf.Uploaders : v # x /\ up'[v].n = up'[x].n => up'[v] = Quota(cf)!Idle
  <1>1. CASE UNCHANGED up
    BY <1>1 DEF Quota!TypeOK
  <1>2. ASSUME NEW w \in cf.Uploaders, NEW p \in cf.Principals, NEW size \in cf.Sizes, Quota(cf)!Reserve(w, p, size)
        PROVE  /\ up' \in [cf.Uploaders -> [pc : {"idle", "reserved", "stored"}, n : {0} \cup Quota(cf)!Ids]]
               /\ \A v, x \in cf.Uploaders : v # x /\ up'[v].n = up'[x].n => up'[v] = Quota(cf)!Idle
    BY <1>2, QuotaNumbers DEF Quota!Reserve, Quota!TypeOK, Quota!Ids, Quota!Idle, UploadFacts,
       UploadFact
  <1>3. ASSUME NEW w \in cf.Uploaders, Quota(cf)!Stores(w)
        PROVE  /\ up' \in [cf.Uploaders -> [pc : {"idle", "reserved", "stored"}, n : {0} \cup Quota(cf)!Ids]]
               /\ \A v, x \in cf.Uploaders : v # x /\ up'[v].n = up'[x].n => up'[v] = Quota(cf)!Idle
    <2>1. \A v \in cf.Uploaders : up'[v].n = up[v].n /\ (v # w => up'[v] = up[v])
      BY <1>3 DEF Quota!Stores, Quota!TypeOK
    <2>2. \A v, x \in cf.Uploaders : v # x /\ up'[v].n = up'[x].n => up'[v] = Quota(cf)!Idle
      <3> SUFFICES ASSUME NEW v \in cf.Uploaders, NEW x \in cf.Uploaders, v # x, up'[v].n = up'[x].n
                   PROVE  up'[v] = Quota(cf)!Idle
        OBVIOUS
      <3>1. up[v] = Quota(cf)!Idle /\ up[x] = Quota(cf)!Idle BY <2>1 DEF Quota!TypeOK
      <3>2. v # w BY <3>1, <1>3 DEF Quota!Stores, Quota!Idle
      <3> QED BY <3>1, <3>2, <2>1
    <2> QED BY <1>3, <2>2 DEF Quota!Stores, Quota!TypeOK
  <1>4. ASSUME NEW w \in cf.Uploaders, Quota(cf)!StoreFails(w)
        PROVE  /\ up' \in [cf.Uploaders -> [pc : {"idle", "reserved", "stored"}, n : {0} \cup Quota(cf)!Ids]]
               /\ \A v, x \in cf.Uploaders : v # x /\ up'[v].n = up'[x].n => up'[v] = Quota(cf)!Idle
    BY <1>4, IdleAgain DEF Quota!StoreFails
  <1>5. ASSUME NEW w \in cf.Uploaders, Quota(cf)!Finalizes(w)
        PROVE  /\ up' \in [cf.Uploaders -> [pc : {"idle", "reserved", "stored"}, n : {0} \cup Quota(cf)!Ids]]
               /\ \A v, x \in cf.Uploaders : v # x /\ up'[v].n = up'[x].n => up'[v] = Quota(cf)!Idle
    BY <1>5, IdleAgain DEF Quota!Finalizes
  <1>6. ASSUME NEW w \in cf.Uploaders, Quota(cf)!FinalizeFails(w)
        PROVE  /\ up' \in [cf.Uploaders -> [pc : {"idle", "reserved", "stored"}, n : {0} \cup Quota(cf)!Ids]]
               /\ \A v, x \in cf.Uploaders : v # x /\ up'[v].n = up'[x].n => up'[v] = Quota(cf)!Idle
    BY <1>6, IdleAgain DEF Quota!FinalizeFails
  <1>7. ASSUME NEW w \in cf.Uploaders, Quota(cf)!Crash(w)
        PROVE  /\ up' \in [cf.Uploaders -> [pc : {"idle", "reserved", "stored"}, n : {0} \cup Quota(cf)!Ids]]
               /\ \A v, x \in cf.Uploaders : v # x /\ up'[v].n = up'[x].n => up'[v] = Quota(cf)!Idle
    BY <1>7, IdleAgain DEF Quota!Crash
  <1> QED
    BY <1>1, <1>2, <1>3, <1>4, <1>5, <1>6, <1>7
    DEF Quota!vars, Quota!Next, Quota!Loads, Quota!Returns, Quota!ReadFails, Quota!Prune,
        Quota!Tick

LEMMA UploadsKept ==
  ASSUME NEW cf,
         Quota(cf)!Shape, Quota(cf)!TypeOK, UploadFacts(cf), IssueFacts(cf), [Quota(cf)!Next]_(Quota(cf)!vars)
  PROVE  \A v \in cf.Uploaders : UploadFact(cf, v)'
  <1>1. CASE UNCHANGED <<now, rows, disk, up, issued, receipts>>
    BY <1>1 DEF UploadFacts, UploadFact
  <1>2. ASSUME NEW w \in cf.Uploaders, NEW p \in cf.Principals, NEW size \in cf.Sizes, Quota(cf)!Reserve(w, p, size)
        PROVE  \A v \in cf.Uploaders : UploadFact(cf, v)'
    <2> TAKE v \in cf.Uploaders
    <2>1. CASE v # w
      <3>1. up'[v] = up[v] BY <1>2, <2>1 DEF Quota!Reserve, Quota!TypeOK
      <3>2. CASE up[v].pc = "idle" BY <3>1, <3>2 DEF UploadFacts, UploadFact
      <3>3. CASE up[v].pc # "idle"
        <4>1. up[v].n \in Quota(cf)!Ids /\ up[v].n \in 1..issued /\ up[v].n \notin receipts
          BY <3>3, UploadIs
        <4>2. issued \in Nat /\ issued' = issued + 1 BY <1>2, QuotaNumbers DEF Quota!Reserve, Quota!TypeOK
        <4>3. rows'[up[v].n] \in {rows[up[v].n], Quota(cf)!None}
          BY QuotaNumbers, <4>1, PurgedRows, <1>2, <4>2 DEF Quota!TypeOK, Quota!Reserve
        <4>4. now' = now /\ disk' = disk /\ receipts' = receipts BY <1>2 DEF Quota!Reserve
        <4> QED BY <3>1, <3>3, <4>1, <4>2, <4>3, <4>4 DEF UploadFacts, UploadFact
      <3> QED BY <3>2, <3>3
    <2>2. CASE v = w
      <3>1. issued + 1 \in Quota(cf)!Ids /\ issued \in Nat /\ now \in Nat
        BY <1>2, QuotaNumbers DEF Quota!Reserve, Quota!TypeOK, Quota!Ids
      <3>2. up'[v] = [pc |-> "reserved", n |-> issued + 1] /\ issued' = issued + 1
        BY <1>2, <2>2 DEF Quota!Reserve, Quota!TypeOK
      <3>3. rows'[issued + 1]
              = [by |-> p, size |-> size, exp |-> now + cf.Grace, final |-> FALSE]
        BY <1>2, <3>1, PurgedRows DEF Quota!Reserve, Quota!TypeOK, Quota!OpenUntil
      <3>4. disk'[issued + 1] = Quota(cf)!None /\ issued + 1 \notin receipts'
        BY <1>2, <3>1 DEF Quota!Reserve, IssueFacts
      <3>5. now' + cf.Ttl <= now + cf.Grace BY <1>2, <3>1, QuotaNumbers DEF Quota!Reserve
      <3> QED BY <3>1, <3>2, <3>3, <3>4, <3>5 DEF UploadFact
    <2> QED BY <2>1, <2>2
  <1>3. ASSUME NEW w \in cf.Uploaders, Quota(cf)!Stores(w)
        PROVE  \A v \in cf.Uploaders : UploadFact(cf, v)'
    <2> TAKE v \in cf.Uploaders
    <2>1. CASE v # w
      <3>1. up'[v] = up[v] BY <1>3, <2>1 DEF Quota!Stores, Quota!TypeOK
      <3>2. CASE up[v].pc = "idle" BY <3>1, <3>2 DEF UploadFacts, UploadFact
      <3>3. CASE up[v].pc # "idle"
        <4>1. up[v].n \in Quota(cf)!Ids /\ up[v].n # up[w].n BY <2>1, <3>3, UploadIs
        <4> QED BY <1>3, <3>1, <3>3, <4>1
            DEF Quota!Stores, Quota!TypeOK, Quota!Cancelled, UploadFacts, UploadFact
      <3> QED BY <3>2, <3>3
    <2>2. CASE v = w
      <3> QED BY <1>3, <2>2 DEF Quota!Stores, Quota!TypeOK, UploadFacts, UploadFact
    <2> QED BY <2>1, <2>2
  <1>4. ASSUME NEW w \in cf.Uploaders, Quota(cf)!StoreFails(w)
        PROVE  \A v \in cf.Uploaders : UploadFact(cf, v)'
    <2> TAKE v \in cf.Uploaders
    <2>1. CASE v # w
      <3>1. up'[v] = up[v] BY <1>4, <2>1 DEF Quota!StoreFails, Quota!TypeOK
      <3>2. CASE up[v].pc = "idle" BY <3>1, <3>2 DEF UploadFacts, UploadFact
      <3>3. CASE up[v].pc # "idle"
        BY <2>1, <3>3, UploadIs, <1>4, <3>1 DEF Quota!StoreFails, Quota!TypeOK, Quota!Cancelled,
           UploadFacts, UploadFact
      <3> QED BY <3>2, <3>3
    <2>2. CASE v = w
      BY <1>4, <2>2 DEF Quota!StoreFails, Quota!TypeOK, UploadFact, Quota!Idle
    <2> QED BY <2>1, <2>2
  <1>5. ASSUME NEW w \in cf.Uploaders, Quota(cf)!Finalizes(w)
        PROVE  \A v \in cf.Uploaders : UploadFact(cf, v)'
    <2> TAKE v \in cf.Uploaders
    <2>1. CASE v # w
      <3>1. up'[v] = up[v] BY <1>5, <2>1 DEF Quota!Finalizes, Quota!TypeOK
      <3>2. CASE up[v].pc = "idle" BY <3>1, <3>2 DEF UploadFacts, UploadFact
      <3>3. CASE up[v].pc # "idle"
        <4>1. up[v].n \in Quota(cf)!Ids /\ up[v].n # up[w].n BY <2>1, <3>3, UploadIs
        <4> QED BY <1>5, <3>1, <3>3, <4>1
            DEF Quota!Finalizes, Quota!TypeOK, Quota!Cancelled, UploadFacts, UploadFact
      <3> QED BY <3>2, <3>3
    <2>2. CASE v = w
      BY <1>5, <2>2 DEF Quota!Finalizes, Quota!TypeOK, UploadFact, Quota!Idle
    <2> QED BY <2>1, <2>2
  <1>6. ASSUME NEW w \in cf.Uploaders, Quota(cf)!FinalizeFails(w)
        PROVE  \A v \in cf.Uploaders : UploadFact(cf, v)'
    <2> TAKE v \in cf.Uploaders
    <2>1. CASE v # w
      <3>1. up'[v] = up[v] BY <1>6, <2>1 DEF Quota!FinalizeFails, Quota!TypeOK
      <3>2. CASE up[v].pc = "idle" BY <3>1, <3>2 DEF UploadFacts, UploadFact
      <3>3. CASE up[v].pc # "idle"
        BY <2>1, <3>3, UploadIs, <1>6, <3>1 DEF Quota!FinalizeFails, Quota!TypeOK, Quota!Cancelled,
           UploadFacts, UploadFact
      <3> QED BY <3>2, <3>3
    <2>2. CASE v = w
      BY <1>6, <2>2 DEF Quota!FinalizeFails, Quota!TypeOK, UploadFact, Quota!Idle
    <2> QED BY <2>1, <2>2
  <1>7. ASSUME NEW w \in cf.Uploaders, Quota(cf)!Crash(w)
        PROVE  \A v \in cf.Uploaders : UploadFact(cf, v)'
    <2> TAKE v \in cf.Uploaders
    <2>1. CASE v # w
      BY <1>7, <2>1 DEF Quota!Crash, Quota!TypeOK, UploadFacts, UploadFact
    <2>2. CASE v = w
      BY <1>7, <2>2 DEF Quota!Crash, Quota!TypeOK, UploadFact, Quota!Idle
    <2> QED BY <2>1, <2>2
  <1>8. ASSUME NEW n \in Quota(cf)!Ids, Quota(cf)!Loads(n)
        PROVE  \A v \in cf.Uploaders : UploadFact(cf, v)'
    <2> TAKE v \in cf.Uploaders
    <2>1. CASE up[v].pc = "idle" BY <1>8, <2>1 DEF Quota!Loads, UploadFacts, UploadFact
    <2>2. CASE up[v].pc # "idle"
      BY <2>2, UploadIs, <1>8 DEF Quota!Loads, Quota!TypeOK, UploadFacts, UploadFact
    <2> QED BY <2>1, <2>2
  <1>9. ASSUME NEW n \in Quota(cf)!Ids, Quota(cf)!Returns(n)
        PROVE  \A v \in cf.Uploaders : UploadFact(cf, v)'
    <2> TAKE v \in cf.Uploaders
    <2>1. CASE up[v].pc = "idle" BY <1>9, <2>1 DEF Quota!Returns, UploadFacts, UploadFact
    <2>2. CASE up[v].pc # "idle"
      BY <2>2, UploadIs, <1>9 DEF Quota!Returns, Quota!Released, Quota!TypeOK, UploadFacts, UploadFact
    <2> QED BY <2>1, <2>2
  <1>10. CASE Quota(cf)!Prune
    <2> TAKE v \in cf.Uploaders
    <2>1. CASE up[v].pc = "idle" BY <1>10, <2>1 DEF Quota!Prune, UploadFacts, UploadFact
    <2>2. CASE up[v].pc # "idle"
      BY <2>2, UploadIs, QuotaNumbers, <1>10, PurgedRows DEF Quota!TypeOK, Quota!Prune, UploadFacts,
         UploadFact
    <2> QED BY <2>1, <2>2
  <1>11. CASE Quota(cf)!Tick
    <2> TAKE v \in cf.Uploaders
    <2>1. CASE up[v].pc = "idle" BY <1>11, <2>1 DEF Quota!Tick, UploadFacts, UploadFact
    <2>2. CASE up[v].pc # "idle"
      BY <2>2, UploadIs, <1>11 DEF Quota!Tick, Quota!Prompt, UploadFacts, UploadFact
    <2> QED BY <2>1, <2>2
  <1> QED
    BY <1>1, <1>2, <1>3, <1>4, <1>5, <1>6, <1>7, <1>8, <1>9, <1>10, <1>11
    DEF Quota!vars, Quota!Next, Quota!ReadFails

LEMMA SetsTyped ==
  ASSUME NEW cf,
         Quota(cf)!Shape, Quota(cf)!TypeOK, UploadFacts(cf), IssueFacts(cf), [Quota(cf)!Next]_(Quota(cf)!vars)
  PROVE  /\ now' \in 0..cf.MaxNow /\ issued' \in 0..cf.MaxStores
         /\ receipts' \subseteq Quota(cf)!Ids /\ reading' \subseteq spent'
         /\ spent' \subseteq receipts' /\ returned' \subseteq spent'
  <1>1. CASE UNCHANGED <<now, issued, receipts, reading, returned, spent>>
    BY <1>1 DEF Quota!TypeOK
  <1>2. ASSUME NEW w \in cf.Uploaders, NEW p \in cf.Principals, NEW size \in cf.Sizes, Quota(cf)!Reserve(w, p, size)
        PROVE  /\ now' \in 0..cf.MaxNow /\ issued' \in 0..cf.MaxStores
               /\ receipts' \subseteq Quota(cf)!Ids /\ reading' \subseteq spent'
               /\ spent' \subseteq receipts' /\ returned' \subseteq spent'
    BY <1>2, QuotaNumbers DEF Quota!Reserve, Quota!TypeOK, Quota!Ids
  <1>3. ASSUME NEW w \in cf.Uploaders, Quota(cf)!Finalizes(w)
        PROVE  /\ now' \in 0..cf.MaxNow /\ issued' \in 0..cf.MaxStores
               /\ receipts' \subseteq Quota(cf)!Ids /\ reading' \subseteq spent'
               /\ spent' \subseteq receipts' /\ returned' \subseteq spent'
    <2>1. up[w].pc # "idle" BY <1>3 DEF Quota!Finalizes
    <2>2. up[w].n \in Quota(cf)!Ids BY <2>1, UploadIs
    <2> QED BY <1>3, <2>2 DEF Quota!Finalizes, Quota!TypeOK
  <1>4. ASSUME NEW n \in Quota(cf)!Ids, Quota(cf)!Loads(n)
        PROVE  /\ now' \in 0..cf.MaxNow /\ issued' \in 0..cf.MaxStores
               /\ receipts' \subseteq Quota(cf)!Ids /\ reading' \subseteq spent'
               /\ spent' \subseteq receipts' /\ returned' \subseteq spent'
    BY <1>4 DEF Quota!Loads, Quota!TypeOK
  <1>5. ASSUME NEW n \in Quota(cf)!Ids, Quota(cf)!Returns(n)
        PROVE  /\ now' \in 0..cf.MaxNow /\ issued' \in 0..cf.MaxStores
               /\ receipts' \subseteq Quota(cf)!Ids /\ reading' \subseteq spent'
               /\ spent' \subseteq receipts' /\ returned' \subseteq spent'
    BY <1>5 DEF Quota!Returns, Quota!TypeOK
  <1>6. ASSUME NEW n \in Quota(cf)!Ids, Quota(cf)!ReadFails(n)
        PROVE  /\ now' \in 0..cf.MaxNow /\ issued' \in 0..cf.MaxStores
               /\ receipts' \subseteq Quota(cf)!Ids /\ reading' \subseteq spent'
               /\ spent' \subseteq receipts' /\ returned' \subseteq spent'
    BY <1>6 DEF Quota!ReadFails, Quota!TypeOK
  <1>7. CASE Quota(cf)!Tick BY <1>7, QuotaNumbers DEF Quota!Tick, Quota!TypeOK, Quota!Ids
  <1> QED
    BY <1>1, <1>2, <1>3, <1>4, <1>5, <1>6, <1>7
    DEF Quota!vars, Quota!Next, Quota!Stores, Quota!StoreFails, Quota!FinalizeFails,
        Quota!Crash, Quota!Prune

LEMMA IssuesKept ==
  ASSUME NEW cf,
         Quota(cf)!Shape, Quota(cf)!TypeOK, UploadFacts(cf), IssueFacts(cf), [Quota(cf)!Next]_(Quota(cf)!vars)
  PROVE  \A m \in Quota(cf)!Ids :
             m > issued' => /\ rows'[m] = Quota(cf)!None /\ disk'[m] = Quota(cf)!None
                            /\ m \notin receipts'
  <1>1. CASE UNCHANGED <<rows, disk, issued, receipts>>
    BY <1>1 DEF IssueFacts
  <1>2. ASSUME NEW w \in cf.Uploaders, NEW p \in cf.Principals, NEW size \in cf.Sizes, Quota(cf)!Reserve(w, p, size)
        PROVE  \A m \in Quota(cf)!Ids :
                   m > issued' => /\ rows'[m] = Quota(cf)!None /\ disk'[m] = Quota(cf)!None
                                  /\ m \notin receipts'
    <2> TAKE m \in Quota(cf)!Ids
    <2>1. issued \in Nat /\ now \in Nat /\ m \in Nat
      BY QuotaNumbers DEF Quota!TypeOK, Quota!Ids
    <2>2. m > issued' => m > issued /\ m # issued + 1 BY <1>2, <2>1 DEF Quota!Reserve
    <2>3. m > issued' => rows'[m] = Quota(cf)!None
      BY <1>2, <2>1, <2>2, PurgedRows DEF Quota!Reserve, Quota!TypeOK, IssueFacts
    <2> QED BY <1>2, <2>2, <2>3 DEF Quota!Reserve, IssueFacts
  <1>3. ASSUME NEW w \in cf.Uploaders, Quota(cf)!Stores(w)
        PROVE  \A m \in Quota(cf)!Ids :
                   m > issued' => /\ rows'[m] = Quota(cf)!None /\ disk'[m] = Quota(cf)!None
                                  /\ m \notin receipts'
    <2>1. up[w].n \in Quota(cf)!Ids /\ ~(up[w].n > issued) /\ issued \in Nat
      <3>1. up[w].pc # "idle" BY <1>3 DEF Quota!Stores
      <3>2. up[w].n \in Quota(cf)!Ids /\ up[w].n \in 1..issued BY <3>1, UploadIs
      <3>3. cf.MaxStores \in Nat BY QuotaNumbers
      <3> QED BY <3>2, <3>3 DEF Quota!TypeOK
    <2> QED BY <1>3, <2>1 DEF Quota!Stores, Quota!Cancelled, Quota!TypeOK, IssueFacts
  <1>4. ASSUME NEW w \in cf.Uploaders, Quota(cf)!StoreFails(w)
        PROVE  \A m \in Quota(cf)!Ids :
                   m > issued' => /\ rows'[m] = Quota(cf)!None /\ disk'[m] = Quota(cf)!None
                                  /\ m \notin receipts'
    <2>1. up[w].n \in Quota(cf)!Ids /\ ~(up[w].n > issued) /\ issued \in Nat
      BY <1>4, UploadIs, QuotaNumbers DEF Quota!StoreFails, Quota!TypeOK
    <2> QED BY <1>4, <2>1 DEF Quota!StoreFails, Quota!Cancelled, Quota!TypeOK, IssueFacts
  <1>5. ASSUME NEW w \in cf.Uploaders, Quota(cf)!Finalizes(w)
        PROVE  \A m \in Quota(cf)!Ids :
                   m > issued' => /\ rows'[m] = Quota(cf)!None /\ disk'[m] = Quota(cf)!None
                                  /\ m \notin receipts'
    <2>1. up[w].n \in Quota(cf)!Ids /\ ~(up[w].n > issued) /\ issued \in Nat
      <3>1. up[w].pc # "idle" BY <1>5 DEF Quota!Finalizes
      <3>2. up[w].n \in Quota(cf)!Ids /\ up[w].n \in 1..issued BY <3>1, UploadIs
      <3>3. cf.MaxStores \in Nat BY QuotaNumbers
      <3> QED BY <3>2, <3>3 DEF Quota!TypeOK
    <2> QED BY <1>5, <2>1 DEF Quota!Finalizes, Quota!Cancelled, Quota!TypeOK, IssueFacts
  <1>6. ASSUME NEW w \in cf.Uploaders, Quota(cf)!FinalizeFails(w)
        PROVE  \A m \in Quota(cf)!Ids :
                   m > issued' => /\ rows'[m] = Quota(cf)!None /\ disk'[m] = Quota(cf)!None
                                  /\ m \notin receipts'
    <2>1. up[w].n \in Quota(cf)!Ids /\ ~(up[w].n > issued) /\ issued \in Nat
      <3>1. up[w].pc # "idle" BY <1>6 DEF Quota!FinalizeFails
      <3>2. up[w].n \in Quota(cf)!Ids /\ up[w].n \in 1..issued BY <3>1, UploadIs
      <3>3. cf.MaxStores \in Nat BY QuotaNumbers
      <3> QED BY <3>2, <3>3 DEF Quota!TypeOK
    <2> QED BY <1>6, <2>1 DEF Quota!FinalizeFails, Quota!Cancelled, Quota!TypeOK, IssueFacts
  <1>7. ASSUME NEW n \in Quota(cf)!Ids, Quota(cf)!Loads(n)
        PROVE  \A m \in Quota(cf)!Ids :
                   m > issued' => /\ rows'[m] = Quota(cf)!None /\ disk'[m] = Quota(cf)!None
                                  /\ m \notin receipts'
    BY <1>7 DEF Quota!Loads, Quota!TypeOK, Quota!Released, IssueFacts
  <1>8. ASSUME NEW n \in Quota(cf)!Ids, Quota(cf)!Returns(n)
        PROVE  \A m \in Quota(cf)!Ids :
                   m > issued' => /\ rows'[m] = Quota(cf)!None /\ disk'[m] = Quota(cf)!None
                                  /\ m \notin receipts'
    BY <1>8 DEF Quota!Returns, Quota!TypeOK, Quota!Released, IssueFacts
  <1>9. CASE Quota(cf)!Prune
    <2> TAKE m \in Quota(cf)!Ids
    <2>1. now \in Nat BY QuotaNumbers DEF Quota!TypeOK
    <2> QED BY <1>9, <2>1, PurgedRows DEF Quota!Prune, Quota!TypeOK, IssueFacts
  <1> QED
    BY <1>1, <1>2, <1>3, <1>4, <1>5, <1>6, <1>7, <1>8, <1>9
    DEF Quota!vars, Quota!Next, Quota!Crash, Quota!ReadFails, Quota!Tick

LEMMA SpentKept ==
  ASSUME NEW cf,
         Quota(cf)!Shape, Quota(cf)!TypeOK, UploadFacts(cf), IssueFacts(cf), [Quota(cf)!Next]_(Quota(cf)!vars)
  PROVE  \A m \in spent' : disk'[m] = Quota(cf)!None
  <1>1. CASE UNCHANGED <<disk, spent>>
    BY <1>1 DEF IssueFacts
  <1>2. ASSUME NEW w \in cf.Uploaders, Quota(cf)!Stores(w)
        PROVE  \A m \in spent' : disk'[m] = Quota(cf)!None
    <2>1. up[w].n \notin spent BY <1>2, UploadIs DEF Quota!Stores, Quota!TypeOK
    <2> QED BY <1>2, <2>1 DEF Quota!Stores, Quota!TypeOK, IssueFacts
  <1>3. ASSUME NEW w \in cf.Uploaders, Quota(cf)!FinalizeFails(w)
        PROVE  \A m \in spent' : disk'[m] = Quota(cf)!None
    BY <1>3 DEF Quota!FinalizeFails, Quota!TypeOK, IssueFacts
  <1>4. ASSUME NEW n \in Quota(cf)!Ids, Quota(cf)!Loads(n)
        PROVE  \A m \in spent' : disk'[m] = Quota(cf)!None
    BY <1>4 DEF Quota!Loads, Quota!TypeOK, IssueFacts
  <1>5. CASE Quota(cf)!Prune
    BY QuotaNumbers, <1>5, PurgedRows DEF Quota!TypeOK, Quota!Prune, IssueFacts
  <1> QED
    BY <1>1, <1>2, <1>3, <1>4, <1>5
    DEF Quota!vars, Quota!Next, Quota!Reserve, Quota!StoreFails, Quota!Finalizes,
        Quota!Crash, Quota!Returns, Quota!ReadFails, Quota!Tick

LEMMA CancelledRow ==
  ASSUME NEW cf, Quota(cf)!TypeOK, NEW k \in Quota(cf)!Ids, Quota(cf)!Cancelled(k)
  PROVE  rows'[k] = Quota(cf)!None \/ (cf.Faults /\ rows'[k] = rows[k])
  <1>1. CASE rows' = [rows EXCEPT ![k] = Quota(cf)!None] BY <1>1 DEF Quota!TypeOK
  <1>2. CASE cf.Faults /\ UNCHANGED rows
    BY <1>2
  <1> QED BY <1>1, <1>2 DEF Quota!Cancelled

LEMMA DisksKept ==
  ASSUME NEW cf,
         Quota(cf)!Shape, Quota(cf)!TypeOK, UploadFacts(cf), IssueFacts(cf), DiskFacts(cf),
         [Quota(cf)!Next]_(Quota(cf)!vars)
  PROVE  \A m \in Quota(cf)!Ids : DiskFact(cf, m)'
  <1>1. CASE UNCHANGED <<now, rows, disk>>
    BY <1>1 DEF DiskFacts, DiskFact
  <1>2. ASSUME NEW w \in cf.Uploaders, NEW p \in cf.Principals, NEW size \in cf.Sizes, Quota(cf)!Reserve(w, p, size)
        PROVE  \A m \in Quota(cf)!Ids : DiskFact(cf, m)'
    <2> TAKE m \in Quota(cf)!Ids
    <2>1. issued + 1 \in Quota(cf)!Ids /\ issued \in Nat /\ now \in Nat
      BY <1>2, QuotaNumbers DEF Quota!Reserve, Quota!TypeOK, Quota!Ids
    <2>2. CASE m = issued + 1
      BY <1>2, <2>1, <2>2, PurgedRows DEF Quota!Reserve, IssueFacts, Quota!TypeOK, Quota!OpenUntil,
         DiskFact
    <2>3. CASE m # issued + 1
      BY <1>2, <2>1, <2>3, PurgedRows, RowFields DEF Quota!Reserve, Quota!TypeOK, DiskFacts, DiskFact
    <2> QED BY <2>2, <2>3
  <1>3. ASSUME NEW w \in cf.Uploaders, Quota(cf)!Stores(w)
        PROVE  \A m \in Quota(cf)!Ids : DiskFact(cf, m)'
    <2> TAKE m \in Quota(cf)!Ids
    <2> DEFINE k == up[w].n
    <2>1. k \in Quota(cf)!Ids /\ rows[k] \in Quota(cf)!Row \cup {Quota(cf)!None} /\ disk[k] \in Quota(cf)!Row \cup {Quota(cf)!None}
      BY <1>3, UploadIs DEF Quota!Stores, Quota!Idle
    <2>2. CASE m # k BY <1>3, <2>1, <2>2 DEF Quota!Stores, Quota!Cancelled, Quota!Released, Quota!TypeOK, DiskFacts, DiskFact
    <2>3. CASE m = k
      BY <1>3, <2>1, RowFields, QuotaNumbers, <2>3 DEF Quota!Stores, Quota!TypeOK, UploadFacts,
         UploadFact, DiskFact
    <2> QED BY <2>2, <2>3
  <1>4. ASSUME NEW w \in cf.Uploaders, Quota(cf)!StoreFails(w)
        PROVE  \A m \in Quota(cf)!Ids : DiskFact(cf, m)'
    <2> TAKE m \in Quota(cf)!Ids
    <2> DEFINE k == up[w].n
    <2>1. k \in Quota(cf)!Ids /\ rows[k] \in Quota(cf)!Row \cup {Quota(cf)!None} /\ disk[k] \in Quota(cf)!Row \cup {Quota(cf)!None}
      BY <1>4, UploadIs DEF Quota!StoreFails, Quota!Idle
    <2>2. CASE m # k BY <1>4, <2>1, <2>2 DEF Quota!StoreFails, Quota!Cancelled, Quota!Released, Quota!TypeOK, DiskFacts, DiskFact
    <2>3. CASE m = k
      BY <1>4, <2>1, CancelledRow, <2>3 DEF Quota!StoreFails, UploadFacts, UploadFact, DiskFact
    <2> QED BY <2>2, <2>3
  <1>5. ASSUME NEW w \in cf.Uploaders, Quota(cf)!Finalizes(w)
        PROVE  \A m \in Quota(cf)!Ids : DiskFact(cf, m)'
    <2> TAKE m \in Quota(cf)!Ids
    <2> DEFINE k == up[w].n
    <2>1. k \in Quota(cf)!Ids /\ rows[k] \in Quota(cf)!Row \cup {Quota(cf)!None} /\ disk[k] \in Quota(cf)!Row \cup {Quota(cf)!None}
      BY <1>5, UploadIs DEF Quota!Finalizes, Quota!Idle
    <2>2. CASE m # k BY <1>5, <2>1, <2>2 DEF Quota!Finalizes, Quota!Cancelled, Quota!Released, Quota!TypeOK, DiskFacts, DiskFact
    <2>3. CASE m = k
      <3>1. rows[k] \in Quota(cf)!Row /\ disk' = disk /\ now' = now
        BY <1>5, <2>1 DEF Quota!Finalizes, Quota!Open
      <3>2. rows'[k] = [rows[k] EXCEPT !.exp = disk[k].exp, !.final = TRUE]
        BY <1>5, <2>1 DEF Quota!Finalizes, Quota!TypeOK
      <3>3. /\ rows'[k].exp = disk[k].exp /\ rows'[k].size = rows[k].size
            /\ rows'[k].by = rows[k].by /\ rows'[k].final
        BY <3>1, <3>2 DEF Quota!Row
      <3>4. rows'[k] # Quota(cf)!None BY <3>3 DEF Quota!None
      <3>5. disk[k].exp \in Nat /\ now \in Nat BY <2>1, RowFields, QuotaNumbers DEF Quota!TypeOK
      <3>6. disk[k] = Quota(cf)!None => disk[k].exp = 0 BY DEF Quota!None
      <3> QED BY <2>3, <3>1, <3>3, <3>4, <3>5, <3>6 DEF DiskFacts, DiskFact
    <2> QED BY <2>2, <2>3
  <1>6. ASSUME NEW w \in cf.Uploaders, Quota(cf)!FinalizeFails(w)
        PROVE  \A m \in Quota(cf)!Ids : DiskFact(cf, m)'
    <2> TAKE m \in Quota(cf)!Ids
    <2> DEFINE k == up[w].n
    <2>1. k \in Quota(cf)!Ids /\ rows[k] \in Quota(cf)!Row \cup {Quota(cf)!None} /\ disk[k] \in Quota(cf)!Row \cup {Quota(cf)!None}
      BY <1>6, UploadIs DEF Quota!FinalizeFails, Quota!Idle
    <2>2. CASE m # k BY <1>6, <2>1, <2>2 DEF Quota!FinalizeFails, Quota!Cancelled, Quota!Released, Quota!TypeOK, DiskFacts, DiskFact
    <2>3. CASE m = k
      BY <1>6, <2>1, CancelledRow, <2>3 DEF Quota!FinalizeFails, Quota!TypeOK, DiskFact
    <2> QED BY <2>2, <2>3
  <1>7. ASSUME NEW n \in Quota(cf)!Ids, Quota(cf)!Loads(n)
        PROVE  \A m \in Quota(cf)!Ids : DiskFact(cf, m)'
    <2> TAKE m \in Quota(cf)!Ids
    <2> DEFINE k == n
    <2>1. k \in Quota(cf)!Ids OBVIOUS
    <2>2. CASE m # k BY <1>7, <2>1, <2>2 DEF Quota!Loads, Quota!Cancelled, Quota!Released, Quota!TypeOK, DiskFacts, DiskFact
    <2>3. CASE m = k
      <3> QED BY <1>7, <2>3 DEF Quota!Loads, Quota!TypeOK, DiskFacts, DiskFact
    <2> QED BY <2>2, <2>3
  <1>8. ASSUME NEW n \in Quota(cf)!Ids, Quota(cf)!Returns(n)
        PROVE  \A m \in Quota(cf)!Ids : DiskFact(cf, m)'
    <2> TAKE m \in Quota(cf)!Ids
    <2> DEFINE k == n
    <2>1. k \in Quota(cf)!Ids OBVIOUS
    <2>2. CASE m # k BY <1>8, <2>1, <2>2 DEF Quota!Returns, Quota!Cancelled, Quota!Released, Quota!TypeOK, DiskFacts, DiskFact
    <2>3. CASE m = k
      BY <1>8, <2>3 DEF Quota!Returns, Quota!TypeOK, IssueFacts, Quota!Released, DiskFact
    <2> QED BY <2>2, <2>3
  <1>9. CASE Quota(cf)!Prune
    <2> TAKE m \in Quota(cf)!Ids
    <2>1. now \in Nat /\ disk[m].exp \in Nat /\ rows[m].exp \in Nat
      BY QuotaNumbers, RowFields DEF Quota!TypeOK
    <2>2. /\ rows'[m] = IF rows[m] # Quota(cf)!None /\ rows[m].exp > now THEN rows[m] ELSE Quota(cf)!None
          /\ disk'[m] = IF disk[m] # Quota(cf)!None /\ disk[m].exp > now THEN disk[m] ELSE Quota(cf)!None
      BY <1>9, <2>1, PurgedRows DEF Quota!Prune, Quota!TypeOK
    <2>3. now' = now /\ reading' = reading BY <1>9 DEF Quota!Prune
    <2> QED BY <2>1, <2>2, <2>3 DEF DiskFacts, DiskFact
  <1>10. CASE Quota(cf)!Tick
    <2> TAKE m \in Quota(cf)!Ids
    <2>1. now \in Nat /\ disk[m].exp \in Nat /\ rows[m].exp \in Nat
      BY QuotaNumbers, RowFields DEF Quota!TypeOK
    <2> QED BY <1>10, <2>1 DEF Quota!Tick, DiskFacts, DiskFact
  <1> QED
    BY <1>1, <1>2, <1>3, <1>4, <1>5, <1>6, <1>7, <1>8, <1>9, <1>10
    DEF Quota!vars, Quota!Next, Quota!Crash, Quota!ReadFails

LEMMA FinalsKept ==
  ASSUME NEW cf,
         Quota(cf)!Shape, Quota(cf)!TypeOK, UploadFacts(cf), IssueFacts(cf), DiskFacts(cf), FinalFacts(cf),
         [Quota(cf)!Next]_(Quota(cf)!vars)
  PROVE  \A m \in Quota(cf)!Ids : FinalFact(cf, m)'
  <1>1. CASE UNCHANGED <<now, rows, disk, reading>>
    BY <1>1 DEF FinalFacts, FinalFact
  <1>2. ASSUME NEW w \in cf.Uploaders, NEW p \in cf.Principals, NEW size \in cf.Sizes, Quota(cf)!Reserve(w, p, size)
        PROVE  \A m \in Quota(cf)!Ids : FinalFact(cf, m)'
    <2> TAKE m \in Quota(cf)!Ids
    <2>1. issued + 1 \in Quota(cf)!Ids /\ issued \in Nat /\ now \in Nat
      BY <1>2, QuotaNumbers DEF Quota!Reserve, Quota!TypeOK, Quota!Ids
    <2>2. CASE m = issued + 1
      BY <1>2, <2>1, <2>2, PurgedRows DEF Quota!Reserve, IssueFacts, Quota!TypeOK, Quota!OpenUntil,
         FinalFact
    <2>3. CASE m # issued + 1
      BY <1>2, <2>1, <2>3, PurgedRows, RowFields DEF Quota!Reserve, Quota!TypeOK, FinalFacts, FinalFact
    <2> QED BY <2>2, <2>3
  <1>3. ASSUME NEW w \in cf.Uploaders, Quota(cf)!Stores(w)
        PROVE  \A m \in Quota(cf)!Ids : FinalFact(cf, m)'
    <2> TAKE m \in Quota(cf)!Ids
    <2> DEFINE k == up[w].n
    <2>1. k \in Quota(cf)!Ids /\ rows[k] \in Quota(cf)!Row \cup {Quota(cf)!None} /\ disk[k] \in Quota(cf)!Row \cup {Quota(cf)!None}
      BY <1>3, UploadIs DEF Quota!Stores, Quota!Idle
    <2>2. CASE m # k BY <1>3, <2>1, <2>2 DEF Quota!Stores, Quota!Cancelled, Quota!Released, Quota!TypeOK, FinalFacts, FinalFact
    <2>3. CASE m = k
      BY <1>3, <2>1, RowFields, QuotaNumbers, <2>3 DEF Quota!Stores, Quota!TypeOK, UploadFacts,
         UploadFact, FinalFact
    <2> QED BY <2>2, <2>3
  <1>4. ASSUME NEW w \in cf.Uploaders, Quota(cf)!StoreFails(w)
        PROVE  \A m \in Quota(cf)!Ids : FinalFact(cf, m)'
    <2> TAKE m \in Quota(cf)!Ids
    <2> DEFINE k == up[w].n
    <2>1. k \in Quota(cf)!Ids /\ rows[k] \in Quota(cf)!Row \cup {Quota(cf)!None} /\ disk[k] \in Quota(cf)!Row \cup {Quota(cf)!None}
      BY <1>4, UploadIs DEF Quota!StoreFails, Quota!Idle
    <2>2. CASE m # k BY <1>4, <2>1, <2>2 DEF Quota!StoreFails, Quota!Cancelled, Quota!Released, Quota!TypeOK, FinalFacts, FinalFact
    <2>3. CASE m = k
      BY <1>4, <2>1, CancelledRow, <2>3 DEF Quota!StoreFails, UploadFacts, UploadFact, FinalFact
    <2> QED BY <2>2, <2>3
  <1>5. ASSUME NEW w \in cf.Uploaders, Quota(cf)!Finalizes(w)
        PROVE  \A m \in Quota(cf)!Ids : FinalFact(cf, m)'
    <2> TAKE m \in Quota(cf)!Ids
    <2> DEFINE k == up[w].n
    <2>1. k \in Quota(cf)!Ids /\ rows[k] \in Quota(cf)!Row \cup {Quota(cf)!None} /\ disk[k] \in Quota(cf)!Row \cup {Quota(cf)!None}
      BY <1>5, UploadIs DEF Quota!Finalizes, Quota!Idle
    <2>2. CASE m # k BY <1>5, <2>1, <2>2 DEF Quota!Finalizes, Quota!Cancelled, Quota!Released, Quota!TypeOK, FinalFacts, FinalFact
    <2>3. CASE m = k
      BY <1>5, <2>1, RowFields, QuotaNumbers, <2>3 DEF Quota!Finalizes, Quota!Open, Quota!TypeOK,
         Quota!Row, Quota!None, FinalFacts, FinalFact
    <2> QED BY <2>2, <2>3
  <1>6. ASSUME NEW w \in cf.Uploaders, Quota(cf)!FinalizeFails(w)
        PROVE  \A m \in Quota(cf)!Ids : FinalFact(cf, m)'
    <2> TAKE m \in Quota(cf)!Ids
    <2> DEFINE k == up[w].n
    <2>1. k \in Quota(cf)!Ids /\ rows[k] \in Quota(cf)!Row \cup {Quota(cf)!None} /\ disk[k] \in Quota(cf)!Row \cup {Quota(cf)!None}
      BY <1>6, UploadIs DEF Quota!FinalizeFails, Quota!Idle
    <2>2. CASE m # k BY <1>6, <2>1, <2>2 DEF Quota!FinalizeFails, Quota!Cancelled, Quota!Released, Quota!TypeOK, FinalFacts, FinalFact
    <2>3. CASE m = k
      BY <1>6, <2>1, CancelledRow, <2>3 DEF Quota!FinalizeFails, Quota!TypeOK, FinalFact
    <2> QED BY <2>2, <2>3
  <1>7. ASSUME NEW n \in Quota(cf)!Ids, Quota(cf)!Loads(n)
        PROVE  \A m \in Quota(cf)!Ids : FinalFact(cf, m)'
    <2> TAKE m \in Quota(cf)!Ids
    <2> DEFINE k == n
    <2>1. k \in Quota(cf)!Ids OBVIOUS
    <2>2. CASE m # k BY <1>7, <2>1, <2>2 DEF Quota!Loads, Quota!Cancelled, Quota!Released, Quota!TypeOK, FinalFacts, FinalFact
    <2>3. CASE m = k
      <3> QED BY <1>7, <2>3 DEF Quota!Loads, Quota!TypeOK, FinalFacts, FinalFact
    <2> QED BY <2>2, <2>3
  <1>8. ASSUME NEW n \in Quota(cf)!Ids, Quota(cf)!Returns(n)
        PROVE  \A m \in Quota(cf)!Ids : FinalFact(cf, m)'
    <2> TAKE m \in Quota(cf)!Ids
    <2> DEFINE k == n
    <2>1. k \in Quota(cf)!Ids OBVIOUS
    <2>2. CASE m # k BY <1>8, <2>1, <2>2 DEF Quota!Returns, Quota!Cancelled, Quota!Released, Quota!TypeOK, FinalFacts, FinalFact
    <2>3. CASE m = k
      BY <1>8, <2>3 DEF Quota!Returns, Quota!TypeOK, IssueFacts, Quota!Released, FinalFact
    <2> QED BY <2>2, <2>3
  <1>9. ASSUME NEW n \in Quota(cf)!Ids, Quota(cf)!ReadFails(n)
        PROVE  \A m \in Quota(cf)!Ids : FinalFact(cf, m)'
    BY <1>9 DEF Quota!ReadFails, FinalFacts, FinalFact
  <1>10. CASE Quota(cf)!Prune
    <2> TAKE m \in Quota(cf)!Ids
    <2>1. now \in Nat /\ disk[m].exp \in Nat /\ rows[m].exp \in Nat
      BY QuotaNumbers, RowFields DEF Quota!TypeOK
    <2>2. /\ rows'[m] = IF rows[m] # Quota(cf)!None /\ rows[m].exp > now THEN rows[m] ELSE Quota(cf)!None
          /\ disk'[m] = IF disk[m] # Quota(cf)!None /\ disk[m].exp > now THEN disk[m] ELSE Quota(cf)!None
      BY <1>10, <2>1, PurgedRows DEF Quota!Prune, Quota!TypeOK
    <2>3. now' = now /\ reading' = reading BY <1>10 DEF Quota!Prune
    <2> QED BY <2>1, <2>2, <2>3 DEF FinalFacts, FinalFact
  <1>11. CASE Quota(cf)!Tick
    <2> TAKE m \in Quota(cf)!Ids
    <2>1. now \in Nat /\ disk[m].exp \in Nat /\ rows[m].exp \in Nat
      BY QuotaNumbers, RowFields DEF Quota!TypeOK
    <2> QED BY <1>11, <2>1 DEF Quota!Tick, FinalFacts, FinalFact
  <1> QED
    BY <1>1, <1>2, <1>3, <1>4, <1>5, <1>6, <1>7, <1>8, <1>9, <1>10, <1>11
    DEF Quota!vars, Quota!Next, Quota!Crash

LEMMA IdsFinite == ASSUME NEW cf, Quota(cf)!Shape PROVE IsFiniteSet(Quota(cf)!Ids)
  <1>1. cf.MaxStores \in Nat BY QuotaNumbers
  <1> QED BY <1>1, FS_Interval DEF Quota!Ids

\* A table whose rows are among those of another is within the same limits.
LEMMA FewerBytes ==
  ASSUME NEW cf,
         Quota(cf)!Shape, NEW t \in [Quota(cf)!Ids -> Quota(cf)!Row \cup {Quota(cf)!None}],
         NEW u \in [Quota(cf)!Ids -> Quota(cf)!Row \cup {Quota(cf)!None}],
         NEW A \in SUBSET Quota(cf)!Ids, NEW B \in SUBSET Quota(cf)!Ids,
         \A n \in A : n \in B /\ t[n].size = u[n].size
  PROVE  /\ Quota(cf)!Bytes(t, A) <= Quota(cf)!Bytes(u, B)
         /\ Quota(cf)!Bytes(t, A) \in Nat /\ Quota(cf)!Bytes(u, B) \in Nat
  <1>1. IsFiniteSet(Quota(cf)!Ids) /\ IsFiniteSet(A) /\ IsFiniteSet(B) BY IdsFinite, FS_Subset
  <1>2. /\ Sized(t, Quota(cf)!Ids) /\ Sized(u, Quota(cf)!Ids) /\ Sized(t, A) /\ Sized(u, B)
    BY RowFields DEF Sized
  <1>3. \A n \in A : t[n].size <= u[n].size BY RowFields
  <1> QED BY <1>1, <1>2, <1>3, BytesMonotone, BytesTyped, BytesTotal

LEMMA RowsShrink ==
  ASSUME NEW cf, Quota(cf)!Shape, Quota(cf)!TypeOK, RowsWithin(cf),
         rows' \in [Quota(cf)!Ids -> Quota(cf)!Row \cup {Quota(cf)!None}],
         \A n \in Quota(cf)!Ids : rows'[n] # Quota(cf)!None =>
             rows[n] # Quota(cf)!None /\ rows'[n].size = rows[n].size /\ rows'[n].by = rows[n].by
  PROVE  RowsWithin(cf)'
  <1> DEFINE A == Quota(cf)!Held(rows')
             B == Quota(cf)!Held(rows)
             a(p) == {n \in A : rows'[n].by = p}
  <1>1. /\ A \in SUBSET Quota(cf)!Ids /\ B \in SUBSET Quota(cf)!Ids
        /\ \A n \in A : n \in B /\ rows'[n].size = rows[n].size
    BY DEF Quota!Held
  <1>2. ASSUME NEW p \in cf.Principals
        PROVE  /\ a(p) \in SUBSET Quota(cf)!Ids /\ Mine(cf, p) \in SUBSET Quota(cf)!Ids
               /\ \A n \in a(p) : n \in Mine(cf, p) /\ rows'[n].size = rows[n].size
    BY <1>2 DEF Quota!Held, Mine
  <1>3. rows \in [Quota(cf)!Ids -> Quota(cf)!Row \cup {Quota(cf)!None}] BY DEF Quota!TypeOK
  <1>4. /\ cf.GlobalLimit \in Nat /\ cf.PrincipalLimit \in Nat BY QuotaNumbers
  <1>5. Quota(cf)!Bytes(rows', A) <= cf.GlobalLimit
    <2>1. Quota(cf)!Bytes(rows, B) <= cf.GlobalLimit BY DEF RowsWithin
    <2> HIDE DEF A, B
    <2> QED BY <2>1, <1>1, <1>3, <1>4, FewerBytes
  <1>6. ASSUME NEW p \in cf.Principals PROVE Quota(cf)!Bytes(rows', a(p)) <= cf.PrincipalLimit
    <2>1. Quota(cf)!Bytes(rows, Mine(cf, p)) <= cf.PrincipalLimit BY DEF RowsWithin
    <2> HIDE DEF a
    <2> QED BY <2>1, <1>2, <1>3, <1>4, FewerBytes
  <1> QED BY <1>5, <1>6 DEF RowsWithin, Mine

\* A row of a fresh id adds its size to what is left after the purge.
LEMMA OneMore ==
  ASSUME NEW cf,
         Quota(cf)!Shape, NEW t \in [Quota(cf)!Ids -> Quota(cf)!Row \cup {Quota(cf)!None}],
         NEW u \in [Quota(cf)!Ids -> Quota(cf)!Row \cup {Quota(cf)!None}], NEW k \in Quota(cf)!Ids,
         NEW A \in SUBSET Quota(cf)!Ids, k \in A, \A n \in A : n # k => u[n] = t[n],
         NEW B \in SUBSET Quota(cf)!Ids, B = A \ {k},
         NEW limit \in Nat, Quota(cf)!Bytes(t, B) + u[k].size <= limit
  PROVE  Quota(cf)!Bytes(u, A) <= limit
  <1>1. IsFiniteSet(A) /\ Sized(u, A) BY IdsFinite, FS_Subset, RowFields DEF Sized
  <1>2. Quota(cf)!Bytes(u, A) = u[k].size + Quota(cf)!Bytes(u, B) BY <1>1, BytesWithout, BytesTotal
  <1>3. /\ Quota(cf)!Bytes(u, B) <= Quota(cf)!Bytes(t, B)
        /\ Quota(cf)!Bytes(u, B) \in Nat /\ Quota(cf)!Bytes(t, B) \in Nat
    BY FewerBytes
  <1>4. u[k].size \in Nat BY RowFields
  <1> QED BY <1>2, <1>3, <1>4

LEMMA RowsWithinKept ==
  ASSUME NEW cf,
         Quota(cf)!Shape, Quota(cf)!TypeOK, UploadFacts(cf), IssueFacts(cf), RowsWithin(cf),
         [Quota(cf)!Next]_(Quota(cf)!vars)
  PROVE  RowsWithin(cf)'
  <1>1. CASE UNCHANGED rows
    BY <1>1 DEF RowsWithin, Mine, Quota!Held
  <1>2. ASSUME NEW w \in cf.Uploaders, NEW p \in cf.Principals, NEW size \in cf.Sizes, Quota(cf)!Reserve(w, p, size)
        PROVE  RowsWithin(cf)'
    <2> DEFINE k == issued + 1
               left == Quota(cf)!Purged(rows)
               A == Quota(cf)!Held(rows')
               B == Quota(cf)!Held(left)
               a(q) == {n \in A : rows'[n].by = q}
               b(q) == {n \in B : left[n].by = q}
    <2>1. k \in Quota(cf)!Ids /\ issued \in Nat /\ now \in Nat
      BY <1>2, QuotaNumbers DEF Quota!Reserve, Quota!TypeOK, Quota!Ids
    <2>2. /\ left \in [Quota(cf)!Ids -> Quota(cf)!Row \cup {Quota(cf)!None}]
          /\ \A n \in Quota(cf)!Ids : left[n] = rows[n] \/ left[n] = Quota(cf)!None
      BY <2>1, PurgedRows DEF Quota!TypeOK
    <2>3. rows[k] = Quota(cf)!None BY <2>1 DEF IssueFacts
    <2>4. left[k] = Quota(cf)!None BY <2>1, <2>2, <2>3
    <2>5. /\ rows'[k] = [by |-> p, size |-> size, exp |-> Quota(cf)!OpenUntil, final |-> FALSE]
          /\ \A n \in Quota(cf)!Ids : n # k => rows'[n] = left[n]
      BY <1>2, <2>1, <2>2 DEF Quota!Reserve
    <2>6. rows'[k].size = size /\ rows'[k].by = p /\ size # 0 /\ size \in Nat
      BY <1>2, <2>5, QuotaNumbers DEF Quota!Reserve, Quota!Accepted
    <2>7. rows'[k] # Quota(cf)!None BY <2>6 DEF Quota!None
    <2>8. rows' \in [Quota(cf)!Ids -> Quota(cf)!Row \cup {Quota(cf)!None}] BY QuotaTablesTyped
    <2>9. cf.GlobalLimit \in Nat /\ cf.PrincipalLimit \in Nat BY QuotaNumbers
    <2>10. A \in SUBSET Quota(cf)!Ids /\ B \in SUBSET Quota(cf)!Ids /\ k \in A /\ B = A \ {k}
      BY <2>1, <2>4, <2>5, <2>7 DEF Quota!Held
    <2>11. Quota(cf)!Bytes(left, B) + size <= cf.GlobalLimit BY <1>2 DEF Quota!Reserve, Quota!Fits
    <2>12. Quota(cf)!Bytes(left, b(p)) + size <= cf.PrincipalLimit BY <1>2 DEF Quota!Reserve, Quota!Fits
    <2> HIDE DEF left
    <2>13. Quota(cf)!Bytes(rows', A) <= cf.GlobalLimit
      <3> HIDE DEF A, B, k
      <3> QED BY <2>1, <2>2, <2>5, <2>6, <2>8, <2>9, <2>10, <2>11, OneMore
    <2>14. Quota(cf)!Bytes(rows', a(p)) <= cf.PrincipalLimit
      <3>1. /\ a(p) \in SUBSET Quota(cf)!Ids /\ b(p) \in SUBSET Quota(cf)!Ids
            /\ k \in a(p) /\ b(p) = a(p) \ {k}
        <4> HIDE DEF A, B, k
        <4> QED BY <2>5, <2>6, <2>10
      <3> HIDE DEF a, b, k
      <3> QED BY <3>1, <2>1, <2>2, <2>5, <2>6, <2>8, <2>9, <2>12, OneMore
    <2>15. ASSUME NEW q \in cf.Principals, q # p PROVE Quota(cf)!Bytes(rows', a(q)) <= cf.PrincipalLimit
      <3>1. /\ a(q) \in SUBSET Quota(cf)!Ids /\ Mine(cf, q) \in SUBSET Quota(cf)!Ids
            /\ \A n \in a(q) : n \in Mine(cf, q) /\ rows'[n].size = rows[n].size
        BY <2>6, <2>10, <2>15, <2>2, <2>5 DEF Quota!Held, Mine
      <3>2. Quota(cf)!Bytes(rows, Mine(cf, q)) <= cf.PrincipalLimit BY <2>15 DEF RowsWithin
      <3>3. rows \in [Quota(cf)!Ids -> Quota(cf)!Row \cup {Quota(cf)!None}] BY DEF Quota!TypeOK
      <3> HIDE DEF a
      <3> QED BY <3>1, <3>2, <3>3, <2>8, <2>9, FewerBytes
    <2> QED BY <2>13, <2>14, <2>15 DEF RowsWithin, Mine
  <1>3. ASSUME NEW w \in cf.Uploaders, Quota(cf)!StoreFails(w)
        PROVE  RowsWithin(cf)'
    <2>1. rows' \in [Quota(cf)!Ids -> Quota(cf)!Row \cup {Quota(cf)!None}] BY QuotaTablesTyped
    <2>2. \A m \in Quota(cf)!Ids : rows'[m] # Quota(cf)!None =>
              rows[m] # Quota(cf)!None /\ rows'[m].size = rows[m].size /\ rows'[m].by = rows[m].by
      BY <1>3, UploadIs DEF Quota!StoreFails, Quota!Idle, Quota!Cancelled, Quota!TypeOK
    <2> QED BY <2>1, <2>2, RowsShrink
  <1>4. ASSUME NEW w \in cf.Uploaders, Quota(cf)!Finalizes(w)
        PROVE  RowsWithin(cf)'
    <2>1. rows' \in [Quota(cf)!Ids -> Quota(cf)!Row \cup {Quota(cf)!None}] BY QuotaTablesTyped
    <2>2. \A m \in Quota(cf)!Ids : rows'[m] # Quota(cf)!None =>
              rows[m] # Quota(cf)!None /\ rows'[m].size = rows[m].size /\ rows'[m].by = rows[m].by
      <3> DEFINE k == up[w].n
      <3>1. k \in Quota(cf)!Ids /\ rows[k] \in Quota(cf)!Row /\ rows[k] # Quota(cf)!None
        BY <1>4, UploadIs DEF Quota!Finalizes, Quota!Open
      <3>2. rows' = [rows EXCEPT ![k] = [rows[k] EXCEPT !.exp = disk[k].exp, !.final = TRUE]]
        BY <1>4 DEF Quota!Finalizes
      <3>3. rows'[k] = [rows[k] EXCEPT !.exp = disk[k].exp, !.final = TRUE]
        BY <3>1, <3>2 DEF Quota!TypeOK
      <3>4. rows'[k].size = rows[k].size /\ rows'[k].by = rows[k].by
        BY <3>1, <3>3 DEF Quota!Row
      <3>5. \A m \in Quota(cf)!Ids : m # k => rows'[m] = rows[m] BY <3>2 DEF Quota!TypeOK
      <3> QED BY <3>1, <3>4, <3>5
    <2> QED BY <2>1, <2>2, RowsShrink
  <1>5. ASSUME NEW w \in cf.Uploaders, Quota(cf)!FinalizeFails(w)
        PROVE  RowsWithin(cf)'
    <2>1. rows' \in [Quota(cf)!Ids -> Quota(cf)!Row \cup {Quota(cf)!None}] BY QuotaTablesTyped
    <2>2. \A m \in Quota(cf)!Ids : rows'[m] # Quota(cf)!None =>
              rows[m] # Quota(cf)!None /\ rows'[m].size = rows[m].size /\ rows'[m].by = rows[m].by
      BY <1>5, UploadIs DEF Quota!FinalizeFails, Quota!Idle, Quota!Cancelled, Quota!TypeOK
    <2> QED BY <2>1, <2>2, RowsShrink
  <1>6. ASSUME NEW n \in Quota(cf)!Ids, Quota(cf)!Returns(n)
        PROVE  RowsWithin(cf)'
    BY QuotaTablesTyped, <1>6, RowsShrink DEF Quota!Returns, Quota!Released, Quota!TypeOK
  <1>7. CASE Quota(cf)!Prune
    <2>1. rows' \in [Quota(cf)!Ids -> Quota(cf)!Row \cup {Quota(cf)!None}] BY QuotaTablesTyped
    <2>2. \A m \in Quota(cf)!Ids : rows'[m] # Quota(cf)!None =>
              rows[m] # Quota(cf)!None /\ rows'[m].size = rows[m].size /\ rows'[m].by = rows[m].by
      BY QuotaNumbers, <1>7, PurgedRows DEF Quota!TypeOK, Quota!Prune
    <2> QED BY <2>1, <2>2, RowsShrink
  <1> QED
    BY <1>1, <1>2, <1>3, <1>4, <1>5, <1>6, <1>7
    DEF Quota!vars, Quota!Next, Quota!Stores, Quota!Crash, Quota!Loads, Quota!ReadFails,
        Quota!Tick

LEMMA QuotaStarts == ASSUME NEW cf, Quota(cf)!Shape, Quota(cf)!Init PROVE QuotaInv(cf)
  <1>1. Quota(cf)!TypeOK BY QuotaNumbers DEF Quota!Init, Quota!TypeOK, Quota!Ids, Quota!Idle
  <1>2. \A n \in Quota(cf)!Ids : rows[n] = Quota(cf)!None /\ disk[n] = Quota(cf)!None BY DEF Quota!Init
  <1>3. UploadFacts(cf) BY DEF Quota!Init, UploadFacts, UploadFact, Quota!Idle
  <1>4. IssueFacts(cf) BY <1>2 DEF Quota!Init, IssueFacts
  <1>5. DiskFacts(cf) /\ FinalFacts(cf) BY <1>2 DEF DiskFacts, DiskFact, FinalFacts, FinalFact
  <1>6. RowsWithin(cf)
    <2>1. Quota(cf)!Held(rows) = {} /\ \A p \in cf.Principals : Mine(cf, p) = {} BY <1>2 DEF Quota!Held, Mine
    <2>2. cf.GlobalLimit \in Nat /\ cf.PrincipalLimit \in Nat BY QuotaNumbers
    <2>3. \A table : Quota(cf)!Bytes(table, {}) = 0
      <3> TAKE table
      <3>1. Total(table, {}) = 0 BY BytesNone
      <3> QED BY <3>1, BytesTotal
    <2> QED BY <2>1, <2>2, <2>3 DEF RowsWithin
  <1> QED BY <1>1, <1>3, <1>4, <1>5, <1>6 DEF QuotaInv

LEMMA QuotaKept ==
  ASSUME NEW cf, Quota(cf)!Shape, QuotaInv(cf), [Quota(cf)!Next]_(Quota(cf)!vars)
  PROVE  QuotaInv(cf)'
  BY QuotaTablesTyped, UploadsTyped, SetsTyped, UploadsKept, IssuesKept, SpentKept, DisksKept,
     FinalsKept, RowsWithinKept DEF QuotaInv, Quota!TypeOK, Quota!Ids, Quota!Row, UploadFacts,
     IssueFacts, DiskFacts, FinalFacts

LEMMA ChargesFollow == ASSUME NEW cf, Quota(cf)!Shape, QuotaInv(cf) PROVE Quota(cf)!ArtifactsCharged
  <1>1. /\ Quota(cf)!TypeOK /\ DiskFacts(cf) /\ FinalFacts(cf) /\ RowsWithin(cf) BY DEF QuotaInv
  <1>2. now \in Nat /\ cf.GlobalLimit \in Nat /\ cf.PrincipalLimit \in Nat
    BY <1>1, QuotaNumbers DEF Quota!TypeOK
  <1>3. /\ rows \in [Quota(cf)!Ids -> Quota(cf)!Row \cup {Quota(cf)!None}]
        /\ disk \in [Quota(cf)!Ids -> Quota(cf)!Row \cup {Quota(cf)!None}]
    BY <1>1 DEF Quota!TypeOK
  <1>4. ASSUME NEW n \in Quota(cf)!LiveIn(disk)
        PROVE  /\ n \in Quota(cf)!LiveIn(rows) /\ rows[n].size = disk[n].size
               /\ rows[n].by = disk[n].by
    BY <1>1, <1>3, RowFields, <1>2 DEF Quota!LiveIn, Quota!Held, DiskFacts, DiskFact
  <1>5. Quota(cf)!LiveIsReserved BY <1>4 DEF Quota!LiveIsReserved
  <1> DEFINE L == Quota(cf)!LiveIn(disk)
             l(p) == {n \in L : disk[n].by = p}
             H == Quota(cf)!Held(rows)
  <1>6. /\ L \in SUBSET Quota(cf)!Ids /\ H \in SUBSET Quota(cf)!Ids
        /\ \A n \in L : n \in H /\ disk[n].size = rows[n].size /\ rows[n].by = disk[n].by
    BY <1>4 DEF Quota!LiveIn, Quota!Held
  <1>7. Quota(cf)!Bytes(disk, L) <= cf.GlobalLimit
    <2>1. Quota(cf)!Bytes(rows, H) <= cf.GlobalLimit BY <1>1 DEF RowsWithin
    <2> HIDE DEF L, H
    <2> QED BY <2>1, <1>2, <1>3, <1>6, FewerBytes
  <1>8. ASSUME NEW p \in cf.Principals PROVE Quota(cf)!Bytes(disk, l(p)) <= cf.PrincipalLimit
    <2>1. /\ l(p) \in SUBSET Quota(cf)!Ids /\ Mine(cf, p) \in SUBSET Quota(cf)!Ids
          /\ \A n \in l(p) : n \in Mine(cf, p) /\ disk[n].size = rows[n].size
      BY <1>6 DEF Mine
    <2>2. Quota(cf)!Bytes(rows, Mine(cf, p)) <= cf.PrincipalLimit BY <1>1 DEF RowsWithin
    <2> HIDE DEF l
    <2> QED BY <2>1, <2>2, <1>2, <1>3, FewerBytes
  <1>9. Quota(cf)!WithinQuota BY <1>7, <1>8 DEF Quota!WithinQuota
  <1>10. ASSUME ~cf.Faults, NEW n \in Quota(cf)!LiveIn(rows), rows[n].final
         PROVE  n \in Quota(cf)!Held(disk) \cup reading
    BY <1>1, <1>10 DEF Quota!LiveIn, Quota!Held, FinalFacts, FinalFact
  <1>11. ~cf.Faults => Quota(cf)!NoLeak BY <1>10 DEF Quota!NoLeak
  <1> QED BY <1>5, <1>9, <1>11 DEF Quota!ArtifactsCharged

-----------------------------------------------------------------------------
(* Activity.                                                               *)

Unended(x) == core[x].state \in {"queued", "opening", "running"}

\* What the registry knows of a turn, whether or not its hooks were out.
TurnFact(cf, x) ==
    /\ core[x].state = "none" => ~entry[x].kept /\ entry[x].sessions = {} /\ x \notin seen
    /\ entry[x].kept => core[x].first \in entry[x].sessions
    /\ core[x].state \in {"queued", "opening"} => core[x].sid = core[x].first
    /\ x \in cf.Runs /\ x \in seen /\ Unended(x) => entry[x].kept
    /\ x \in cf.Runs => core[x].state # "opening"
    /\ x \in cf.Chats => core[x].state \notin {"queued", "lost"}
    /\ x \in cf.Chats /\ core[x].wrapped /\ Unended(x) => entry[x].kept
TurnFacts(cf) == \A x \in Registry(cf)!Turns : TurnFact(cf, x)

\* What it knows while its hooks were never out: a turn with an entry that was
\* closed is over and remembered, and an entry that is open is of a live turn.
Remembers(cf, x) ==
    /\ ~Unended(x) /\ core[x].state # "none"
    /\ core[x].state \in Registry(cf)!Ends => entry[x].status = core[x].state
    /\ core[x].state = "lost" => entry[x].status = "unknown"
    /\ \A s \in entry[x].sessions :
          Len(recent[s]) < cf.RecentCap => x \in Registry(cf)!Range(recent[s])
HookedFact(cf, x) ==
    /\ ~entry[x].kept /\ entry[x].sessions # {} => Remembers(cf, x)
    /\ entry[x].kept /\ (x \in cf.Runs \/ ~cf.Drops) => Unended(x)
HookedFacts(cf) == cf.Reloads = 0 => \A x \in Registry(cf)!Turns : HookedFact(cf, x)

\* An unload is followed by a load at most.
LoadFacts(cf) == ~hooked => loads < cf.Reloads

ActivityInv(cf) == Registry(cf)!TypeOK /\ TurnFacts(cf) /\ HookedFacts(cf) /\ LoadFacts(cf)

\* The three things a step does to the entry of a turn.
Same == entry' = entry /\ recent' = recent
Opens(cf, x, s) ==
    /\ entry' \in [Registry(cf)!Turns -> Registry(cf)!Entry] /\ recent' = recent
    /\ entry'[x].kept /\ entry'[x].sessions = entry[x].sessions \cup {s}
    /\ \A y \in Registry(cf)!Turns : y # x => entry'[y] = entry[y]
Closes(cf, x, status) ==
    /\ entry' \in [Registry(cf)!Turns -> Registry(cf)!Entry]
    /\ entry[x].kept /\ ~entry'[x].kept /\ entry'[x].status = status
    /\ \A y \in Registry(cf)!Turns : y # x => entry'[y] = entry[y]
    /\ recent' \in [Registry(cf)!Sessions -> Seq(Registry(cf)!Turns)]
    /\ \A s \in Registry(cf)!Sessions :
          /\ Len(recent'[s]) <= cf.RecentCap
          /\ Len(recent'[s]) < cf.RecentCap =>
                /\ Len(recent[s]) < cf.RecentCap
                /\ Registry(cf)!Range(recent[s]) \subseteq Registry(cf)!Range(recent'[s])
                /\ s \in entry'[x].sessions => x \in Registry(cf)!Range(recent'[s])

LEMMA ActivityShape ==
  ASSUME NEW cf, Registry(cf)!Shape
  PROVE  /\ cf.Tip \in Nat /\ cf.Tip # 0 /\ cf.RecentCap \in Nat /\ cf.Reloads \in Nat
         /\ cf.Streams \subseteq cf.Runs /\ cf.Runs \cap cf.Chats = {}
         /\ cf.Faults \in BOOLEAN /\ cf.Drops \in BOOLEAN
  BY DEF Registry!Shape

\* The memory of a session takes a turn in front and drops what is too old.
LEMMA RememberedIs ==
  ASSUME NEW cf,
         Registry(cf)!Shape, Registry(cf)!TypeOK, NEW x \in Registry(cf)!Turns, NEW s \in Registry(cf)!Sessions
  PROVE  /\ Registry(cf)!Remembered(s, x) \in Seq(Registry(cf)!Turns)
         /\ Len(Registry(cf)!Remembered(s, x)) <= cf.RecentCap
         /\ Len(Registry(cf)!Remembered(s, x)) < cf.RecentCap =>
               /\ Len(recent[s]) < cf.RecentCap
               /\ Registry(cf)!Range(recent[s]) \cup {x}
                     \subseteq Registry(cf)!Range(Registry(cf)!Remembered(s, x))
  <1> DEFINE old == recent[s]
             long == <<x>> \o old
             size == IF Len(old) < cf.RecentCap THEN Len(old) + 1 ELSE cf.RecentCap
             new == SubSeq(long, 1, size)
  <1>1. old \in Seq(Registry(cf)!Turns) /\ Len(old) \in Nat /\ Len(old) <= cf.RecentCap
        /\ cf.RecentCap \in Nat
    BY ActivityShape DEF Registry!TypeOK
  <1>2. new = Registry(cf)!Remembered(s, x) BY DEF Registry!Remembered
  <1> HIDE DEF old
  <1>3. /\ long \in Seq(Registry(cf)!Turns) /\ Len(long) = Len(old) + 1
        /\ \A i \in 1..Len(old) : long[i + 1] = old[i]
        /\ long[1] = x
    BY <1>1
  <1>4. size \in Nat /\ size <= Len(long) /\ size <= cf.RecentCap BY <1>1, <1>3
  <1> HIDE DEF long, size
  <1>5. new \in Seq(Registry(cf)!Turns) /\ Len(new) = size /\ \A i \in 1..size : new[i] = long[i]
    BY <1>3, <1>4
  <1>6. ASSUME size < cf.RecentCap
        PROVE  /\ Len(old) < cf.RecentCap
               /\ Registry(cf)!Range(old) \cup {x} \subseteq Registry(cf)!Range(new)
    <2>1. Len(old) < cf.RecentCap /\ size = Len(old) + 1 BY <1>1, <1>6 DEF size
    <2> HIDE DEF new
    <2>2. ASSUME NEW v \in Registry(cf)!Range(old) PROVE v \in Registry(cf)!Range(new)
      <3>1. PICK i \in 1..Len(old) : old[i] = v BY <1>1 DEF Registry!Range
      <3>2. i + 1 \in 1..size /\ new[i + 1] = v BY <3>1, <2>1, <1>1, <1>3, <1>5
      <3> QED BY <3>2, <1>5 DEF Registry!Range
    <2>3. x \in Registry(cf)!Range(new)
      BY <2>1, <1>1, <1>5, <1>3 DEF Registry!Range
    <2> QED BY <2>1, <2>2, <2>3
  <1> HIDE DEF new
  <1> QED BY <1>2, <1>4, <1>5, <1>6 DEF old

LEMMA TrackedIs ==
  ASSUME NEW cf,
         Registry(cf)!TypeOK, NEW x \in Registry(cf)!Turns, NEW status \in {"queued", "running"},
         NEW s \in Registry(cf)!Sessions, entry' = Registry(cf)!Tracked(x, status, s), recent' = recent
  PROVE  Opens(cf, x, s)
  <1> DEFINE new == [kept |-> TRUE, status |-> status, sessions |-> entry[x].sessions \cup {s}]
  <1>1. entry' = [entry EXCEPT ![x] = new] BY DEF Registry!Tracked
  <1>2. new \in Registry(cf)!Entry BY DEF Registry!TypeOK, Registry!Entry
  <1>3. new.kept /\ new.sessions = entry[x].sessions \cup {s} OBVIOUS
  <1> HIDE DEF new
  <1> QED BY <1>1, <1>2, <1>3 DEF Opens, Registry!TypeOK

LEMMA FinishIs ==
  ASSUME NEW cf,
         Registry(cf)!Shape, Registry(cf)!TypeOK, NEW x \in Registry(cf)!Turns, entry[x].kept,
         NEW status \in Registry(cf)!Ends \cup {"unknown"}, NEW sessions \in SUBSET Registry(cf)!Sessions,
         Registry(cf)!Finish(x, status, sessions)
  PROVE  Closes(cf, x, status)
  <1> DEFINE new == [kept |-> FALSE, status |-> status, sessions |-> sessions]
  <1>1. entry' = [entry EXCEPT ![x] = new] BY DEF Registry!Finish
  <1>2. new \in Registry(cf)!Entry BY DEF Registry!Entry
  <1>3. ~new.kept /\ new.sessions = sessions /\ new.status = status OBVIOUS
  <1> HIDE DEF new
  <1>4. /\ entry' \in [Registry(cf)!Turns -> Registry(cf)!Entry]
        /\ ~entry'[x].kept /\ entry'[x].status = status /\ entry'[x].sessions = sessions
        /\ \A y \in Registry(cf)!Turns : y # x => entry'[y] = entry[y]
    BY <1>1, <1>2, <1>3 DEF Registry!TypeOK
  <1>5. recent' = [s \in Registry(cf)!Sessions |-> IF s \in sessions THEN Registry(cf)!Remembered(s, x)
                                               ELSE recent[s]]
    BY DEF Registry!Finish
  <1>6. ASSUME NEW s \in Registry(cf)!Sessions
        PROVE  /\ recent'[s] \in Seq(Registry(cf)!Turns) /\ Len(recent'[s]) <= cf.RecentCap
               /\ Len(recent'[s]) < cf.RecentCap =>
                     /\ Len(recent[s]) < cf.RecentCap
                     /\ Registry(cf)!Range(recent[s]) \subseteq Registry(cf)!Range(recent'[s])
                     /\ s \in entry'[x].sessions => x \in Registry(cf)!Range(recent'[s])
    <2>1. CASE s \in sessions
      BY <1>5, <2>1, RememberedIs
    <2>2. CASE s \notin sessions
      BY <1>5, <2>2, <1>4 DEF Registry!TypeOK
    <2> QED BY <2>1, <2>2
  <1> QED BY <1>4, <1>5, <1>6 DEF Closes

\* A status write of the gateway.
Hooked(cf, x, status, s) ==
    \/ ~hooked /\ Same /\ seen' = seen
    \/ hooked /\ Opens(cf, x, s) /\ seen' = seen \cup {x} /\ status \notin Registry(cf)!Ends
    \/ hooked /\ Closes(cf, x, status) /\ seen' = seen \cup {x} /\ status \in Registry(cf)!Ends
    \/ /\ hooked /\ Same /\ ~entry[x].kept /\ seen' = seen \cup {x}
       /\ status \in Registry(cf)!Ends

LEMMA HookIs ==
  ASSUME NEW cf, Registry(cf)!Shape, Registry(cf)!TypeOK, NEW x \in Registry(cf)!Turns,
         NEW status \in {"queued", "running"} \cup Registry(cf)!Ends, NEW s \in Registry(cf)!Sessions,
         Registry(cf)!StatusHook(x, status, s)
  PROVE  Hooked(cf, x, status, s)
  <1>1. CASE ~hooked BY <1>1 DEF Registry!StatusHook, Hooked, Same
  <1>2. CASE hooked /\ Registry(cf)!Terminal(status) /\ entry[x].kept
    BY <1>2, FinishIs DEF Registry!StatusHook, Registry!TypeOK, Registry!Entry, Registry!Terminal,
       Hooked
  <1>3. CASE hooked /\ Registry(cf)!Terminal(status) /\ ~entry[x].kept
    BY <1>3 DEF Registry!StatusHook, Hooked, Same, Registry!Terminal
  <1>4. CASE hooked /\ ~Registry(cf)!Terminal(status)
    BY <1>4, TrackedIs DEF Registry!StatusHook, Registry!Terminal, Hooked
  <1> QED BY <1>1, <1>2, <1>3, <1>4

\* An open entry is indexed under the session its agent is in.
Indexes(cf) ==
    /\ entry' \in [Registry(cf)!Turns -> Registry(cf)!Entry] /\ recent' = recent
    /\ \A x \in Registry(cf)!Turns :
          /\ entry'[x].kept = entry[x].kept /\ entry[x].sessions \subseteq entry'[x].sessions
          /\ ~entry[x].kept => entry'[x] = entry[x]

\* Whatever a step does to the registry is one of these.
RegistryStep(cf) == Same \/ Indexes(cf) \/ \E x \in Registry(cf)!Turns :
                   \/ \E s \in Registry(cf)!Sessions : Opens(cf, x, s)
                   \/ \E status \in Registry(cf)!Ends \cup {"unknown"} : Closes(cf, x, status)

LEMMA HookSteps ==
  ASSUME NEW cf, NEW x \in Registry(cf)!Turns, NEW s \in Registry(cf)!Sessions,
         NEW status \in {"queued", "running"} \cup Registry(cf)!Ends, Hooked(cf, x, status, s)
  PROVE  RegistryStep(cf)
  BY DEF Hooked, RegistryStep

LEMMA TakesIs ==
  ASSUME NEW cf, Registry(cf)!Shape, Registry(cf)!TypeOK, Registry(cf)!Takes
  PROVE  /\ Same \/ Indexes(cf)
         /\ snap' \in Registry(cf)!Snapshot
         /\ blind' \in {"none", "unit-unloaded", "unregistered-live-run", "fault", "handoff"}
  <1> DEFINE wanted == {snap.sid, snap.resolved}
             rotated == Registry(cf)!Rotated(wanted)
             listed == {x \in Registry(cf)!Turns : entry[x].kept /\ entry[x].sessions \cap wanted # {}}
                          \cup rotated
  <1>1. rotated \in SUBSET Registry(cf)!Turns /\ listed \in SUBSET Registry(cf)!Turns
        /\ \A x \in rotated : entry[x].kept
    BY DEF Registry!Rotated, Registry!Turns
  <1>2. CASE blind = "none" /\ Registry(cf)!Uncovered = {}
    <2>1. /\ snap' = [snap EXCEPT !.pc = "rows", !.rows = listed] /\ blind' = blind
          /\ recent' = recent
          /\ entry' = [x \in Registry(cf)!Turns |->
                         IF x \in rotated
                         THEN [entry[x] EXCEPT !.sessions = @ \cup {core[x].sid}] ELSE entry[x]]
      BY <1>2 DEF Registry!Takes, Registry!None
    <2> HIDE DEF rotated, listed
    <2>2. snap' \in Registry(cf)!Snapshot BY <2>1, <1>1 DEF Registry!TypeOK, Registry!Snapshot
    <2>3. ASSUME NEW x \in Registry(cf)!Turns
          PROVE  /\ entry'[x] \in Registry(cf)!Entry
                 /\ entry'[x].kept = entry[x].kept
                 /\ entry[x].sessions \subseteq entry'[x].sessions
                 /\ ~entry[x].kept => entry'[x] = entry[x]
      <3>1. entry[x] \in Registry(cf)!Entry /\ core[x] \in Registry(cf)!Turn BY DEF Registry!TypeOK
      <3>2. CASE x \in rotated
        BY <2>1, <3>2, <1>1, <3>1 DEF Registry!Turn, Registry!Entry
      <3>3. CASE x \notin rotated BY <3>1, <3>3, <2>1
      <3> QED BY <3>2, <3>3
    <2>4. entry' \in [Registry(cf)!Turns -> Registry(cf)!Entry] BY <2>1, <2>3
    <2> QED BY <2>1, <2>2, <2>3, <2>4, <1>2 DEF Indexes
  <1>3. CASE ~(blind = "none" /\ Registry(cf)!Uncovered = {})
    BY <1>3 DEF Registry!Takes, Registry!None, Registry!TypeOK, Registry!Snapshot, Same
  <1> QED BY <1>2, <1>3

LEMMA RegistrySteps ==
  ASSUME NEW cf,
         Registry(cf)!Shape, Registry(cf)!TypeOK, TurnFacts(cf), [Registry(cf)!Next]_(Registry(cf)!vars)
  PROVE  RegistryStep(cf)
  <1>1. CASE UNCHANGED <<entry, recent>>
    BY <1>1 DEF RegistryStep, Same
  <1>2. ASSUME NEW r \in cf.Runs, NEW s \in Registry(cf)!Sessions, Registry(cf)!Queues(r, s)
        PROVE  RegistryStep(cf)
    BY <1>2, HookIs, HookSteps DEF Registry!Queues, Registry!Turns
  <1>3. ASSUME NEW r \in cf.Runs, Registry(cf)!Starts(r)
        PROVE  RegistryStep(cf)
    <2>1. r \in Registry(cf)!Turns /\ core[r].sid \in Registry(cf)!Sessions
      BY DEF Registry!Turns, Registry!TypeOK, Registry!Turn
    <2>2. Registry(cf)!StatusHook(r, "running", core[r].sid) BY <1>3 DEF Registry!Starts
    <2>3. "running" \in {"queued", "running"} \cup Registry(cf)!Ends OBVIOUS
    <2>4. Hooked(cf, r, "running", core[r].sid) BY <2>1, <2>2, <2>3, HookIs
    <2> QED BY <2>1, <2>3, <2>4, HookSteps
  <1>4. ASSUME NEW r \in cf.Runs, Registry(cf)!Lost(r)
        PROVE  RegistryStep(cf)
    BY <1>4, FinishIs
    DEF Registry!Lost, Registry!Unsettled, Registry!TypeOK, Registry!Entry, Registry!Turns,
        RegistryStep, Same
  <1>5. ASSUME NEW r \in cf.Runs, Registry(cf)!Settles(r)
        PROVE  RegistryStep(cf)
    BY <1>5, FinishIs
    DEF Registry!Settles, Registry!Unsettled, Registry!TypeOK, Registry!Entry,
        Registry!Turns, RegistryStep
  <1>6. ASSUME NEW r \in cf.Runs, NEW e \in Registry(cf)!Ends, Registry(cf)!EndsWith(r, e)
        PROVE  RegistryStep(cf)
    BY <1>6, HookIs, HookSteps DEF Registry!Turns, Registry!TypeOK, Registry!Turn, Registry!EndsWith
  <1>7. ASSUME NEW c \in cf.Chats, NEW s \in Registry(cf)!Sessions, Registry(cf)!ChatOpens(c, s)
        PROVE  RegistryStep(cf)
    BY <1>7, TrackedIs DEF Registry!ChatOpens, Registry!Turns, RegistryStep, Same
  <1>8. ASSUME NEW c \in cf.Chats, NEW e \in Registry(cf)!Ends, Registry(cf)!ChatEnds(c, e)
        PROVE  RegistryStep(cf)
    BY <1>8, FinishIs
    DEF Registry!ChatEnds, Registry!TypeOK, Registry!Entry, Registry!Turns, RegistryStep,
        Same
  <1>9. CASE Registry(cf)!Takes BY <1>9, TakesIs DEF Registry!Takes, RegistryStep
  <1> QED
    BY <1>1, <1>2, <1>3, <1>4, <1>5, <1>6, <1>7, <1>8, <1>9
    DEF Registry!vars, Registry!Next, Registry!Rotates, Registry!ChatStarts,
        Registry!ChatDropped, Registry!Fault, Registry!HandOff, Registry!Unload,
        Registry!Load, Registry!Begins

\* The newest session of the chain is one of it.
LEMMA ResolveIs ==
  ASSUME NEW cf, Registry(cf)!Shape, Registry(cf)!TypeOK, NEW s \in Registry(cf)!Sessions
  PROVE  Registry(cf)!Resolve(s) \in Registry(cf)!Sessions
  <1> DEFINE A == {s} \cup {core[x].sid : x \in Registry(cf)!Turns}
             above(a) == a..cf.Tip
             F == {above(a) : a \in A}
             all == 1..cf.Tip
  <1>1. A \in SUBSET Registry(cf)!Sessions /\ A # {} BY DEF Registry!TypeOK, Registry!Turn
  <1>2. cf.Tip \in Nat BY ActivityShape
  <1>3. F \in SUBSET (SUBSET all) /\ F # {} BY <1>1, <1>2 DEF Registry!Sessions
  <1>4. IsFiniteSet(all) BY <1>2, FS_Interval
  <1>5. PICK U \in F : \A V \in F : V \subseteq U => V = U
    <2> HIDE DEF F, all
    <2> QED BY <1>3, <1>4, Minimal
  <1>6. PICK a \in A : U = above(a) OBVIOUS
  <1>7. \A u \in A : u <= a
    <2> TAKE u \in A
    <2>1. u \in 1..cf.Tip /\ a \in 1..cf.Tip BY <1>1 DEF Registry!Sessions
    <2>2. CASE u > a
      <3>1. above(u) \subseteq above(a) BY <2>1, <2>2
      <3>2. above(u) = above(a) BY <3>1, <1>5, <1>6
      <3>3. a \in above(a) /\ a \notin above(u) BY <2>1, <2>2
      <3> QED BY <3>2, <3>3
    <2> QED BY <2>1, <2>2
  <1>8. Registry(cf)!Resolve(s) \in A BY <1>7 DEF Registry!Resolve
  <1> QED BY <1>1, <1>8

LEMMA CoreTyped ==
  ASSUME NEW cf,
         Registry(cf)!Shape, Registry(cf)!TypeOK, [Registry(cf)!Next]_(Registry(cf)!vars)
  PROVE  core' \in [Registry(cf)!Turns -> Registry(cf)!Turn]
  <1>1. CASE UNCHANGED core
    BY <1>1 DEF Registry!TypeOK
  <1>2. ASSUME NEW r \in cf.Runs, NEW s \in Registry(cf)!Sessions, Registry(cf)!Queues(r, s)
        PROVE  core' \in [Registry(cf)!Turns -> Registry(cf)!Turn]
    BY <1>2 DEF Registry!Queues, Registry!TypeOK, Registry!Turn, Registry!Turns
  <1>3. ASSUME NEW r \in cf.Runs, Registry(cf)!Starts(r)
        PROVE  core' \in [Registry(cf)!Turns -> Registry(cf)!Turn]
    <2> DEFINE v == [core[r] EXCEPT !.state = "running", !.wrapped = hooked /\ r \notin cf.Streams]
    <2>1. r \in Registry(cf)!Turns BY DEF Registry!Turns
    <2>2. core \in [Registry(cf)!Turns -> Registry(cf)!Turn] BY DEF Registry!TypeOK
    <2>3. core[r] \in Registry(cf)!Turn BY <2>1, <2>2
    <2>4. v \in Registry(cf)!Turn BY <2>3 DEF Registry!Turn
    <2>5. core' = [core EXCEPT ![r] = v] BY <1>3, <2>1, <2>2 DEF Registry!Starts
    <2> HIDE DEF v
    <2> QED BY <2>1, <2>2, <2>4, <2>5
  <1>4. ASSUME NEW r \in cf.Runs, Registry(cf)!Lost(r)
        PROVE  core' \in [Registry(cf)!Turns -> Registry(cf)!Turn]
    BY <1>4 DEF Registry!Lost, Registry!TypeOK, Registry!Turn, Registry!Turns
  <1>5. ASSUME NEW r \in cf.Runs, NEW e \in Registry(cf)!Ends, Registry(cf)!EndsWith(r, e)
        PROVE  core' \in [Registry(cf)!Turns -> Registry(cf)!Turn]
    BY <1>5 DEF Registry!EndsWith, Registry!TypeOK, Registry!Turn, Registry!Turns
  <1>6. ASSUME NEW x \in Registry(cf)!Turns, Registry(cf)!Rotates(x)
        PROVE  core' \in [Registry(cf)!Turns -> Registry(cf)!Turn]
    <2>1. core[x] \in Registry(cf)!Turn /\ cf.Tip \in Nat BY ActivityShape DEF Registry!TypeOK
    <2>2. core[x].sid + 1 \in Registry(cf)!Sessions
      BY <1>6, <2>1 DEF Registry!Rotates, Registry!Turn, Registry!Sessions
    <2>3. [core[x] EXCEPT !.sid = core[x].sid + 1] \in Registry(cf)!Turn BY <2>1, <2>2 DEF Registry!Turn
    <2>4. core' = [core EXCEPT ![x] = [core[x] EXCEPT !.sid = core[x].sid + 1]] BY <1>6 DEF Registry!Rotates
    <2> QED BY <2>3, <2>4 DEF Registry!TypeOK
  <1>7. ASSUME NEW c \in cf.Chats, NEW s \in Registry(cf)!Sessions, Registry(cf)!ChatOpens(c, s)
        PROVE  core' \in [Registry(cf)!Turns -> Registry(cf)!Turn]
    BY <1>7 DEF Registry!ChatOpens, Registry!TypeOK, Registry!Turn, Registry!Turns
  <1>8. ASSUME NEW c \in cf.Chats, Registry(cf)!ChatStarts(c)
        PROVE  core' \in [Registry(cf)!Turns -> Registry(cf)!Turn]
    BY <1>8 DEF Registry!ChatStarts, Registry!TypeOK, Registry!Turn, Registry!Turns
  <1>9. ASSUME NEW c \in cf.Chats, Registry(cf)!ChatDropped(c)
        PROVE  core' \in [Registry(cf)!Turns -> Registry(cf)!Turn]
    BY <1>9 DEF Registry!ChatDropped, Registry!TypeOK, Registry!Turn, Registry!Turns, Registry!Ends
  <1>10. ASSUME NEW c \in cf.Chats, NEW e \in Registry(cf)!Ends, Registry(cf)!ChatEnds(c, e)
        PROVE  core' \in [Registry(cf)!Turns -> Registry(cf)!Turn]
    BY <1>10 DEF Registry!ChatEnds, Registry!TypeOK, Registry!Turn, Registry!Turns
  <1> QED
    BY <1>1, <1>2, <1>3, <1>4, <1>5, <1>6, <1>7, <1>8, <1>9, <1>10
    DEF Registry!vars, Registry!Next, Registry!Settles, Registry!Fault, Registry!HandOff,
        Registry!Unload, Registry!Load, Registry!Begins, Registry!Takes

LEMMA SnapTyped ==
  ASSUME NEW cf,
         Registry(cf)!Shape, Registry(cf)!TypeOK, [Registry(cf)!Next]_(Registry(cf)!vars)
  PROVE  snap' \in Registry(cf)!Snapshot
  <1>1. CASE UNCHANGED snap
    BY <1>1 DEF Registry!TypeOK
  <1>2. ASSUME NEW s \in Registry(cf)!Sessions, Registry(cf)!Begins(s)
        PROVE  snap' \in Registry(cf)!Snapshot
    <2>1. Registry(cf)!Resolve(s) \in Registry(cf)!Sessions BY ResolveIs
    <2>2. Registry(cf)!Running \in SUBSET Registry(cf)!Turns BY DEF Registry!Running
    <2>3. [Registry(cf)!NoSnap EXCEPT !.pc = "unavailable", !.sid = s] \in Registry(cf)!Snapshot
      <3>1. 1 \in Registry(cf)!Sessions BY ActivityShape DEF Registry!Sessions
      <3>2. Registry(cf)!NoSnap \in Registry(cf)!Snapshot BY <3>1 DEF Registry!NoSnap, Registry!Snapshot
      <3> QED BY <3>2 DEF Registry!Snapshot
    <2>4. [pc |-> "reading", sid |-> s, resolved |-> Registry(cf)!Resolve(s),
           live |-> Registry(cf)!Running, rows |-> {}] \in Registry(cf)!Snapshot
      BY <2>1, <2>2 DEF Registry!Snapshot
    <2> QED BY <1>2, <2>3, <2>4 DEF Registry!Begins
  <1>3. CASE Registry(cf)!Takes
    BY <1>3, TakesIs
  <1> QED
    BY <1>1, <1>2, <1>3
    DEF Registry!vars, Registry!Next, Registry!Queues, Registry!Starts, Registry!Lost,
        Registry!Settles, Registry!EndsWith, Registry!Rotates, Registry!ChatOpens,
        Registry!ChatStarts, Registry!ChatDropped, Registry!ChatEnds, Registry!Fault,
        Registry!HandOff, Registry!Unload, Registry!Load

LEMMA FlagsTyped ==
  ASSUME NEW cf,
         Registry(cf)!Shape, Registry(cf)!TypeOK, LoadFacts(cf), [Registry(cf)!Next]_(Registry(cf)!vars)
  PROVE  /\ seen' \subseteq cf.Runs /\ hooked' \in BOOLEAN /\ loads' \in 0..cf.Reloads
         /\ blind' \in {"none", "unit-unloaded", "unregistered-live-run", "fault", "handoff"}
  <1>1. CASE UNCHANGED <<seen, blind, hooked, loads>>
    BY <1>1 DEF Registry!TypeOK, Registry!None
  <1>2. ASSUME NEW r \in cf.Runs, NEW s \in Registry(cf)!Sessions, Registry(cf)!Queues(r, s)
        PROVE  /\ seen' \subseteq cf.Runs /\ hooked' \in BOOLEAN /\ loads' \in 0..cf.Reloads
               /\ blind' \in {"none", "unit-unloaded", "unregistered-live-run", "fault", "handoff"}
    <2>1. r \in Registry(cf)!Turns /\ s \in Registry(cf)!Sessions
      BY DEF Registry!Turns, Registry!TypeOK, Registry!Turn
    <2>2. Registry(cf)!StatusHook(r, "queued", s) BY <1>2 DEF Registry!Queues
    <2>3. "queued" \in {"queued", "running"} \cup Registry(cf)!Ends OBVIOUS
    <2>4. Hooked(cf, r, "queued", s) BY <2>1, <2>2, <2>3, HookIs
    <2>5. seen' \subseteq cf.Runs BY <2>4 DEF Hooked, Registry!TypeOK
    <2> QED BY <1>2, <2>5 DEF Registry!Queues, Registry!TypeOK, Registry!None
  <1>3. ASSUME NEW r \in cf.Runs, Registry(cf)!Starts(r)
        PROVE  /\ seen' \subseteq cf.Runs /\ hooked' \in BOOLEAN /\ loads' \in 0..cf.Reloads
               /\ blind' \in {"none", "unit-unloaded", "unregistered-live-run", "fault", "handoff"}
    <2>1. r \in Registry(cf)!Turns /\ core[r].sid \in Registry(cf)!Sessions
      BY DEF Registry!Turns, Registry!TypeOK, Registry!Turn
    <2>2. Registry(cf)!StatusHook(r, "running", core[r].sid) BY <1>3 DEF Registry!Starts
    <2>3. "running" \in {"queued", "running"} \cup Registry(cf)!Ends OBVIOUS
    <2>4. Hooked(cf, r, "running", core[r].sid) BY <2>1, <2>2, <2>3, HookIs
    <2>5. seen' \subseteq cf.Runs BY <2>4 DEF Hooked, Registry!TypeOK
    <2> QED BY <1>3, <2>5 DEF Registry!Starts, Registry!TypeOK, Registry!None
  <1>4. ASSUME NEW r \in cf.Runs, NEW e \in Registry(cf)!Ends, Registry(cf)!EndsWith(r, e)
        PROVE  /\ seen' \subseteq cf.Runs /\ hooked' \in BOOLEAN /\ loads' \in 0..cf.Reloads
               /\ blind' \in {"none", "unit-unloaded", "unregistered-live-run", "fault", "handoff"}
    <2>1. r \in Registry(cf)!Turns /\ core[r].sid \in Registry(cf)!Sessions
      BY DEF Registry!Turns, Registry!TypeOK, Registry!Turn
    <2>2. Registry(cf)!StatusHook(r, e, core[r].sid) BY <1>4 DEF Registry!EndsWith
    <2>3. e \in {"queued", "running"} \cup Registry(cf)!Ends OBVIOUS
    <2>4. Hooked(cf, r, e, core[r].sid) BY <2>1, <2>2, <2>3, HookIs
    <2>5. seen' \subseteq cf.Runs BY <2>4 DEF Hooked, Registry!TypeOK
    <2> QED BY <1>4, <2>5 DEF Registry!EndsWith, Registry!TypeOK, Registry!None
  <1>5. CASE Registry(cf)!Fault BY <1>5 DEF Registry!Fault, Registry!TypeOK, Registry!None
  <1>6. CASE Registry(cf)!HandOff BY <1>6 DEF Registry!HandOff, Registry!TypeOK, Registry!None
  <1>7. CASE Registry(cf)!Unload
    BY <1>7, ActivityShape DEF Registry!Unload, Registry!TypeOK, Registry!None
  <1>8. CASE Registry(cf)!Load
    BY <1>8, ActivityShape DEF Registry!Load, Registry!TypeOK, LoadFacts, Registry!None
  <1>9. CASE Registry(cf)!Takes
    BY <1>9, TakesIs DEF Registry!Takes, Registry!TypeOK, Registry!None
  <1> QED
    BY <1>1, <1>2, <1>3, <1>4, <1>5, <1>6, <1>7, <1>8, <1>9
    DEF Registry!vars, Registry!Next, Registry!Lost, Registry!Settles, Registry!Rotates,
        Registry!ChatOpens, Registry!ChatStarts, Registry!ChatDropped, Registry!ChatEnds,
        Registry!Begins

\* A step that is about one turn leaves what is known of the others.
Others(cf, k) ==
    \A y \in Registry(cf)!Turns : y # k => /\ core'[y] = core[y] /\ entry'[y] = entry[y]
                                           /\ y \in seen' <=> y \in seen

LEMMA OthersKnown ==
  ASSUME NEW cf, TurnFacts(cf), NEW k \in Registry(cf)!Turns, Others(cf, k)
  PROVE  \A y \in Registry(cf)!Turns : y # k => TurnFact(cf, y)'
  <1> TAKE y \in Registry(cf)!Turns
  <1> SUFFICES ASSUME y # k PROVE TurnFact(cf, y)' OBVIOUS
  <1>1. core'[y] = core[y] /\ entry'[y] = entry[y] /\ (y \in seen' <=> y \in seen) BY DEF Others
  <1>2. TurnFact(cf, y) BY DEF TurnFacts
  <1> QED BY <1>1, <1>2 DEF TurnFact, Unended

\* The memories grow until they are full.
Grows(cf) == \A s \in Registry(cf)!Sessions :
             Len(recent'[s]) < cf.RecentCap =>
                 /\ Len(recent[s]) < cf.RecentCap
                 /\ Registry(cf)!Range(recent[s]) \subseteq Registry(cf)!Range(recent'[s])

LEMMA MemoriesGrow == ASSUME NEW cf, RegistryStep(cf) PROVE Grows(cf)
  BY DEF RegistryStep, Same, Indexes, Opens, Closes, Grows

LEMMA OthersRemembered ==
  ASSUME NEW cf,
         Registry(cf)!TypeOK, NEW k \in Registry(cf)!Turns, Others(cf, k), Grows(cf),
         NEW y \in Registry(cf)!Turns, y # k, HookedFact(cf, y)
  PROVE  HookedFact(cf, y)'
  BY DEF Others, Registry!TypeOK, Registry!Entry, Remembers, Unended, Grows, HookedFact

LEMMA TurnsKept ==
  ASSUME NEW cf,
         Registry(cf)!Shape, Registry(cf)!TypeOK, TurnFacts(cf), [Registry(cf)!Next]_(Registry(cf)!vars)
  PROVE  \A y \in Registry(cf)!Turns : TurnFact(cf, y)'
  <1>1. CASE UNCHANGED <<core, entry, seen>>
    BY <1>1 DEF TurnFacts, TurnFact, Unended
  <1>2. ASSUME NEW r \in cf.Runs, NEW s \in Registry(cf)!Sessions, Registry(cf)!Queues(r, s)
        PROVE  \A y \in Registry(cf)!Turns : TurnFact(cf, y)'
    <2>1. r \in Registry(cf)!Turns BY DEF Registry!Turns
    <2>2. Hooked(cf, r, "queued", s)
      BY <2>1, <1>2, HookIs DEF Registry!TypeOK, Registry!Turn, Registry!Queues
    <2>3. Others(cf, r)
      BY <1>2, <2>1, <2>2 DEF Registry!Queues, Registry!TypeOK, Others, Same, Opens, Closes, Hooked
    <2>4. TurnFact(cf, r)'
      BY <2>1, <1>2, <2>2, ActivityShape DEF TurnFacts, Registry!Queues, Registry!TypeOK,
         Registry!None, Same, Opens, Closes, Hooked, TurnFact, Unended, Registry!Ends
    <2> QED BY <2>1, <2>3, <2>4, OthersKnown
  <1>3. ASSUME NEW r \in cf.Runs, Registry(cf)!Starts(r)
        PROVE  \A y \in Registry(cf)!Turns : TurnFact(cf, y)'
    <2>1. r \in Registry(cf)!Turns BY DEF Registry!Turns
    <2>2. Hooked(cf, r, "running", core[r].sid)
      BY <2>1, <1>3, HookIs DEF Registry!TypeOK, Registry!Turn, Registry!Starts
    <2>3. Others(cf, r)
      BY <1>3, <2>1, <2>2 DEF Registry!Starts, Registry!TypeOK, Others, Same, Opens, Closes, Hooked
    <2>4. TurnFact(cf, r)'
      BY <2>1, <1>3, <2>2, ActivityShape DEF TurnFacts, Registry!Starts, Registry!TypeOK,
         Registry!Turn, Registry!Unsettled, Same, Opens, Closes, Hooked, TurnFact, Unended,
         Registry!Ends
    <2> QED BY <2>1, <2>3, <2>4, OthersKnown
  <1>4. ASSUME NEW r \in cf.Runs, Registry(cf)!Lost(r)
        PROVE  \A y \in Registry(cf)!Turns : TurnFact(cf, y)'
    <2>1. r \in Registry(cf)!Turns BY DEF Registry!Turns
    <2>2. Same \/ Closes(cf, r, "unknown")
      BY <2>1, <1>4, FinishIs DEF Registry!TypeOK, Registry!Entry, Registry!Lost, Registry!Unsettled,
         Same
    <2>3. Others(cf, r)
      BY <1>4, <2>1, <2>2 DEF Registry!Lost, Registry!TypeOK, Others, Same, Opens, Closes, Hooked
    <2>4. TurnFact(cf, r)'
      BY <2>1, <1>4, <2>2, ActivityShape DEF TurnFacts, Registry!Lost, Registry!TypeOK, Registry!Turn,
         Registry!Unsettled, Same, Opens, Closes, Hooked, TurnFact, Unended, Registry!Ends
    <2> QED BY <2>1, <2>3, <2>4, OthersKnown
  <1>5. ASSUME NEW r \in cf.Runs, Registry(cf)!Settles(r)
        PROVE  \A y \in Registry(cf)!Turns : TurnFact(cf, y)'
    <2>1. r \in Registry(cf)!Turns BY DEF Registry!Turns
    <2>2. Same \/ Closes(cf, r, "unknown")
      BY <2>1, <1>5, FinishIs DEF Registry!TypeOK, Registry!Entry, Registry!Settles,
         Registry!Unsettled, Same
    <2>3. Others(cf, r)
      BY <1>5, <2>1, <2>2 DEF Registry!Settles, Registry!TypeOK, Others, Same, Opens, Closes, Hooked
    <2>4. TurnFact(cf, r)'
      BY <2>1, <1>5, <2>2, ActivityShape DEF TurnFacts, Registry!Settles, Registry!TypeOK,
         Registry!Turn, Registry!Unsettled, Same, Opens, Closes, Hooked, TurnFact, Unended,
         Registry!Ends
    <2> QED BY <2>1, <2>3, <2>4, OthersKnown
  <1>6. ASSUME NEW r \in cf.Runs, NEW e \in Registry(cf)!Ends, Registry(cf)!EndsWith(r, e)
        PROVE  \A y \in Registry(cf)!Turns : TurnFact(cf, y)'
    <2>1. r \in Registry(cf)!Turns BY DEF Registry!Turns
    <2>2. Hooked(cf, r, e, core[r].sid)
      BY <2>1, <1>6, HookIs DEF Registry!TypeOK, Registry!Turn, Registry!EndsWith
    <2>3. Others(cf, r)
      BY <1>6, <2>1, <2>2 DEF Registry!EndsWith, Registry!TypeOK, Others, Same, Opens, Closes, Hooked
    <2>4. TurnFact(cf, r)'
      BY <2>1, <1>6, <2>2, ActivityShape DEF TurnFacts, Registry!EndsWith, Registry!TypeOK,
         Registry!Turn, Registry!Unsettled, Same, Opens, Closes, Hooked, TurnFact, Unended,
         Registry!Ends
    <2> QED BY <2>1, <2>3, <2>4, OthersKnown
  <1>7. ASSUME NEW x \in Registry(cf)!Turns, Registry(cf)!Rotates(x)
        PROVE  \A y \in Registry(cf)!Turns : TurnFact(cf, y)'
    BY <1>7, OthersKnown DEF Registry!Rotates, Same, Registry!TypeOK, Others, TurnFacts, Registry!Turn,
       TurnFact, Unended
  <1>8. ASSUME NEW c \in cf.Chats, NEW s \in Registry(cf)!Sessions, Registry(cf)!ChatOpens(c, s)
        PROVE  \A y \in Registry(cf)!Turns : TurnFact(cf, y)'
    <2>1. c \in Registry(cf)!Turns BY DEF Registry!Turns
    <2>2. IF hooked THEN Opens(cf, c, s) ELSE Same
      BY <1>8, <2>1, TrackedIs DEF Registry!ChatOpens, Same
    <2>3. Others(cf, c)
      BY <1>8, <2>1, <2>2 DEF Registry!ChatOpens, Registry!TypeOK, Others, Same, Opens, Closes, Hooked
    <2>4. TurnFact(cf, c)'
      BY <2>1, <1>8, ActivityShape, <2>2 DEF TurnFacts, Registry!ChatOpens, Registry!TypeOK,
         Registry!None, Same, Opens, Closes, Hooked, TurnFact, Unended, Registry!Ends
    <2> QED BY <2>1, <2>3, <2>4, OthersKnown
  <1>9. ASSUME NEW c \in cf.Chats, Registry(cf)!ChatStarts(c)
        PROVE  \A y \in Registry(cf)!Turns : TurnFact(cf, y)'
    <2>1. c \in Registry(cf)!Turns BY DEF Registry!Turns
    <2>2. Same BY <1>9 DEF Registry!ChatStarts, Same
    <2>3. Others(cf, c)
      BY <1>9, <2>1, <2>2 DEF Registry!ChatStarts, Registry!TypeOK, Others, Same, Opens, Closes, Hooked
    <2>4. TurnFact(cf, c)'
      BY <2>1, <1>9, <2>2, ActivityShape DEF TurnFacts, Registry!ChatStarts, Registry!TypeOK,
         Registry!Turn, Same, Opens, Closes, Hooked, TurnFact, Unended, Registry!Ends
    <2> QED BY <2>1, <2>3, <2>4, OthersKnown
  <1>10. ASSUME NEW c \in cf.Chats, Registry(cf)!ChatDropped(c)
        PROVE  \A y \in Registry(cf)!Turns : TurnFact(cf, y)'
    <2>1. c \in Registry(cf)!Turns BY DEF Registry!Turns
    <2>2. Same BY <1>10 DEF Registry!ChatDropped, Same
    <2>3. Others(cf, c)
      BY <1>10, <2>1, <2>2 DEF Registry!ChatDropped, Registry!TypeOK, Others, Same, Opens, Closes, Hooked
    <2>4. TurnFact(cf, c)'
      BY <2>1, <1>10, <2>2, ActivityShape DEF TurnFacts, Registry!ChatDropped, Registry!TypeOK,
         Registry!Turn, Same, Opens, Closes, Hooked, TurnFact, Unended, Registry!Ends
    <2> QED BY <2>1, <2>3, <2>4, OthersKnown
  <1>11. ASSUME NEW c \in cf.Chats, NEW e \in Registry(cf)!Ends, Registry(cf)!ChatEnds(c, e)
        PROVE  \A y \in Registry(cf)!Turns : TurnFact(cf, y)'
    <2>1. c \in Registry(cf)!Turns BY DEF Registry!Turns
    <2>2. Same \/ Closes(cf, c, e)
      BY <2>1, <1>11, FinishIs DEF Registry!TypeOK, Registry!Entry, Registry!ChatEnds,
         Registry!Unsettled, Same
    <2>3. Others(cf, c)
      BY <1>11, <2>1, <2>2 DEF Registry!ChatEnds, Registry!TypeOK, Others, Same, Opens, Closes, Hooked
    <2>4. TurnFact(cf, c)'
      BY <2>1, <1>11, <2>2, ActivityShape DEF TurnFacts, Registry!ChatEnds, Registry!TypeOK,
         Registry!Turn, Registry!Unsettled, Same, Opens, Closes, Hooked, TurnFact, Unended,
         Registry!Ends
    <2> QED BY <2>1, <2>3, <2>4, OthersKnown
  <1>12. CASE Registry(cf)!Takes
    <2> TAKE y \in Registry(cf)!Turns
    <2>1. Same \/ Indexes(cf) BY <1>12, TakesIs
    <2>2. core' = core /\ seen' = seen BY <1>12 DEF Registry!Takes
    <2>3. TurnFact(cf, y) BY DEF TurnFacts
    <2> QED BY <2>1, <2>2, <2>3 DEF Same, Indexes, TurnFact, Unended
  <1> QED
    BY <1>1, <1>2, <1>3, <1>4, <1>5, <1>6, <1>7, <1>8, <1>9, <1>10, <1>11, <1>12
    DEF Registry!vars, Registry!Next, Registry!Fault, Registry!HandOff, Registry!Unload,
        Registry!Load, Registry!Begins

LEMMA HookedKept ==
  ASSUME NEW cf, Registry(cf)!Shape, Registry(cf)!TypeOK, TurnFacts(cf), hooked,
         \A y \in Registry(cf)!Turns : HookedFact(cf, y), [Registry(cf)!Next]_(Registry(cf)!vars)
  PROVE  \A y \in Registry(cf)!Turns : HookedFact(cf, y)'
  <1>1. CASE UNCHANGED <<core, entry, recent>>
    BY <1>1 DEF HookedFact, Remembers, Unended
  <1>2. ASSUME NEW r \in cf.Runs, NEW s \in Registry(cf)!Sessions, Registry(cf)!Queues(r, s)
        PROVE  \A y \in Registry(cf)!Turns : HookedFact(cf, y)'
    <2>1. r \in Registry(cf)!Turns BY DEF Registry!Turns
    <2>2. Hooked(cf, r, "queued", s)
      BY <2>1, <1>2, HookIs DEF Registry!TypeOK, Registry!Turn, Registry!Queues
    <2>3. Others(cf, r)
      BY <1>2, <2>1, <2>2 DEF Registry!Queues, Registry!TypeOK, Others, Same, Opens, Closes, Hooked
    <2>4. HookedFact(cf, r)'
      BY <2>1, <1>2, <2>2, ActivityShape DEF TurnFacts, Registry!Queues, Registry!TypeOK,
         Registry!Turn, Registry!Unsettled, Same, Opens, Closes, Hooked, HookedFact, Remembers,
         TurnFact, Unended, Registry!Ends, Registry!Entry
    <2>5. Grows(cf) BY RegistrySteps, MemoriesGrow
    <2> QED BY <2>1, <2>3, <2>4, <2>5, OthersRemembered
  <1>3. ASSUME NEW r \in cf.Runs, Registry(cf)!Starts(r)
        PROVE  \A y \in Registry(cf)!Turns : HookedFact(cf, y)'
    <2>1. r \in Registry(cf)!Turns BY DEF Registry!Turns
    <2>2. Hooked(cf, r, "running", core[r].sid)
      BY <2>1, <1>3, HookIs DEF Registry!TypeOK, Registry!Turn, Registry!Starts
    <2>3. Others(cf, r)
      BY <1>3, <2>1, <2>2 DEF Registry!Starts, Registry!TypeOK, Others, Same, Opens, Closes, Hooked
    <2>4. HookedFact(cf, r)'
      BY <2>1, <1>3, <2>2, ActivityShape DEF TurnFacts, Registry!Starts, Registry!TypeOK,
         Registry!Turn, Registry!Unsettled, Same, Opens, Closes, Hooked, HookedFact, Remembers,
         TurnFact, Unended, Registry!Ends, Registry!Entry
    <2>5. Grows(cf) BY RegistrySteps, MemoriesGrow
    <2> QED BY <2>1, <2>3, <2>4, <2>5, OthersRemembered
  <1>4. ASSUME NEW r \in cf.Runs, Registry(cf)!Lost(r)
        PROVE  \A y \in Registry(cf)!Turns : HookedFact(cf, y)'
    <2>1. r \in Registry(cf)!Turns BY DEF Registry!Turns
    <2>2. (Same /\ ~entry[r].kept) \/ Closes(cf, r, "unknown")
      BY <2>1, <1>4, FinishIs DEF Registry!TypeOK, Registry!Entry, Registry!Lost, Registry!Unsettled,
         Same
    <2>3. Others(cf, r)
      BY <1>4, <2>1, <2>2 DEF Registry!Lost, Registry!TypeOK, Others, Same, Opens, Closes, Hooked
    <2>4. HookedFact(cf, r)'
      <3>1. HookedFact(cf, r) /\ TurnFact(cf, r) BY <2>1 DEF TurnFacts
      <3>2. core'[r].state = "lost" BY <1>4, <2>1 DEF Registry!Lost, Registry!TypeOK, Registry!Turn
      <3>3. CASE Same /\ ~entry[r].kept
        BY <1>4, <3>1, <3>3 DEF Registry!Lost, Registry!Unsettled, HookedFact, Remembers, Unended, Same
      <3>4. CASE Closes(cf, r, "unknown")
        BY <2>1, <3>4, <1>4, <3>2, <3>1 DEF Closes, Registry!Entry, Registry!Lost, Unended,
           Registry!Ends, Registry!Unsettled, HookedFact, Remembers
      <3> QED BY <2>2, <3>3, <3>4
    <2>5. Grows(cf) BY RegistrySteps, MemoriesGrow
    <2> QED BY <2>1, <2>3, <2>4, <2>5, OthersRemembered
  <1>5. ASSUME NEW r \in cf.Runs, Registry(cf)!Settles(r)
        PROVE  \A y \in Registry(cf)!Turns : HookedFact(cf, y)'
    <2>1. r \in Registry(cf)!Turns BY DEF Registry!Turns
    <2>2. (Same /\ ~entry[r].kept) \/ Closes(cf, r, "unknown")
      BY <2>1, <1>5, FinishIs DEF Registry!TypeOK, Registry!Entry, Registry!Settles,
         Registry!Unsettled, Same
    <2>3. Others(cf, r)
      BY <1>5, <2>1, <2>2 DEF Registry!Settles, Registry!TypeOK, Others, Same, Opens, Closes, Hooked
    <2>4. HookedFact(cf, r)'
      <3>1. HookedFact(cf, r) /\ TurnFact(cf, r) BY <2>1 DEF TurnFacts
      <3>2. core'[r].state = core[r].state BY <1>5, <2>1 DEF Registry!Settles, Registry!TypeOK, Registry!Turn
      <3>3. CASE Same /\ ~entry[r].kept
        BY <1>5, <3>1, <3>3 DEF Registry!Settles, Registry!Unsettled, HookedFact, Remembers, Unended,
           Same
      <3>4. CASE Closes(cf, r, "unknown")
        BY <2>1, <3>4, <1>5, <3>2, <3>1 DEF Closes, Registry!Entry, Registry!Settles, Unended,
           Registry!Ends, Registry!Unsettled, HookedFact, Remembers
      <3> QED BY <2>2, <3>3, <3>4
    <2>5. Grows(cf) BY RegistrySteps, MemoriesGrow
    <2> QED BY <2>1, <2>3, <2>4, <2>5, OthersRemembered
  <1>6. ASSUME NEW r \in cf.Runs, NEW e \in Registry(cf)!Ends, Registry(cf)!EndsWith(r, e)
        PROVE  \A y \in Registry(cf)!Turns : HookedFact(cf, y)'
    <2>1. r \in Registry(cf)!Turns BY DEF Registry!Turns
    <2>2. Hooked(cf, r, e, core[r].sid)
      BY <2>1, <1>6, HookIs DEF Registry!TypeOK, Registry!Turn, Registry!EndsWith
    <2>3. Others(cf, r)
      BY <1>6, <2>1, <2>2 DEF Registry!EndsWith, Registry!TypeOK, Others, Same, Opens, Closes, Hooked
    <2>4. HookedFact(cf, r)'
      <3>1. HookedFact(cf, r) /\ TurnFact(cf, r) BY <2>1 DEF TurnFacts
      <3>2. core'[r].state = e BY <1>6, <2>1 DEF Registry!EndsWith, Registry!TypeOK, Registry!Turn
      <3>3. entry[r] \in Registry(cf)!Entry BY <2>1 DEF Registry!TypeOK
      <3> QED BY <1>6, <2>1, <2>2, <3>1, <3>2, <3>3, ActivityShape
          DEF Registry!EndsWith, Registry!Unsettled, Same, Opens, Closes, Hooked, HookedFact, Remembers, TurnFact, Unended, Registry!TypeOK, Registry!Ends, Registry!Turn, Registry!Entry
    <2>5. Grows(cf) BY RegistrySteps, MemoriesGrow
    <2> QED BY <2>1, <2>3, <2>4, <2>5, OthersRemembered
  <1>7. ASSUME NEW x \in Registry(cf)!Turns, Registry(cf)!Rotates(x)
        PROVE  \A y \in Registry(cf)!Turns : HookedFact(cf, y)'
    <2>1. Same BY <1>7 DEF Registry!Rotates, Same
    <2>2. Others(cf, x) BY <1>7, <2>1 DEF Registry!Rotates, Registry!TypeOK, Others, Same
    <2>3. core'[x].state = core[x].state BY <1>7 DEF Registry!Rotates, Registry!TypeOK, Registry!Turn
    <2>4. HookedFact(cf, x)' BY <2>1, <2>3 DEF HookedFact, Remembers, Unended, Same
    <2>5. Grows(cf) BY RegistrySteps, MemoriesGrow
    <2> QED BY <2>2, <2>4, <2>5, OthersRemembered
  <1>8. ASSUME NEW c \in cf.Chats, NEW s \in Registry(cf)!Sessions, Registry(cf)!ChatOpens(c, s)
        PROVE  \A y \in Registry(cf)!Turns : HookedFact(cf, y)'
    <2>1. c \in Registry(cf)!Turns BY DEF Registry!Turns
    <2>2. IF hooked THEN Opens(cf, c, s) ELSE Same
      BY <1>8, <2>1, TrackedIs DEF Registry!ChatOpens, Same
    <2>3. Others(cf, c)
      BY <1>8, <2>1, <2>2 DEF Registry!ChatOpens, Registry!TypeOK, Others, Same, Opens, Closes, Hooked
    <2>4. HookedFact(cf, c)'
      BY <2>1, <1>8, <2>2, ActivityShape DEF TurnFacts, Registry!ChatOpens, Registry!TypeOK,
         Registry!Turn, Registry!Unsettled, Same, Opens, Closes, Hooked, HookedFact, Remembers,
         TurnFact, Unended, Registry!Ends, Registry!Entry
    <2>5. Grows(cf) BY RegistrySteps, MemoriesGrow
    <2> QED BY <2>1, <2>3, <2>4, <2>5, OthersRemembered
  <1>9. ASSUME NEW c \in cf.Chats, Registry(cf)!ChatStarts(c)
        PROVE  \A y \in Registry(cf)!Turns : HookedFact(cf, y)'
    <2>1. c \in Registry(cf)!Turns BY DEF Registry!Turns
    <2>2. Same BY <1>9 DEF Registry!ChatStarts, Same
    <2>3. Others(cf, c)
      BY <1>9, <2>1, <2>2 DEF Registry!ChatStarts, Registry!TypeOK, Others, Same, Opens, Closes, Hooked
    <2>4. HookedFact(cf, c)'
      BY <2>1, <1>9, <2>2, ActivityShape DEF TurnFacts, Registry!ChatStarts, Registry!TypeOK,
         Registry!Turn, Registry!Unsettled, Same, Opens, Closes, Hooked, HookedFact, Remembers,
         TurnFact, Unended, Registry!Ends, Registry!Entry
    <2>5. Grows(cf) BY RegistrySteps, MemoriesGrow
    <2> QED BY <2>1, <2>3, <2>4, <2>5, OthersRemembered
  <1>10. ASSUME NEW c \in cf.Chats, Registry(cf)!ChatDropped(c)
        PROVE  \A y \in Registry(cf)!Turns : HookedFact(cf, y)'
    <2>1. c \in Registry(cf)!Turns BY DEF Registry!Turns
    <2>2. Same BY <1>10 DEF Registry!ChatDropped, Same
    <2>3. Others(cf, c)
      BY <1>10, <2>1, <2>2 DEF Registry!ChatDropped, Registry!TypeOK, Others, Same, Opens, Closes, Hooked
    <2>4. HookedFact(cf, c)'
      BY <2>1, <1>10, <2>2, ActivityShape DEF TurnFacts, Registry!ChatDropped, Registry!TypeOK,
         Registry!Turn, Registry!Unsettled, Same, Opens, Closes, Hooked, HookedFact, Remembers,
         TurnFact, Unended, Registry!Ends, Registry!Entry
    <2>5. Grows(cf) BY RegistrySteps, MemoriesGrow
    <2> QED BY <2>1, <2>3, <2>4, <2>5, OthersRemembered
  <1>11. ASSUME NEW c \in cf.Chats, NEW e \in Registry(cf)!Ends, Registry(cf)!ChatEnds(c, e)
        PROVE  \A y \in Registry(cf)!Turns : HookedFact(cf, y)'
    <2>1. c \in Registry(cf)!Turns BY DEF Registry!Turns
    <2>2. (Same /\ ~entry[c].kept) \/ Closes(cf, c, e)
      BY <2>1, <1>11, FinishIs DEF Registry!TypeOK, Registry!Entry, Registry!ChatEnds,
         Registry!Unsettled, Same
    <2>3. Others(cf, c)
      BY <1>11, <2>1, <2>2 DEF Registry!ChatEnds, Registry!TypeOK, Others, Same, Opens, Closes, Hooked
    <2>4. HookedFact(cf, c)'
      <3>1. HookedFact(cf, c) /\ TurnFact(cf, c) BY <2>1 DEF TurnFacts
      <3>2. core'[c].state = e BY <1>11, <2>1 DEF Registry!ChatEnds, Registry!TypeOK, Registry!Turn
      <3>3. CASE Same /\ ~entry[c].kept
        BY <1>11, <3>1, <3>3 DEF Registry!ChatEnds, Registry!Unsettled, HookedFact, Remembers, Unended,
           Same
      <3>4. CASE Closes(cf, c, e)
        BY <2>1, <3>4, <1>11, <3>2, <3>1 DEF Closes, Registry!Entry, Registry!ChatEnds, Unended,
           Registry!Ends, Registry!Unsettled, HookedFact, Remembers
      <3> QED BY <2>2, <3>3, <3>4
    <2>5. Grows(cf) BY RegistrySteps, MemoriesGrow
    <2> QED BY <2>1, <2>3, <2>4, <2>5, OthersRemembered
  <1>12. CASE Registry(cf)!Takes
    <2> TAKE y \in Registry(cf)!Turns
    <2>1. Same \/ Indexes(cf) BY <1>12, TakesIs
    <2>2. core' = core BY <1>12 DEF Registry!Takes
    <2> QED BY <2>1, <2>2 DEF Same, Indexes, HookedFact, Remembers, Unended
  <1> QED
    BY <1>1, <1>2, <1>3, <1>4, <1>5, <1>6, <1>7, <1>8, <1>9, <1>10, <1>11, <1>12
    DEF Registry!vars, Registry!Next, Registry!Fault, Registry!HandOff, Registry!Unload,
        Registry!Load, Registry!Begins

LEMMA LoadsKept ==
  ASSUME NEW cf,
         Registry(cf)!Shape, Registry(cf)!TypeOK, LoadFacts(cf), [Registry(cf)!Next]_(Registry(cf)!vars)
  PROVE  LoadFacts(cf)'
  BY DEF LoadFacts, Registry!Unload, Registry!Load, Registry!vars, Registry!Next, Registry!Queues,
     Registry!Starts, Registry!Lost, Registry!Settles, Registry!EndsWith, Registry!Rotates,
     Registry!ChatOpens, Registry!ChatStarts, Registry!ChatDropped, Registry!ChatEnds, Registry!Fault,
     Registry!HandOff, Registry!Begins, Registry!Takes

LEMMA ActivityStarts == ASSUME NEW cf, Registry(cf)!Shape, Registry(cf)!Init PROVE ActivityInv(cf)
  BY ActivityShape DEF Registry!Sessions, Registry!Init, Registry!Turn, Registry!None, Registry!Entry,
     Registry!NoEntry, Registry!NoSnap, Registry!Snapshot, Registry!TypeOK, TurnFacts, TurnFact,
     Unended, HookedFacts, HookedFact, ActivityInv, LoadFacts

LEMMA ActivityKept ==
  ASSUME NEW cf,
         Registry(cf)!Shape, ActivityInv(cf), [Registry(cf)!Next]_(Registry(cf)!vars)
  PROVE  ActivityInv(cf)'
  <1>1. Registry(cf)!TypeOK /\ TurnFacts(cf) /\ HookedFacts(cf) /\ LoadFacts(cf) BY DEF ActivityInv
  <1>2. RegistryStep(cf) BY <1>1, RegistrySteps
  <1>3. /\ entry' \in [Registry(cf)!Turns -> Registry(cf)!Entry]
        /\ recent' \in [Registry(cf)!Sessions -> Seq(Registry(cf)!Turns)]
        /\ \A s \in Registry(cf)!Sessions : Len(recent'[s]) <= cf.RecentCap
    BY <1>1, <1>2 DEF RegistryStep, Same, Indexes, Opens, Closes, Registry!TypeOK
  <1>4. Registry(cf)!TypeOK'
    BY <1>1, <1>3, CoreTyped, SnapTyped, FlagsTyped
    DEF Registry!TypeOK, Registry!Turns, Registry!Turn, Registry!Sessions, Registry!Entry,
        Registry!Snapshot, Registry!None, Registry!Ends
  <1>5. TurnFacts(cf)' BY <1>1, TurnsKept DEF TurnFacts, Registry!Turns
  <1>6. HookedFacts(cf)'
    <2>1. cf.Reloads = 0 => hooked BY <1>1 DEF LoadFacts, Registry!TypeOK
    <2> QED BY <1>1, <2>1, HookedKept DEF HookedFacts, Registry!Turns
  <1>7. LoadFacts(cf)' BY <1>1, LoadsKept
  <1> QED BY <1>4, <1>5, <1>6, <1>7 DEF ActivityInv

LEMMA RegistryIsHonest ==
  ASSUME NEW cf, ActivityInv(cf)
  PROVE  Registry(cf)!TypeOK /\ Registry(cf)!ActivityHonest
  BY DEF ActivityInv, HookedFacts, HookedFact, Remembers, Registry!EndIsRemembered, Unended,
     Registry!NoGhost, Registry!Live, Registry!ActivityHonest

\* Whatever compression, unloads and faults come between its reads, a snapshot
\* that answers rows lists every running turn that began in the session asked
\* for, and every run whose agent is there or at the session it resolved to;
\* what it does not know of it answers with 503 (_handle_session_activity).
LEMMA SnapshotLists ==
  ASSUME NEW cf, ActivityInv(cf), [Registry(cf)!Next]_(Registry(cf)!vars)
  PROVE  Registry(cf)!LiveTurnListed
  <1>1. Registry(cf)!TypeOK /\ TurnFacts(cf) BY DEF ActivityInv
  <1>2. CASE Registry(cf)!Takes /\ snap'.pc = "rows"
    <2> DEFINE wanted == {snap.sid, snap.resolved}
               listed == {x \in Registry(cf)!Turns : entry[x].kept /\ entry[x].sessions \cap wanted # {}}
                           \cup Registry(cf)!Rotated(wanted)
    <2>1. snap' = [snap EXCEPT !.pc = "rows", !.rows = listed] /\ Registry(cf)!Uncovered = {}
      <3>1. CASE blind = "none" /\ Registry(cf)!Uncovered = {}
        BY <1>2, <3>1 DEF Registry!Takes, Registry!None
      <3>2. CASE ~(blind = "none" /\ Registry(cf)!Uncovered = {})
        BY <1>2, <3>2, <1>1 DEF Registry!Takes, Registry!None, Registry!TypeOK, Registry!Snapshot
      <3> QED BY <3>1, <3>2
    <2>2. snap'.rows = listed BY <2>1, <1>1 DEF Registry!TypeOK, Registry!Snapshot
    <2>3. ASSUME NEW x \in Registry(cf)!Running, x \in cf.Runs \/ core[x].wrapped PROVE entry[x].kept
      BY <1>1, <2>1, <2>3 DEF Registry!Running, Unended, TurnFacts, TurnFact, Registry!Uncovered,
         Registry!Turns
    <2>4. ASSUME NEW x \in Registry(cf)!Running, core[x].first = snap.sid,
                 x \in cf.Runs \/ core[x].wrapped
          PROVE  x \in listed
      BY <2>3, <2>4, <1>1 DEF Registry!Running, TurnFacts, TurnFact
    <2>5. ASSUME NEW x \in Registry(cf)!Running, x \in cf.Runs, core[x].sid \in wanted
          PROVE  x \in listed
      BY <2>3, <2>5 DEF Registry!Running, Registry!Rotated
    <2> QED BY <2>2, <2>4, <2>5 DEF Registry!LiveTurnListed
  <1>3. CASE ~(Registry(cf)!Takes /\ snap'.pc = "rows")
    BY <1>3 DEF Registry!Next, Registry!vars, Registry!Queues, Registry!Starts, Registry!Lost,
       Registry!Settles, Registry!EndsWith, Registry!Rotates, Registry!ChatOpens, Registry!ChatStarts,
       Registry!ChatDropped, Registry!ChatEnds, Registry!Fault, Registry!HandOff, Registry!Unload,
       Registry!Load, Registry!Begins, Registry!LiveTurnListed
  <1> QED BY <1>2, <1>3

-----------------------------------------------------------------------------
(* The group: in every scenario its component keeps its invariant, whatever *)
(* the records of constants are.                                           *)

KeepsHold ==
    /\ scenario = "charged" => QuotaInv(Charged)
    /\ scenario = "freed" => QuotaInv(Freed)
    /\ scenario = "dropped" => ActivityInv(Dropped)
    /\ scenario = "opened" => ActivityInv(Opened)
    /\ scenario = "reloaded" => ActivityInv(Reloaded)

LEMMA KeepsStart == Init => KeepsHold
  <1> SUFFICES ASSUME Init PROVE KeepsHold OBVIOUS
  <1>1. ASSUME scenario = "charged" PROVE QuotaInv(Charged)
    BY <1>1, Instances, QuotaStarts DEF Init, Instances
  <1>2. ASSUME scenario = "freed" PROVE QuotaInv(Freed)
    BY <1>2, Instances, QuotaStarts DEF Init, Instances
  <1>3. ASSUME scenario = "dropped" PROVE ActivityInv(Dropped)
    BY <1>3, Instances, ActivityStarts DEF Init, Instances
  <1>4. ASSUME scenario = "opened" PROVE ActivityInv(Opened)
    BY <1>4, Instances, ActivityStarts DEF Init, Instances
  <1>5. ASSUME scenario = "reloaded" PROVE ActivityInv(Reloaded)
    BY <1>5, Instances, ActivityStarts DEF Init, Instances
  <1> QED BY <1>1, <1>2, <1>3, <1>4, <1>5 DEF KeepsHold

\* What the scenario at hand lets its component do.
LEMMA KeepsMove ==
  ASSUME [Next]_vars
  PROVE  /\ scenario' = scenario
         /\ scenario = "charged" => [Quota(Charged)!Next]_(Quota(Charged)!vars)
         /\ scenario = "freed" => [Quota(Freed)!Next]_(Quota(Freed)!vars)
         /\ scenario = "dropped" => [Registry(Dropped)!Next]_(Registry(Dropped)!vars)
         /\ scenario = "opened" => [Registry(Opened)!Next]_(Registry(Opened)!vars)
         /\ scenario = "reloaded" => [Registry(Reloaded)!Next]_(Registry(Reloaded)!vars)
  <1>1. CASE Next BY <1>1 DEF Next
  <1>2. CASE UNCHANGED vars
    BY <1>2 DEF vars, QuotaVars, Quota!vars, ActivityVars, Registry!vars
  <1> QED BY <1>1, <1>2

LEMMA KeepsKeep == KeepsHold /\ [Next]_vars => KeepsHold'
  <1> SUFFICES ASSUME KeepsHold, [Next]_vars PROVE KeepsHold' OBVIOUS
  <1>0. scenario' = scenario BY KeepsMove
  <1>1. ASSUME scenario = "charged" PROVE (QuotaInv(Charged))'
    BY <1>1, KeepsMove, Instances, QuotaKept DEF Instances, KeepsHold
  <1>2. ASSUME scenario = "freed" PROVE (QuotaInv(Freed))'
    BY <1>2, KeepsMove, Instances, QuotaKept DEF Instances, KeepsHold
  <1>3. ASSUME scenario = "dropped" PROVE (ActivityInv(Dropped))'
    BY <1>3, KeepsMove, Instances, ActivityKept DEF Instances, KeepsHold
  <1>4. ASSUME scenario = "opened" PROVE (ActivityInv(Opened))'
    BY <1>4, KeepsMove, Instances, ActivityKept DEF Instances, KeepsHold
  <1>5. ASSUME scenario = "reloaded" PROVE (ActivityInv(Reloaded))'
    BY <1>5, KeepsMove, Instances, ActivityKept DEF Instances, KeepsHold
  <1> QED BY <1>0, <1>1, <1>2, <1>3, <1>4, <1>5 DEF KeepsHold

LEMMA KeepsHoldAlways == Spec => []KeepsHold
  BY KeepsStart, KeepsKeep, PTL DEF Spec

\* Uploads that several processes reserve, write, finalise or abandon at any
\* point, beside reads and the pruning, for any limits and sizes: every live
\* file is covered by a live reservation of its size, the live files are within
\* the quota of their principal and of all, and without faults no reservation
\* outlives its file (artifact_quota.py and the upload unit of compat.py).
THEOREM EveryByteCharged == Spec => []ArtifactsCharged
  <1>1. \A cf \in {Charged, Freed} : Quota(cf)!Shape BY Instances DEF Instances
  <1>2. KeepsHold => ArtifactsCharged
    BY <1>1, ChargesFollow DEF KeepsHold, QuotaInv, ArtifactsCharged
  <1> QED BY <1>2, KeepsHoldAlways, PTL

\* A turn that ended is remembered with its status under each of its sessions,
\* and an open entry is of a live turn, unless the unit was unloaded meanwhile
\* or a request cancelled (_activity_finish and the hooks of compat.py).
THEOREM ActivityIsHonest == Spec => []ActivityHonest
  <1>1. KeepsHold => ActivityHonest BY RegistryIsHonest DEF KeepsHold, ActivityHonest
  <1> QED BY <1>1, KeepsHoldAlways, PTL

-----------------------------------------------------------------------------
(* DetachPush.                                                             *)

Statuses(cf) == {"running"} \cup cf.Requests \cup Exit(cf)!Ends

PushTypes(cf) ==
    /\ Exit(cf)!TypeOK /\ posted \in Seq(Statuses(cf)) /\ sse \in Seq({"frame", "terminal"})

\* Once the turn ended, only its end is posted again, and a run that knows of
\* its end waits for nothing.
EndFacts(cf) ==
    /\ worker \notin Exit(cf)!Ends =>
          /\ \A i \in 1..Len(posted) : posted[i] \notin Exit(cf)!Ends
          /\ st.terminal = "none"
    /\ \A i, j \in 1..Len(posted) :
          i < j /\ posted[i] \in Exit(cf)!Ends => posted[j] \in Exit(cf)!Ends
    /\ st.terminal # "none" =>
          /\ st.pending = "none"
          /\ \A i \in 1..Len(posted) : posted[i] \in Exit(cf)!Ends

\* What was pushed is marked as told, after the viewer left; the end that
\* reached the socket is acknowledged, or the run is pushed for no more.
PushFacts(cf) ==
    /\ st.detached => socket = "gone"
    /\ ~st.detached => \A x \in Exit(cf)!Subjects : pushed[x] = 0
    /\ \A r \in cf.Requests : pushed[r] <= 1 /\ (r \notin st.told => pushed[r] = 0)
    /\ pushed["end"] <= 1 /\ (~st.ended => pushed["end"] = 0)
    /\ wrote => pushed["end"] = 0 /\ (st.acked \/ ~Exit(cf)!Open)
    /\ Exit(cf)!OneExit

PushInv(cf) == PushTypes(cf) /\ EndFacts(cf) /\ PushFacts(cf)

LEMMA PushStarts == ASSUME NEW cf, Exit(cf)!Shape, Exit(cf)!Init PROVE PushInv(cf)
  <1>1. PushTypes(cf)
    <2>1. posted \in Seq(Statuses(cf)) /\ sse \in Seq({"frame", "terminal"}) BY DEF Exit!Init
    <2>2. Exit(cf)!TypeOK
      BY DEF Exit!Init, Exit!TypeOK, Exit!None, Exit!Subjects, Exit!Ends
    <2> QED BY <2>1, <2>2 DEF PushTypes
  <1>2. EndFacts(cf) BY DEF Exit!Init, EndFacts, Exit!None, Exit!Ends
  <1>3. PushFacts(cf) BY DEF Exit!Init, PushFacts, Exit!Subjects, Exit!OneExit
  <1> QED BY <1>1, <1>2, <1>3 DEF PushInv

\* What publishing does to the counts, and to what is marked as told.
LEMMA Published ==
  ASSUME NEW cf, Exit(cf)!Shape, PushTypes(cf), PushFacts(cf), Exit(cf)!Open,
         NEW s, s.told = st.told, s.ended = st.ended, s.acked = st.acked,
         s \in [detached : BOOLEAN, closing : BOOLEAN, released : BOOLEAN,
                pending : cf.Requests \cup {"none"}, told : SUBSET cf.Requests,
                terminal : Exit(cf)!Ends \cup {"none"}, ended : BOOLEAN, acked : BOOLEAN],
         st' = Exit(cf)!Told(s, Exit(cf)!Due(s)), Exit(cf)!Publishing(Exit(cf)!Due(s)),
         st.detached => s.detached
  PROVE  /\ pushed' \in [Exit(cf)!Subjects -> Nat]
         /\ st' \in [detached : BOOLEAN, closing : BOOLEAN, released : BOOLEAN,
                     pending : cf.Requests \cup {"none"}, told : SUBSET cf.Requests,
                     terminal : Exit(cf)!Ends \cup {"none"}, ended : BOOLEAN, acked : BOOLEAN]
         /\ st'.detached = s.detached /\ st'.closing = s.closing /\ st'.released = s.released
         /\ st'.pending = s.pending /\ st'.terminal = s.terminal /\ st'.acked = s.acked
         /\ ~s.detached => pushed' = pushed
         /\ \A r \in cf.Requests : pushed'[r] <= 1 /\ (r \notin st'.told => pushed'[r] = 0)
         /\ pushed'["end"] <= 1 /\ (~st'.ended => pushed'["end"] = 0)
         /\ wrote => pushed'["end"] = 0
         /\ Exit(cf)!OneExit'
         /\ Exit(cf)!Due(s) = {} => pushed' = pushed
  <1> DEFINE due == Exit(cf)!Due(s)
  <1>1. due \subseteq Exit(cf)!Subjects BY DEF Exit!Due, Exit!None, Exit!Subjects
  <1>2. pushed \in [Exit(cf)!Subjects -> Nat] BY DEF PushTypes, Exit!TypeOK
  <1>3. \A r \in cf.Requests : r # "end" BY DEF Exit!Shape
  <1>4. \A r \in due \ {"end"} : r \in cf.Requests /\ r \notin s.told /\ s.detached
    BY <1>3 DEF Exit!Due, Exit!None
  <1>5. "end" \in due => ~s.ended /\ ~s.acked /\ s.detached
    BY <1>3 DEF Exit!Due, Exit!None
  <1>6. \A x \in Exit(cf)!Subjects :
          pushed'[x] = IF x \in due /\ ~Exit(cf)!Owned(x) THEN pushed[x] + 1 ELSE pushed[x]
    BY DEF Exit!Publishing
  <1>7. st' = [s EXCEPT !.told = s.told \cup (due \ {"end"}), !.ended = s.ended \/ "end" \in due]
    BY DEF Exit!Told
  <1> HIDE DEF due
  <1>8. /\ st'.detached = s.detached /\ st'.closing = s.closing /\ st'.released = s.released
        /\ st'.pending = s.pending /\ st'.terminal = s.terminal /\ st'.acked = s.acked
        /\ st'.told = s.told \cup (due \ {"end"}) /\ (st'.ended <=> s.ended \/ "end" \in due)
    BY <1>7
  <1>9. due \ {"end"} \in SUBSET cf.Requests BY <1>4
  <1>10. st' \in [detached : BOOLEAN, closing : BOOLEAN, released : BOOLEAN,
                  pending : cf.Requests \cup {"none"}, told : SUBSET cf.Requests,
                  terminal : Exit(cf)!Ends \cup {"none"}, ended : BOOLEAN, acked : BOOLEAN]
    BY <1>7, <1>9
  <1>11. pushed' \in [Exit(cf)!Subjects -> Nat]
    BY <1>2 DEF Exit!Publishing
  <1>12. \A r \in cf.Requests : r \in Exit(cf)!Subjects BY DEF Exit!Subjects
  <1>13. "end" \in Exit(cf)!Subjects BY DEF Exit!Subjects
  <1>14. ASSUME NEW r \in cf.Requests
         PROVE  pushed'[r] <= 1 /\ (r \notin st'.told => pushed'[r] = 0)
    BY <1>2, <1>12, <1>3, <1>4, <1>8, <1>6 DEF PushFacts
  <1>15. pushed'["end"] <= 1 /\ (~st'.ended => pushed'["end"] = 0)
    BY <1>2, <1>13, <1>5, <1>6, <1>8 DEF PushFacts
  <1>16. wrote => pushed'["end"] = 0
    BY <1>5, <1>6, <1>13 DEF PushFacts
  <1>17. ~s.detached => due = {} BY <1>4, <1>5
  <1>18. due = {} => pushed' = pushed
    <2> SUFFICES ASSUME due = {} PROVE pushed' = pushed OBVIOUS
    <2>1. \A x \in Exit(cf)!Subjects : pushed'[x] = pushed[x] BY <1>6
    <2> QED BY <2>1, <1>2, <1>11
  <1>19. Exit(cf)!OneExit'
    BY <1>3, <1>6, <1>12, <1>13 DEF PushFacts, Exit!OneExit, Exit!Owned
  <1> QED BY <1>8, <1>10, <1>11, <1>14, <1>15, <1>16, <1>17, <1>18, <1>19 DEF due

\* The state a posted status leads to, before what it owes is published.
After(cf, status) ==
    IF status \in cf.Requests THEN [st EXCEPT !.pending = status]
    ELSE IF status = "running" THEN [st EXCEPT !.pending = "none"]
    ELSE [st EXCEPT !.pending = "none",
                    !.terminal = IF @ = "none" THEN status ELSE @]

State(cf) == [detached : BOOLEAN, closing : BOOLEAN, released : BOOLEAN,
              pending : cf.Requests \cup {"none"}, told : SUBSET cf.Requests,
              terminal : Exit(cf)!Ends \cup {"none"}, ended : BOOLEAN, acked : BOOLEAN]

LEMMA AfterIs ==
  ASSUME NEW cf, Exit(cf)!Shape, PushTypes(cf), NEW status \in Statuses(cf)
  PROVE  /\ After(cf, status) \in State(cf)
         /\ After(cf, status).detached = st.detached /\ After(cf, status).told = st.told
         /\ After(cf, status).ended = st.ended /\ After(cf, status).acked = st.acked
         /\ After(cf, status).closing = st.closing /\ After(cf, status).released = st.released
         /\ After(cf, status).pending = IF status \in cf.Requests THEN status ELSE "none"
         /\ After(cf, status).terminal =
              IF status \in Exit(cf)!Ends /\ st.terminal = "none" THEN status ELSE st.terminal
  <1>1. st \in State(cf) BY DEF PushTypes, Exit!TypeOK, Exit!None, State
  <1>2. /\ \A r \in cf.Requests : r \notin {"none", "end", "running", "completed", "failed", "cancelled"}
    BY DEF Exit!Shape
  <1>3. CASE status \in cf.Requests
    BY <1>2, <1>3, <1>1 DEF Exit!Ends, After, State
  <1>4. CASE status = "running"
    BY <1>2, <1>4, <1>1 DEF Exit!Ends, After, State
  <1>5. CASE status \in Exit(cf)!Ends
    BY <1>2, <1>5, <1>1 DEF Exit!Ends, After, State
  <1> QED BY <1>3, <1>4, <1>5 DEF Statuses

\* A transition takes the first posted status.
LEMMA Transits ==
  ASSUME NEW cf, Exit(cf)!Shape, PushTypes(cf), PushFacts(cf), Exit(cf)!Transition
  PROVE  /\ posted # <<>> /\ Head(posted) \in Statuses(cf) /\ posted' = Tail(posted)
         /\ Head(posted) = posted[1]
         /\ Len(posted') = Len(posted) - 1 /\ Len(posted) \in Nat \ {0}
         /\ \A i \in 1..Len(posted') : i + 1 \in 1..Len(posted) /\ posted'[i] = posted[i + 1]
         /\ Exit(cf)!Open =>
              /\ st' = Exit(cf)!Told(After(cf, Head(posted)), Exit(cf)!Due(After(cf, Head(posted))))
              /\ Exit(cf)!Publishing(Exit(cf)!Due(After(cf, Head(posted))))
         /\ ~Exit(cf)!Open => UNCHANGED <<st, pushed>>
         /\ UNCHANGED <<worker, asked, sse, socket, wrote, discard, closed>>
  BY DEF Exit!Transition, PushTypes, After, Exit!None

\* What a transition on the loop makes of the state of an open run.
LEMMA TransitsTo ==
  ASSUME NEW cf, Exit(cf)!Shape, PushTypes(cf), PushFacts(cf), Exit(cf)!Transition, Exit(cf)!Open
  PROVE  /\ pushed' \in [Exit(cf)!Subjects -> Nat] /\ st' \in State(cf)
         /\ st'.detached = st.detached /\ st'.closing = st.closing
         /\ st'.released = st.released /\ st'.acked = st.acked
         /\ st'.pending = IF Head(posted) \in cf.Requests THEN Head(posted) ELSE "none"
         /\ st'.terminal = IF Head(posted) \in Exit(cf)!Ends /\ st.terminal = "none"
                           THEN Head(posted) ELSE st.terminal
         /\ ~st.detached => pushed' = pushed
         /\ \A r \in cf.Requests : pushed'[r] <= 1 /\ (r \notin st'.told => pushed'[r] = 0)
         /\ pushed'["end"] <= 1 /\ (~st'.ended => pushed'["end"] = 0)
         /\ wrote => pushed'["end"] = 0
         /\ Exit(cf)!OneExit'
         /\ st'.pending = "none" /\ st'.terminal = "cancelled" => pushed' = pushed
  <1> DEFINE s == After(cf, Head(posted))
  <1>1. /\ Head(posted) \in Statuses(cf)
        /\ st' = Exit(cf)!Told(s, Exit(cf)!Due(s)) /\ Exit(cf)!Publishing(Exit(cf)!Due(s))
    BY Transits
  <1>2. /\ s \in State(cf) /\ s.detached = st.detached /\ s.told = st.told
        /\ s.ended = st.ended /\ s.acked = st.acked
        /\ s.closing = st.closing /\ s.released = st.released
        /\ s.pending = IF Head(posted) \in cf.Requests THEN Head(posted) ELSE "none"
        /\ s.terminal = IF Head(posted) \in Exit(cf)!Ends /\ st.terminal = "none"
                        THEN Head(posted) ELSE st.terminal
    BY <1>1, AfterIs
  <1> HIDE DEF s
  <1>3. s.pending = "none" /\ s.terminal = "cancelled" => Exit(cf)!Due(s) = {}
    BY DEF Exit!Due, Exit!None
  <1> QED BY <1>1, <1>2, <1>3, Published DEF State

LEMMA Detaches ==
  ASSUME NEW cf, Exit(cf)!Shape, PushTypes(cf), PushFacts(cf), Exit(cf)!SocketFails
  PROVE  /\ pushed' \in [Exit(cf)!Subjects -> Nat] /\ st' \in State(cf)
         /\ st'.closing = st.closing /\ st'.released = st.released /\ st'.acked = st.acked
         /\ st'.pending = st.pending /\ st'.terminal = st.terminal
         /\ ~st'.detached => \A x \in Exit(cf)!Subjects : pushed'[x] = 0
         /\ \A r \in cf.Requests : pushed'[r] <= 1 /\ (r \notin st'.told => pushed'[r] = 0)
         /\ pushed'["end"] <= 1 /\ (~st'.ended => pushed'["end"] = 0)
         /\ wrote => pushed'["end"] = 0
         /\ Exit(cf)!OneExit'
         /\ ~Exit(cf)!Open \/ (st.pending = "none" /\ st.terminal = "cancelled") =>
              pushed' = pushed
         /\ discard' \in BOOLEAN
         /\ socket' = "gone" /\ UNCHANGED <<worker, asked, posted, sse, wrote, closed>>
  <1>1. /\ socket' = "gone" /\ UNCHANGED <<worker, asked, posted, sse, wrote, closed>>
    BY DEF Exit!SocketFails
  <1>2. st \in State(cf) /\ pushed \in [Exit(cf)!Subjects -> Nat] /\ discard \in BOOLEAN
    BY DEF PushTypes, Exit!TypeOK, Exit!None, State
  <1>3. CASE Exit(cf)!Open /\ ~st.detached
    <2> DEFINE s == [st EXCEPT !.detached = TRUE]
    <2>1. /\ st' = Exit(cf)!Told(s, Exit(cf)!Due(s)) /\ Exit(cf)!Publishing(Exit(cf)!Due(s))
          /\ discard' = TRUE
      BY <1>3 DEF Exit!SocketFails, Exit!Detach
    <2>2. /\ s \in State(cf) /\ s.detached = TRUE /\ s.told = st.told
          /\ s.ended = st.ended /\ s.acked = st.acked
          /\ s.closing = st.closing /\ s.released = st.released
          /\ s.pending = st.pending /\ s.terminal = st.terminal
      BY <1>2 DEF State
    <2> HIDE DEF s
    <2>3. s.pending = "none" /\ s.terminal = "cancelled" => Exit(cf)!Due(s) = {}
      BY DEF Exit!Due, Exit!None
    <2>4. /\ pushed' \in [Exit(cf)!Subjects -> Nat] /\ st' \in State(cf)
          /\ st'.detached = s.detached /\ st'.closing = s.closing /\ st'.released = s.released
          /\ st'.pending = s.pending /\ st'.terminal = s.terminal /\ st'.acked = s.acked
          /\ \A r \in cf.Requests : pushed'[r] <= 1 /\ (r \notin st'.told => pushed'[r] = 0)
          /\ pushed'["end"] <= 1 /\ (~st'.ended => pushed'["end"] = 0)
          /\ wrote => pushed'["end"] = 0
          /\ Exit(cf)!OneExit'
          /\ Exit(cf)!Due(s) = {} => pushed' = pushed
      BY <2>2, <1>3, <2>1, Published DEF State
    <2> QED BY <1>1, <1>3, <2>1, <2>2, <2>3, <2>4
  <1>4. CASE ~(Exit(cf)!Open /\ ~st.detached)
    BY <1>4, <1>1, <1>2 DEF Exit!SocketFails, Exit!Detach, PushFacts, Exit!OneExit
  <1> QED BY <1>3, <1>4

\* A status write appends to what was posted.
LEMMA Posts ==
  ASSUME NEW cf, PushTypes(cf), NEW status \in Statuses(cf), posted' = Append(posted, status)
  PROVE  /\ posted' \in Seq(Statuses(cf)) /\ Len(posted') = Len(posted) + 1 /\ Len(posted) \in Nat
         /\ \A i \in 1..Len(posted) : posted'[i] = posted[i]
         /\ posted'[Len(posted) + 1] = status
  BY DEF PushTypes

LEMMA PushTypesKept ==
  ASSUME NEW cf, Exit(cf)!Shape, PushTypes(cf), PushFacts(cf), [Exit(cf)!Next]_(Exit(cf)!vars)
  PROVE  PushTypes(cf)'
  <1>1. /\ worker \in {"running"} \cup cf.Requests \cup Exit(cf)!Ends
        /\ asked \subseteq cf.Requests
        /\ socket \in {"preparing", "open", "gone", "closed"} /\ wrote \in BOOLEAN
        /\ st \in State(cf) /\ discard \in BOOLEAN /\ closed \in BOOLEAN
        /\ pushed \in [Exit(cf)!Subjects -> Nat]
        /\ posted \in Seq(Statuses(cf)) /\ sse \in Seq({"frame", "terminal"})
    BY DEF PushTypes, Exit!TypeOK, Exit!None, State
  <1> DEFINE P == /\ worker' \in {"running"} \cup cf.Requests \cup Exit(cf)!Ends
                  /\ asked' \subseteq cf.Requests
                  /\ socket' \in {"preparing", "open", "gone", "closed"} /\ wrote' \in BOOLEAN
                  /\ st' \in State(cf) /\ discard' \in BOOLEAN /\ closed' \in BOOLEAN
                  /\ pushed' \in [Exit(cf)!Subjects -> Nat]
                  /\ posted' \in Seq(Statuses(cf)) /\ sse' \in Seq({"frame", "terminal"})
  <1> SUFFICES P BY DEF PushTypes, Exit!TypeOK, Exit!None, Exit!Subjects, Exit!Ends, State, Statuses
  <1>2. ASSUME NEW r \in cf.Requests, Exit(cf)!Asks(r) PROVE P
    BY <1>2, Posts, <1>1 DEF Statuses, Exit!Asks, Exit!SetStatus
  <1>3. CASE Exit(cf)!Resumes
    BY <1>3, Posts, <1>1 DEF Statuses, Exit!Resumes, Exit!SetStatus
  <1>4. CASE Exit(cf)!Repeats
    BY <1>1, <1>4, Posts DEF Statuses, Exit!Repeats, Exit!SetStatus
  <1>5. ASSUME NEW e \in Exit(cf)!Ends, Exit(cf)!Finishes(e) PROVE P
    BY <1>5, Posts, <1>1 DEF Statuses, Exit!Finishes, Exit!SetStatus
  <1>6. CASE Exit(cf)!Transition
    <2>1. /\ posted # <<>> /\ posted' = Tail(posted)
          /\ ~Exit(cf)!Open => UNCHANGED <<st, pushed>>
          /\ UNCHANGED <<worker, asked, sse, socket, wrote, discard, closed>>
      BY <1>6, Transits
    <2>2. st' \in State(cf) /\ pushed' \in [Exit(cf)!Subjects -> Nat]
      BY <1>1, <1>6, <2>1, TransitsTo
    <2>3. posted' \in Seq(Statuses(cf)) BY <1>1, <2>1
    <2> QED BY <1>1, <2>1, <2>2, <2>3
  <1>7. CASE Exit(cf)!Prepares BY <1>1, <1>7 DEF Exit!Prepares
  <1>8. CASE Exit(cf)!Writes
    <2>1. sse' \in Seq({"frame", "terminal"}) BY <1>1, <1>8 DEF Exit!Writes
    <2>2. st' \in State(cf) BY <1>1, <1>8 DEF Exit!Writes, State
    <2> QED BY <1>1, <1>8, <2>1, <2>2 DEF Exit!Writes
  <1>9. CASE Exit(cf)!StreamEnds BY <1>1, <1>9 DEF Exit!StreamEnds
  <1>10. CASE Exit(cf)!SocketFails
    BY <1>10, Detaches, <1>1
  <1>11. CASE Exit(cf)!Discards
    BY <1>1, <1>11 DEF Exit!Discards
  <1>12. CASE Exit(cf)!Stops BY <1>1, <1>12 DEF Exit!Stops, State
  <1>13. CASE Exit(cf)!Evict BY <1>1, <1>13 DEF Exit!Evict, State
  <1>14. CASE Exit(cf)!Unload BY <1>1, <1>14 DEF Exit!Unload, State
  <1>15. CASE UNCHANGED Exit(cf)!vars BY <1>1, <1>15 DEF Exit!vars
  <1> HIDE DEF P
  <1> QED
    BY <1>2, <1>3, <1>4, <1>5, <1>6, <1>7, <1>8, <1>9, <1>10, <1>11, <1>12, <1>13, <1>14, <1>15
    DEF Exit!Next

LEMMA EndFactsKept ==
  ASSUME NEW cf, Exit(cf)!Shape, PushInv(cf), [Exit(cf)!Next]_(Exit(cf)!vars)
  PROVE  EndFacts(cf)'
  <1>1. PushTypes(cf) /\ EndFacts(cf) /\ PushFacts(cf) BY DEF PushInv
  <1>2. /\ posted \in Seq(Statuses(cf)) /\ Len(posted) \in Nat
        /\ worker \in {"running"} \cup cf.Requests \cup Exit(cf)!Ends
        /\ st \in State(cf)
    BY <1>1 DEF PushTypes, Exit!TypeOK, State, Exit!None
  <1>3. \A r \in cf.Requests : r \notin Exit(cf)!Ends BY DEF Exit!Shape, Exit!Ends
  <1>4. "running" \notin Exit(cf)!Ends BY DEF Exit!Ends
  <1>5. CASE UNCHANGED <<worker, posted>> /\ st'.terminal = st.terminal /\ st'.pending = st.pending
    BY <1>1, <1>5 DEF EndFacts, Exit!Ends
  <1>6. ASSUME NEW x \in Statuses(cf), worker \notin Exit(cf)!Ends, worker' = x,
               posted' = Append(posted, x), st' = st
        PROVE  EndFacts(cf)'
    BY <1>1, <1>6, Posts, <1>2 DEF EndFacts, Exit!Ends
  <1>7. ASSUME NEW r \in cf.Requests, Exit(cf)!Asks(r) PROVE EndFacts(cf)'
    BY <1>4, <1>6, <1>7 DEF Statuses, Exit!Asks, Exit!SetStatus
  <1>8. CASE Exit(cf)!Resumes
    BY <1>3, <1>6, <1>8 DEF Statuses, Exit!Resumes, Exit!SetStatus
  <1>9. CASE Exit(cf)!Repeats
    <2>1. worker \in Statuses(cf) /\ worker' = worker /\ posted' = Append(posted, worker) /\ st' = st
      BY <1>2, <1>9 DEF Statuses, Exit!Repeats, Exit!SetStatus
    <2>2. CASE worker \notin Exit(cf)!Ends BY <1>6, <2>1, <2>2
    <2>3. CASE worker \in Exit(cf)!Ends
      BY <1>1, <2>1, Posts, <1>2, <2>3 DEF EndFacts, Exit!Ends
    <2> QED BY <2>2, <2>3
  <1>10. ASSUME NEW e \in Exit(cf)!Ends, Exit(cf)!Finishes(e) PROVE EndFacts(cf)'
    BY <1>3, <1>4, <1>6, <1>10 DEF Statuses, Exit!Finishes, Exit!SetStatus
  <1>11. CASE Exit(cf)!Transition
    <2>1. /\ Len(posted') = Len(posted) - 1 /\ Len(posted) \in Nat \ {0} /\ Head(posted) = posted[1]
          /\ \A i \in 1..Len(posted') : i + 1 \in 1..Len(posted) /\ posted'[i] = posted[i + 1]
          /\ worker' = worker /\ Head(posted) \in Statuses(cf)
          /\ ~Exit(cf)!Open => st' = st
      BY <1>1, <1>11, Transits
    <2>2. Exit(cf)!Open =>
            /\ st'.pending = IF Head(posted) \in cf.Requests THEN Head(posted) ELSE "none"
            /\ st'.terminal = IF Head(posted) \in Exit(cf)!Ends /\ st.terminal = "none"
                              THEN Head(posted) ELSE st.terminal
      BY <1>1, <1>11, TransitsTo
    <2>3. 1 \in 1..Len(posted) BY <2>1
    <2>4. worker \notin Exit(cf)!Ends =>
            /\ \A i \in 1..Len(posted') : posted'[i] \notin Exit(cf)!Ends
            /\ st'.terminal = "none"
      BY <1>1, <2>1, <2>2, <2>3 DEF EndFacts
    <2>5. \A i, j \in 1..Len(posted') :
            i < j /\ posted'[i] \in Exit(cf)!Ends => posted'[j] \in Exit(cf)!Ends
      <3> SUFFICES ASSUME NEW i \in 1..Len(posted'), NEW j \in 1..Len(posted'), i < j,
                          posted'[i] \in Exit(cf)!Ends
                   PROVE  posted'[j] \in Exit(cf)!Ends
        OBVIOUS
      <3>1. i + 1 < j + 1 /\ i + 1 \in 1..Len(posted) /\ j + 1 \in 1..Len(posted) BY <2>1
      <3> QED BY <1>1, <2>1, <3>1 DEF EndFacts
    <2>6. ASSUME Head(posted) \in Exit(cf)!Ends
          PROVE  \A i \in 1..Len(posted') : posted'[i] \in Exit(cf)!Ends
      <3> TAKE i \in 1..Len(posted')
      <3>1. 1 < i + 1 /\ i + 1 \in 1..Len(posted) /\ posted'[i] = posted[i + 1] BY <2>1
      <3> QED BY <1>1, <2>1, <2>3, <2>6, <3>1 DEF EndFacts
    <2>7. st.terminal # "none" => Head(posted) \in Exit(cf)!Ends BY <1>1, <2>1, <2>3 DEF EndFacts
    <2>8. st'.terminal # "none" => st.terminal # "none" \/ Head(posted) \in Exit(cf)!Ends
      BY <2>1, <2>2
    <2>9. st'.terminal # "none" =>
            /\ st'.pending = "none"
            /\ \A i \in 1..Len(posted') : posted'[i] \in Exit(cf)!Ends
      BY <1>3, <1>1, <2>1, <2>2, <2>6, <2>7, <2>8 DEF EndFacts
    <2> QED BY <2>1, <2>4, <2>5, <2>9 DEF EndFacts, Exit!Ends
  <1>12. CASE Exit(cf)!SocketFails
    BY <1>1, <1>12, Detaches, <1>5
  <1>13. CASE \/ Exit(cf)!Prepares \/ Exit(cf)!Writes \/ Exit(cf)!StreamEnds \/ Exit(cf)!Discards
              \/ Exit(cf)!Stops \/ Exit(cf)!Evict \/ Exit(cf)!Unload
    BY <1>2, <1>13, <1>5 DEF State, Exit!Prepares, Exit!Writes, Exit!StreamEnds, Exit!Discards,
       Exit!Stops, Exit!Evict, Exit!Unload
  <1>14. CASE UNCHANGED Exit(cf)!vars BY <1>5, <1>14 DEF Exit!vars
  <1> QED BY <1>7, <1>8, <1>9, <1>10, <1>11, <1>12, <1>13, <1>14 DEF Exit!Next

LEMMA PushFactsKept ==
  ASSUME NEW cf, Exit(cf)!Shape, PushInv(cf), [Exit(cf)!Next]_(Exit(cf)!vars)
  PROVE  PushFacts(cf)'
  <1>1. PushTypes(cf) /\ EndFacts(cf) /\ PushFacts(cf) BY DEF PushInv
  <1>2. st \in State(cf) /\ pushed \in [Exit(cf)!Subjects -> Nat]
    BY <1>1 DEF PushTypes, Exit!TypeOK, State, Exit!None
  <1>3. ASSUME UNCHANGED <<pushed, wrote>>,
               st'.detached = st.detached, st'.told = st.told, st'.ended = st.ended,
               st.acked => st'.acked, Exit(cf)!Open' => Exit(cf)!Open,
               socket = "gone" => socket' = "gone"
        PROVE  PushFacts(cf)'
    BY <1>1, <1>3 DEF PushFacts, Exit!OneExit, Exit!Subjects
  <1>4. CASE Exit(cf)!Transition
    <2>1. /\ UNCHANGED <<socket, wrote, closed>>
          /\ ~Exit(cf)!Open => UNCHANGED <<st, pushed>>
      BY <1>1, <1>4, Transits
    <2>2. CASE ~Exit(cf)!Open BY <1>3, <2>1, <2>2 DEF Exit!Open
    <2>3. CASE Exit(cf)!Open
      BY <1>1, <1>4, <2>3, TransitsTo, <2>1 DEF PushFacts, Exit!Subjects
    <2> QED BY <2>2, <2>3
  <1>5. CASE Exit(cf)!SocketFails
    BY <1>1, <1>5, Detaches DEF PushFacts, Exit!Subjects, Exit!Open
  <1>6. CASE Exit(cf)!Writes
    <2>1. socket = "open" /\ socket' = socket /\ pushed' = pushed /\ closed' = closed
      BY <1>6 DEF Exit!Writes
    <2>2. ~st.detached /\ \A x \in Exit(cf)!Subjects : pushed[x] = 0 BY <1>1, <2>1 DEF PushFacts
    <2>3. /\ st'.detached = st.detached /\ st'.told = st.told /\ st'.ended = st.ended
          /\ st'.closing = st.closing /\ st'.released = st.released /\ (st.acked => st'.acked)
      BY <1>2, <1>6 DEF Exit!Writes, State
    <2>4. wrote' => st'.acked \/ ~Exit(cf)!Open'
      <3>1. CASE Head(sse) = "terminal" /\ Exit(cf)!Open
        BY <1>6, <3>1, <1>2 DEF Exit!Writes, Exit!Acked, Exit!Open, Exit!None, State
      <3>2. CASE ~Exit(cf)!Open BY <2>1, <2>3, <3>2 DEF Exit!Open
      <3>3. CASE Head(sse) # "terminal"
        BY <1>1, <1>6, <3>3, <2>1, <2>3 DEF Exit!Writes, PushTypes, Exit!TypeOK, PushFacts, Exit!Open
      <3> QED BY <3>1, <3>2, <3>3
    <2>5. "end" \in Exit(cf)!Subjects BY DEF Exit!Subjects
    <2> QED BY <1>1, <2>1, <2>2, <2>3, <2>4, <2>5 DEF PushFacts, Exit!OneExit, Exit!Subjects
  <1>7. CASE \/ \E r \in cf.Requests : Exit(cf)!Asks(r)
             \/ Exit(cf)!Resumes \/ Exit(cf)!Repeats
             \/ \E e \in Exit(cf)!Ends : Exit(cf)!Finishes(e)
             \/ Exit(cf)!Prepares \/ Exit(cf)!StreamEnds \/ Exit(cf)!Discards
    BY <1>3, <1>7
    DEF Exit!Asks, Exit!Resumes, Exit!Repeats, Exit!Finishes, Exit!Prepares, Exit!StreamEnds,
        Exit!Discards, Exit!Open
  <1>8. CASE Exit(cf)!Stops
    BY <1>2, <1>8, <1>3 DEF Exit!Stops, State, Exit!Open
  <1>9. CASE Exit(cf)!Evict \/ Exit(cf)!Unload
    BY <1>2, <1>9, <1>3 DEF Exit!Evict, Exit!Unload, State, Exit!Open
  <1>10. CASE UNCHANGED Exit(cf)!vars BY <1>3, <1>10 DEF Exit!vars, Exit!Open
  <1> QED BY <1>4, <1>5, <1>6, <1>7, <1>8, <1>9, <1>10 DEF Exit!Next

LEMMA PushKept ==
  ASSUME NEW cf, Exit(cf)!Shape, PushInv(cf), [Exit(cf)!Next]_(Exit(cf)!vars)
  PROVE  PushInv(cf)'
  BY PushTypesKept, EndFactsKept, PushFactsKept DEF PushInv

LEMMA PushImplies ==
  ASSUME NEW cf, PushInv(cf)
  PROVE  /\ Exit(cf)!TypeOK /\ Exit(cf)!AtMostOne /\ Exit(cf)!SeenIsNotPushed
         /\ Exit(cf)!ConnectedIsQuiet /\ Exit(cf)!OneExit
  BY DEF PushInv, PushTypes, PushFacts, Exit!AtMostOne, Exit!SeenIsNotPushed,
         Exit!ConnectedIsQuiet, Exit!Subjects

LEMMA StoppedStaysQuiet ==
  ASSUME NEW cf, Exit(cf)!Shape, PushInv(cf), [Exit(cf)!Next]_(Exit(cf)!vars)
  PROVE  Exit(cf)!StoppedIsQuiet
  <1> SUFFICES ASSUME st.closing \/ st.terminal = "cancelled" PROVE pushed' = pushed
    BY DEF Exit!StoppedIsQuiet
  <1>1. PushTypes(cf) /\ EndFacts(cf) /\ PushFacts(cf) BY DEF PushInv
  <1>2. ~Exit(cf)!Open \/ (st.pending = "none" /\ st.terminal = "cancelled")
    BY <1>1 DEF EndFacts, Exit!Open
  <1>3. CASE Exit(cf)!Transition
    <2>1. ~Exit(cf)!Open => pushed' = pushed BY <1>1, <1>3, Transits
    <2>2. CASE Exit(cf)!Open
      <3>1. /\ Head(posted) = posted[1] /\ Len(posted) \in Nat \ {0} BY <1>1, <1>3, Transits
      <3>2. Head(posted) \in Exit(cf)!Ends BY <1>1, <1>2, <2>2, <3>1 DEF EndFacts
      <3>3. Head(posted) \notin cf.Requests BY <3>2 DEF Exit!Shape, Exit!Ends
      <3>4. st'.pending = "none" /\ st'.terminal = "cancelled"
        BY <1>1, <1>3, <2>2, TransitsTo, <1>2, <3>3
      <3> QED BY <1>1, <1>3, <2>2, <3>4, TransitsTo
    <2> QED BY <2>1, <2>2
  <1>4. CASE Exit(cf)!SocketFails BY <1>1, <1>2, <1>4, Detaches
  <1>5. CASE UNCHANGED Exit(cf)!vars BY <1>5 DEF Exit!vars
  <1> QED
    BY <1>3, <1>4, <1>5
    DEF Exit!Next, Exit!Asks, Exit!Resumes, Exit!Repeats, Exit!Finishes, Exit!Prepares,
        Exit!Writes, Exit!StreamEnds, Exit!Discards, Exit!Stops, Exit!Evict, Exit!Unload

-----------------------------------------------------------------------------
(* Notifications.                                                          *)

Happening == [live : BOOLEAN, change : Nat, read : BOOLEAN, aged : BOOLEAN]
Delivery(cf) == [state : Ledger(cf)!States, by : cf.Devices \cup {"server", "nobody"},
                 token : cf.Devices \cup {"nobody"}, reporter : cf.Devices \cup {"nobody"}]
Subject(cf) == cf.Events \cup {Ledger(cf)!NoEventId}
Call(cf) == [pc : {"idle", "reminds", "record", "read", "state", "claim", "publish", "note"},
             e : Subject(cf), phase : Ledger(cf)!Phases, chan : Ledger(cf)!Channels,
             outcome : {"none", "enqueued", "failed"}, late : BOOLEAN]
Known(cf) == [cf.Events -> {"nothing", "unread", "read"}]
Device(cf) == [cursor : Nat, known : Known(cf), claim : Subject(cf), holds : Subject(cf)]
RunsOf(cf) == {cf.Run[e] : e \in cf.Events}

NoticeTypes(cf) ==
    /\ event \in [cf.Events -> Happening] /\ nextSeq \in Nat \ {0}
    /\ row \in [Ledger(cf)!Rows -> Delivery(cf)]
    /\ prod \in [cf.Producers -> Call(cf)]
    /\ \A p \in cf.Producers : prod[p].pc # "idle" => prod[p].e \in cf.Events
    /\ dev \in [cf.Devices -> Device(cf)]
    /\ alerts \in [Ledger(cf)!Rows -> Nat] /\ entered \subseteq Ledger(cf)!Rows
    /\ backlog \in Seq(Ledger(cf)!Rows) /\ watchers \in Seq(RunsOf(cf)) /\ ntfyOn \in BOOLEAN

\* Changes are numbered in order, what was read is recorded or archived, and
\* only what was read grows old.
EventFacts(cf) ==
    /\ \A e \in cf.Events : /\ event[e].live => event[e].change < nextSeq
                            /\ event[e].read => event[e].live \/ event[e].aged
                            /\ event[e].aged => event[e].read
    /\ \A e, f \in cf.Events :
          event[e].live /\ event[f].live /\ event[e].change = event[f].change => e = f

\* A call is about an event that is not archived. One that began after the
\* event was read goes no further than the read check; one that publishes owns
\* a row whose alert was not accepted yet.
CallFact(cf, p) ==
    /\ prod[p].pc # "idle" =>
          /\ ~event[prod[p].e].aged
          /\ prod[p].late => event[prod[p].e].live /\ event[prod[p].e].read
    /\ prod[p].pc \in {"state", "claim", "publish", "note"} => ~prod[p].late
    /\ prod[p].pc = "publish" =>
          /\ row[Ledger(cf)!RowOf(p)].state = "claimed"
          /\ row[Ledger(cf)!RowOf(p)].by = "server"
          /\ Ledger(cf)!RowOf(p) \notin entered /\ alerts[Ledger(cf)!RowOf(p)] = 0
    /\ prod[p].pc = "note" =>
          /\ row[Ledger(cf)!RowOf(p)].state \notin {"none", "pending"}
          /\ row[Ledger(cf)!RowOf(p)].by = "server"
          /\ \/ prod[p].outcome = "enqueued" /\ Ledger(cf)!RowOf(p) \in entered
             \/ prod[p].outcome = "failed" /\ Ledger(cf)!RowOf(p) \notin entered
CallFacts(cf) == \A p \in cf.Producers : CallFact(cf, p)

\* Two calls never publish for one row.
Publishes(p) == prod[p].pc \in {"publish", "note"}
Alone(cf) ==
    \A p, q \in cf.Producers :
        Publishes(p) /\ Publishes(q) /\ Ledger(cf)!RowOf(p) = Ledger(cf)!RowOf(q) => p = q

\* No claim of a device outlives its event.
ClaimFacts(cf) ==
    \A d \in cf.Devices : dev[d].claim # Ledger(cf)!NoEventId => ~event[dev[d].claim].aged

\* A row whose alert left stays claimed until its event is archived.
Archived(e) == event[e].aged /\ ~event[e].live
RowFact(cf, r) ==
    /\ Ledger(cf)!Claimable(r) => row[r].reporter = "nobody"
    /\ row[r].reporter \in {"nobody", row[r].by}
    /\ alerts[r] <= 1
    /\ r \in entered \/ alerts[r] # 0 => ~Ledger(cf)!Claimable(r) \/ Archived(r[1])
    /\ r[3] = "ntfy" => /\ row[r].state = "enqueued" => r \in entered
                        /\ row[r].state = "failed" => r \notin entered
RowFacts(cf) == \A r \in Ledger(cf)!Rows : RowFact(cf, r)

\* What waits in the queue has not been sent, and waits once.
QueueFacts ==
    /\ \A i \in 1..Len(backlog) : backlog[i] \in entered /\ alerts[backlog[i]] = 0
    /\ \A i, j \in 1..Len(backlog) : backlog[i] = backlog[j] => i = j

CursorFacts(cf) ==
    /\ \A d \in cf.Devices : dev[d].cursor < nextSeq
    /\ Ledger(cf)!CursorHonest

NoticeInv(cf) ==
    /\ NoticeTypes(cf) /\ EventFacts(cf) /\ CallFacts(cf) /\ Alone(cf) /\ ClaimFacts(cf)
    /\ RowFacts(cf) /\ QueueFacts /\ CursorFacts(cf) /\ Ledger(cf)!WatchersBounded

LEMMA RowsAre ==
  ASSUME NEW cf, NoticeTypes(cf)
  PROVE  /\ \A e \in cf.Events, ph \in Ledger(cf)!Phases, ch \in Ledger(cf)!Channels :
              <<e, ph, ch>> \in Ledger(cf)!Rows
         /\ \A r \in Ledger(cf)!Rows :
              /\ r[1] \in cf.Events /\ r[2] \in Ledger(cf)!Phases /\ r[3] \in Ledger(cf)!Channels
              /\ r = <<r[1], r[2], r[3]>>
              /\ row[r] \in Delivery(cf)
         /\ \A p \in cf.Producers :
              /\ prod[p] \in Call(cf) /\ Ledger(cf)!RowOf(p) = <<prod[p].e, prod[p].phase, prod[p].chan>>
              /\ prod[p].pc # "idle" =>
                   /\ prod[p].e \in cf.Events /\ Ledger(cf)!RowOf(p) \in Ledger(cf)!Rows
                   /\ Ledger(cf)!RowOf(p)[1] = prod[p].e /\ Ledger(cf)!RowOf(p)[3] = prod[p].chan
                   /\ event[prod[p].e] \in Happening
  <1>1. \A e \in cf.Events, ph \in Ledger(cf)!Phases, ch \in Ledger(cf)!Channels :
              <<e, ph, ch>> \in Ledger(cf)!Rows
    BY DEF Ledger!Rows
  <1>2. \A r \in Ledger(cf)!Rows :
              /\ r[1] \in cf.Events /\ r[2] \in Ledger(cf)!Phases /\ r[3] \in Ledger(cf)!Channels
              /\ r = <<r[1], r[2], r[3]>>
              /\ row[r] \in Delivery(cf)
    BY DEF Ledger!Rows, NoticeTypes
  <1>3. ASSUME NEW p \in cf.Producers
        PROVE  /\ prod[p] \in Call(cf) /\ Ledger(cf)!RowOf(p) = <<prod[p].e, prod[p].phase, prod[p].chan>>
               /\ prod[p].pc # "idle" =>
                   /\ prod[p].e \in cf.Events /\ Ledger(cf)!RowOf(p) \in Ledger(cf)!Rows
                   /\ Ledger(cf)!RowOf(p)[1] = prod[p].e /\ Ledger(cf)!RowOf(p)[3] = prod[p].chan
                   /\ event[prod[p].e] \in Happening
    BY <1>1 DEF NoticeTypes, Ledger!RowOf, Call
  <1> QED BY <1>1, <1>2, <1>3

\* The instance's own copies of the operators on finite sets.
LEMMA Finite == ASSUME NEW cf, NEW S PROVE Ledger(cf)!IsFiniteSet(S) <=> IsFiniteSet(S)
  BY DEF Ledger!IsFiniteSet, IsFiniteSet

LEMMA Cardinal == ASSUME NEW cf, NEW S PROVE Ledger(cf)!Cardinality(S) = Cardinality(S)
  BY DEF Ledger!Cardinality, Cardinality

LEMMA NoticesStart == ASSUME NEW cf, Ledger(cf)!Shape, Ledger(cf)!Init PROVE NoticeInv(cf)
  <1>1. Ledger(cf)!NoRow \in Delivery(cf)
    BY DEF Ledger!NoRow, Delivery, Ledger!States, Ledger!ClientOutcomes
  <1>2. Ledger(cf)!Idle \in Call(cf)
    BY DEF Ledger!Idle, Call, Subject, Ledger!Phases, Ledger!Channels
  <1>3. Ledger(cf)!NoEvent \in Happening BY DEF Ledger!NoEvent, Happening
  <1>4. event \in [cf.Events -> Happening] /\ \A e \in cf.Events : event[e] = Ledger(cf)!NoEvent
    BY <1>3 DEF Ledger!Init
  <1>5. row \in [Ledger(cf)!Rows -> Delivery(cf)] /\ \A r \in Ledger(cf)!Rows : row[r] = Ledger(cf)!NoRow
    BY <1>1 DEF Ledger!Init
  <1>6. prod \in [cf.Producers -> Call(cf)] /\ \A p \in cf.Producers : prod[p] = Ledger(cf)!Idle
    BY <1>2 DEF Ledger!Init
  <1>7. /\ dev \in [cf.Devices -> Device(cf)]
        /\ \A d \in cf.Devices : dev[d].cursor = 0 /\ dev[d].claim = Ledger(cf)!NoEventId
    BY DEF Ledger!Init, Device, Known, Subject
  <1>8. /\ alerts = [r \in Ledger(cf)!Rows |-> 0] /\ entered = {} /\ backlog = <<>> /\ watchers = <<>>
        /\ nextSeq = 1 /\ ntfyOn \in BOOLEAN
    BY DEF Ledger!Init
  <1>9. NoticeTypes(cf)
    BY <1>6, <1>4, <1>5, <1>7, <1>8 DEF Ledger!Idle, NoticeTypes
  <1>10. EventFacts(cf) BY <1>4 DEF EventFacts, Ledger!NoEvent
  <1>11. CallFacts(cf) /\ Alone(cf) BY <1>6 DEF CallFacts, CallFact, Alone, Publishes, Ledger!Idle
  <1>12. ClaimFacts(cf) BY <1>7 DEF ClaimFacts
  <1>13. RowFacts(cf) BY <1>5, <1>8 DEF RowFacts, RowFact, Ledger!NoRow
  <1>14. QueueFacts BY <1>8 DEF QueueFacts
  <1>15. CursorFacts(cf) BY <1>4, <1>7, <1>8 DEF CursorFacts, Ledger!CursorHonest, Ledger!NoEvent
  <1>16. Ledger(cf)!WatchersBounded
    <2>1. Len(watchers) = 0 BY <1>8
    <2>2. cf.MaxWatchers \in Nat BY DEF Ledger!Shape, Ledger!NoEventId
    <2> QED BY <2>1, <2>2 DEF Ledger!WatchersBounded
  <1> QED BY <1>9, <1>10, <1>11, <1>12, <1>13, <1>14, <1>15, <1>16 DEF NoticeInv

\* Taking a value out of a sequence without duplicates leaves one.
Distinct(s) == \A i, j \in 1..Len(s) : s[i] = s[j] => i = j

LEMMA DropIs ==
  ASSUME NEW cf, NEW S, NEW s \in Seq(S), NEW x
  PROVE  /\ Ledger(cf)!Drop(s, x) \in Seq(S) /\ Len(Ledger(cf)!Drop(s, x)) <= Len(s)
         /\ Len(s) \in Nat /\ Len(Ledger(cf)!Drop(s, x)) \in Nat
         /\ Distinct(s) =>
              /\ Distinct(Ledger(cf)!Drop(s, x))
              /\ \A i \in 1..Len(Ledger(cf)!Drop(s, x)) : Ledger(cf)!Drop(s, x)[i] # x
  <1> DEFINE t == Ledger(cf)!Drop(s, x)
  <1>1. CASE \E i \in 1..Len(s) : s[i] = x
    <2> DEFINE k == CHOOSE j \in 1..Len(s) : s[j] = x
    <2>1. k \in 1..Len(s) /\ s[k] = x BY <1>1
    <2>2. t = SubSeq(s, 1, k - 1) \o SubSeq(s, k + 1, Len(s)) BY <1>1 DEF Ledger!Drop
    <2> HIDE DEF k, t
    <2> DEFINE a == SubSeq(s, 1, k - 1)
               b == SubSeq(s, k + 1, Len(s))
    <2>3. Len(s) \in Nat /\ k \in Nat BY <2>1
    <2>4. a \in Seq(S) /\ Len(a) = k - 1 /\ \A i \in 1..(k - 1) : a[i] = s[i]
      BY <2>1, <2>3
    <2>5. b \in Seq(S) /\ Len(b) = Len(s) - k /\ \A i \in 1..(Len(s) - k) : b[i] = s[k + i]
      BY <2>1, <2>3
    <2> HIDE DEF a, b
    <2>8. t = a \o b BY <2>2 DEF a, b
    <2>9. Len(a) \in Nat /\ Len(b) \in Nat BY <2>4, <2>5
    <2>10. t \in Seq(S) /\ Len(t) = Len(a) + Len(b) BY <2>4, <2>5, <2>8
    <2>11. \A i \in 1..(Len(a) + Len(b)) : t[i] = IF i <= Len(a) THEN a[i] ELSE b[i - Len(a)]
      BY <2>4, <2>5, <2>8
    <2>12. Len(t) = Len(s) - 1 BY <2>1, <2>3, <2>4, <2>5, <2>10
    <2>6. t \in Seq(S) /\ Len(t) = Len(s) - 1
          /\ \A i \in 1..(Len(s) - 1) : t[i] = IF i < k THEN s[i] ELSE s[i + 1]
      <3>1. ASSUME NEW i \in 1..(Len(s) - 1) PROVE t[i] = IF i < k THEN s[i] ELSE s[i + 1]
        <4>1. i \in 1..(Len(a) + Len(b)) BY <2>10, <2>12
        <4>2. t[i] = IF i <= Len(a) THEN a[i] ELSE b[i - Len(a)] BY <2>11, <4>1
        <4>3. CASE i < k
          BY <4>3, <2>3, <2>4, <4>2
        <4>4. CASE ~(i < k)
          BY <4>4, <2>1, <2>3, <2>4, <2>5, <4>2
        <4> QED BY <4>3, <4>4
      <3> QED BY <2>10, <2>12, <3>1
    <2>7. ASSUME Distinct(s) PROVE Distinct(t) /\ \A i \in 1..Len(t) : t[i] # x
      <3> DEFINE m(i) == IF i < k THEN i ELSE i + 1
      <3>1. \A i \in 1..Len(t) : m(i) \in 1..Len(s) /\ m(i) # k /\ t[i] = s[m(i)]
        BY <2>1, <2>3, <2>6
      <3>2. \A i, j \in 1..Len(t) : m(i) = m(j) => i = j BY <2>1, <2>3, <2>6
      <3> HIDE DEF m
      <3>3. \A i, j \in 1..Len(s) : s[i] = s[j] => i = j BY <2>7 DEF Distinct
      <3>4. \A i, j \in 1..Len(t) : t[i] = t[j] => i = j BY <3>1, <3>2, <3>3
      <3>5. \A i \in 1..Len(t) : t[i] # x BY <2>1, <3>1, <3>3
      <3> QED BY <3>4, <3>5 DEF Distinct
    <2> QED BY <2>3, <2>6, <2>7 DEF t
  <1>2. CASE ~\E i \in 1..Len(s) : s[i] = x
    <2>1. t = s BY <1>2 DEF Ledger!Drop
    <2> QED BY <1>2, <2>1
  <1> QED BY <1>1, <1>2

\* A call that goes on, and one that returns.
LEMMA CallGoes ==
  ASSUME NEW cf, NoticeTypes(cf), NEW p \in cf.Producers, NEW pc,
         pc \in {"idle", "reminds", "record", "read", "state", "claim", "publish", "note"},
         Ledger(cf)!Goes(p, pc)
  PROVE  /\ prod' \in [cf.Producers -> Call(cf)] /\ watchers' = watchers
         /\ prod'[p].pc = pc /\ prod'[p].e = prod[p].e /\ prod'[p].phase = prod[p].phase
         /\ prod'[p].chan = prod[p].chan /\ prod'[p].outcome = prod[p].outcome
         /\ prod'[p].late = prod[p].late
         /\ \A q \in cf.Producers : q # p => prod'[q] = prod[q]
  BY DEF NoticeTypes, Ledger!Goes, Call

LEMMA CallReturns ==
  ASSUME NEW cf, NoticeTypes(cf), Ledger(cf)!WatchersBounded, cf.MaxWatchers \in Nat,
         NEW p \in cf.Producers, Ledger(cf)!Returns(p)
  PROVE  /\ prod' \in [cf.Producers -> Call(cf)] /\ prod'[p] = Ledger(cf)!Idle
         /\ prod'[p].pc = "idle"
         /\ \A q \in cf.Producers : q # p => prod'[q] = prod[q]
         /\ watchers' \in Seq(RunsOf(cf)) /\ Ledger(cf)!WatchersBounded'
  <1>1. prod \in [cf.Producers -> Call(cf)] /\ watchers \in Seq(RunsOf(cf)) BY DEF NoticeTypes
  <1>2. Ledger(cf)!Idle \in Call(cf) /\ Ledger(cf)!Idle.pc = "idle"
    BY DEF Ledger!Idle, Call, Subject, Ledger!Phases, Ledger!Channels
  <1>3. prod' = [prod EXCEPT ![p] = Ledger(cf)!Idle] BY DEF Ledger!Returns
  <1>4. watchers' = watchers \/ watchers' = Ledger(cf)!Drop(watchers, cf.Run[prod[p].e])
    BY DEF Ledger!Returns
  <1>5. Distinct(watchers) /\ Len(watchers) <= cf.MaxWatchers
    BY DEF Ledger!WatchersBounded, Distinct
  <1>6. watchers' \in Seq(RunsOf(cf)) /\ Len(watchers') <= cf.MaxWatchers /\ Distinct(watchers')
    <2>1. CASE watchers' = watchers BY <1>1, <1>5, <2>1
    <2>2. CASE watchers' = Ledger(cf)!Drop(watchers, cf.Run[prod[p].e])
      <3>1. /\ Ledger(cf)!Drop(watchers, cf.Run[prod[p].e]) \in Seq(RunsOf(cf))
            /\ Len(Ledger(cf)!Drop(watchers, cf.Run[prod[p].e])) <= Len(watchers)
            /\ Len(watchers) \in Nat /\ Len(Ledger(cf)!Drop(watchers, cf.Run[prod[p].e])) \in Nat
            /\ Distinct(Ledger(cf)!Drop(watchers, cf.Run[prod[p].e]))
        BY <1>1, <1>5, DropIs
      <3> QED BY <1>5, <2>2, <3>1
    <2> QED BY <1>4, <2>1, <2>2
  <1> QED BY <1>1, <1>2, <1>3, <1>6 DEF Ledger!WatchersBounded, Distinct

-----------------------------------------------------------------------------
(* What a step leaves as it was.                                           *)

LEMMA SameCall ==
  ASSUME NEW cf, NEW q, CallFact(cf, q), prod'[q] = prod[q],
         prod[q].pc # "idle" =>
            /\ ~event[prod[q].e].aged => ~event'[prod[q].e].aged
            /\ event[prod[q].e].live /\ event[prod[q].e].read /\ ~event[prod[q].e].aged =>
                 event'[prod[q].e].live /\ event'[prod[q].e].read,
         Publishes(q) =>
            /\ row'[Ledger(cf)!RowOf(q)].state = row[Ledger(cf)!RowOf(q)].state
            /\ row'[Ledger(cf)!RowOf(q)].by = row[Ledger(cf)!RowOf(q)].by
            /\ Ledger(cf)!RowOf(q) \in entered' <=> Ledger(cf)!RowOf(q) \in entered,
         prod[q].pc = "publish" => alerts'[Ledger(cf)!RowOf(q)] = alerts[Ledger(cf)!RowOf(q)]
  PROVE  CallFact(cf, q)'
  BY DEF Ledger!RowOf, Publishes, CallFact

LEMMA SameRow ==
  ASSUME NEW cf, NEW r, RowFact(cf, r), row'[r] = row[r], alerts'[r] = alerts[r],
         r \in entered' <=> r \in entered, Archived(r[1]) => Archived(r[1])'
  PROVE  RowFact(cf, r)'
  BY DEF Ledger!Claimable, RowFact

LEMMA SameAlone ==
  ASSUME NEW cf, Alone(cf),
         \A p \in cf.Producers : Publishes(p)' => Publishes(p) /\ Ledger(cf)!RowOf(p)' = Ledger(cf)!RowOf(p)
  PROVE  Alone(cf)'
  BY DEF Alone

LEMMA SameQueue ==
  ASSUME QueueFacts, backlog' = backlog, entered \subseteq entered',
         \A i \in 1..Len(backlog) : alerts'[backlog[i]] = alerts[backlog[i]]
  PROVE  QueueFacts'
  BY DEF QueueFacts

LEMMA SameCursors ==
  ASSUME NEW cf, CursorFacts(cf), UNCHANGED <<event, dev, nextSeq>>
  PROVE  CursorFacts(cf)'
  BY DEF CursorFacts, Ledger!CursorHonest

LEMMA SameEvents ==
  ASSUME NEW cf, EventFacts(cf), UNCHANGED <<event, nextSeq>>
  PROVE  EventFacts(cf)'
  BY DEF EventFacts

LEMMA SameClaims ==
  ASSUME NEW cf, ClaimFacts(cf), UNCHANGED <<event, dev>>
  PROVE  ClaimFacts(cf)'
  BY DEF ClaimFacts

LEMMA SameWatchers ==
  ASSUME NEW cf, Ledger(cf)!WatchersBounded, watchers' = watchers
  PROVE  Ledger(cf)!WatchersBounded'
  BY DEF Ledger!WatchersBounded

LEMMA SameRows ==
  ASSUME NEW cf, RowFacts(cf), UNCHANGED <<event, row, alerts, entered>>
  PROVE  RowFacts(cf)'
  BY SameRow DEF RowFacts, Archived, Ledger!Rows

\* A step of a call that only moves on, or returns.
LEMMA CallMoves ==
  ASSUME NEW cf, NoticeInv(cf), NEW p \in cf.Producers,
         UNCHANGED <<event, nextSeq, row, ntfyOn, backlog, dev, alerts, entered>>,
         prod' \in [cf.Producers -> Call(cf)],
         \A q \in cf.Producers : q # p => prod'[q] = prod[q],
         prod'[p].pc # "idle" => prod'[p].e \in cf.Events,
         ~Publishes(p)', CallFact(cf, p)',
         watchers' \in Seq(RunsOf(cf)), Ledger(cf)!WatchersBounded'
  PROVE  NoticeInv(cf)'
  <1>1. NoticeTypes(cf)'
    <2>1. NoticeTypes(cf) BY DEF NoticeInv
    <2>2. \A q \in cf.Producers : prod'[q].pc # "idle" => prod'[q].e \in cf.Events
      <3> SUFFICES ASSUME NEW q \in cf.Producers, q # p, prod'[q].pc # "idle"
                   PROVE  prod'[q].e \in cf.Events
        OBVIOUS
      <3>1. prod'[q] = prod[q] OBVIOUS
      <3> QED BY <2>1, <3>1 DEF NoticeTypes
    <2>3. Ledger(cf)!Rows' = Ledger(cf)!Rows BY DEF Ledger!Rows
    <2> QED BY <2>1, <2>2, <2>3 DEF NoticeTypes
  <1>2. CallFacts(cf)'
    <2> SUFFICES ASSUME NEW q \in cf.Producers, q # p PROVE CallFact(cf, q)' BY DEF CallFacts
    <2>1. CallFact(cf, q) /\ prod'[q] = prod[q] BY DEF NoticeInv, CallFacts
    <2> QED BY <2>1, SameCall
  <1>3. Alone(cf)'
    BY SameAlone DEF Publishes, Ledger!RowOf, NoticeInv
  <1>4. EventFacts(cf)' /\ ClaimFacts(cf)' /\ CursorFacts(cf)'
    BY SameEvents, SameClaims, SameCursors DEF NoticeInv
  <1>5. RowFacts(cf)' BY SameRows DEF NoticeInv
  <1>6. QueueFacts' BY DEF NoticeInv, QueueFacts
  <1> QED BY <1>1, <1>2, <1>3, <1>4, <1>5, <1>6 DEF NoticeInv

LEMMA IdleCall ==
  ASSUME NEW cf, NEW p, prod'[p].pc = "idle"
  PROVE  ~Publishes(p)' /\ CallFact(cf, p)'
  BY DEF Publishes, CallFact

LEMMA ReturnKeeps ==
  ASSUME NEW cf, Ledger(cf)!Shape, NoticeInv(cf), NEW p \in cf.Producers, Ledger(cf)!Returns(p),
         UNCHANGED <<event, nextSeq, row, ntfyOn, backlog, dev, alerts, entered>>
  PROVE  NoticeInv(cf)'
  BY CallReturns, IdleCall, CallMoves DEF Ledger!Shape, NoticeInv

\* A call that goes on to a check it was not at.
LEMMA GoKeeps ==
  ASSUME NEW cf, NoticeInv(cf), NEW p \in cf.Producers, NEW pc,
         pc \in {"record", "state", "claim"}, Ledger(cf)!Goes(p, pc), prod[p].pc # "idle",
         pc \in {"state", "claim"} => ~prod[p].late,
         UNCHANGED <<event, nextSeq, row, ntfyOn, backlog, dev, alerts, entered>>
  PROVE  NoticeInv(cf)'
  <1>1. NoticeTypes(cf) /\ CallFact(cf, p) /\ Ledger(cf)!WatchersBounded
    BY DEF NoticeInv, CallFacts
  <1>2. /\ prod' \in [cf.Producers -> Call(cf)] /\ watchers' = watchers
        /\ prod'[p].pc = pc /\ prod'[p].e = prod[p].e /\ prod'[p].late = prod[p].late
        /\ \A q \in cf.Producers : q # p => prod'[q] = prod[q]
    BY <1>1, CallGoes
  <1>3. ~Publishes(p)' BY <1>2 DEF Publishes
  <1>4. CallFact(cf, p)' BY <1>1, <1>2 DEF CallFact
  <1>5. prod'[p].e \in cf.Events BY <1>1, <1>2 DEF NoticeTypes
  <1>6. watchers' \in Seq(RunsOf(cf)) /\ Ledger(cf)!WatchersBounded'
    BY <1>1, <1>2, SameWatchers DEF NoticeTypes
  <1> QED BY <1>2, <1>3, <1>4, <1>5, <1>6, CallMoves

LEMMA StartKeeps ==
  ASSUME NEW cf, NoticeInv(cf), NEW p \in cf.Producers,
         NEW e \in cf.Events, NEW phase \in Ledger(cf)!Phases, Ledger(cf)!Start(p, e, phase)
  PROVE  NoticeInv(cf)'
  <1>1. NoticeTypes(cf) /\ EventFacts(cf) /\ Ledger(cf)!WatchersBounded BY DEF NoticeInv
  <1> DEFINE pc == IF phase = "reminder" THEN "reminds" ELSE "record"
             call == [Ledger(cf)!Idle EXCEPT !.e = e, !.phase = phase, !.pc = pc, !.late = event[e].read]
  <1>2. /\ prod' = [prod EXCEPT ![p] = call] /\ ~event[e].aged
        /\ UNCHANGED <<event, nextSeq, row, ntfyOn, backlog, watchers, dev, alerts, entered>>
    BY DEF Ledger!Start
  <1>3. event[e] \in Happening BY <1>1 DEF NoticeTypes
  <1>4. /\ call.e = e /\ call.phase = phase /\ call.pc = pc /\ call.late = event[e].read
        /\ call.chan = "ntfy" /\ call.outcome = "none"
        /\ call \in Call(cf)
    BY <1>3 DEF Ledger!Idle, Call, Happening, Subject, Ledger!Channels
  <1> HIDE DEF call
  <1>5. /\ prod' \in [cf.Producers -> Call(cf)] /\ prod'[p] = call
        /\ \A q \in cf.Producers : q # p => prod'[q] = prod[q]
    BY <1>1, <1>2, <1>4 DEF NoticeTypes
  <1>6. ~Publishes(p)' BY <1>4, <1>5 DEF Publishes
  <1>7. CallFact(cf, p)' BY <1>1, <1>2, <1>4, <1>5 DEF CallFact, EventFacts
  <1>8. watchers' \in Seq(RunsOf(cf)) /\ Ledger(cf)!WatchersBounded'
    BY <1>1, <1>2, SameWatchers DEF NoticeTypes
  <1> QED BY <1>2, <1>4, <1>5, <1>6, <1>7, <1>8, CallMoves

\* reminder_allowed, the read check and the check of the row.
LEMMA ChecksKeep ==
  ASSUME NEW cf, Ledger(cf)!Shape, NoticeInv(cf), NEW p \in cf.Producers,
         \/ Ledger(cf)!ReminderAllowed(p) \/ Ledger(cf)!CheckRead(p) \/ Ledger(cf)!CheckState(p)
  PROVE  NoticeInv(cf)'
  <1>1. UNCHANGED <<event, nextSeq, row, ntfyOn, backlog, dev, alerts, entered>>
    BY DEF Ledger!ReminderAllowed, Ledger!CheckRead, Ledger!CheckState
  <1>2. CASE Ledger(cf)!Returns(p) BY <1>1, <1>2, ReturnKeeps
  <1>3. CASE ~Ledger(cf)!Returns(p)
    <2>1. CallFact(cf, p) /\ NoticeTypes(cf) BY DEF NoticeInv, CallFacts
    <2>2. CASE Ledger(cf)!ReminderAllowed(p)
      BY <1>3, <2>2, <1>1, GoKeeps DEF Ledger!ReminderAllowed
    <2>3. CASE Ledger(cf)!CheckRead(p)
      BY <1>3, <2>3, <2>1, <1>1, GoKeeps DEF Ledger!CheckRead, Ledger!IsRead, CallFact
    <2>4. CASE Ledger(cf)!CheckState(p)
      BY <1>3, <2>4, <2>1, <1>1, GoKeeps DEF Ledger!CheckState, CallFact
    <2> QED BY <2>2, <2>3, <2>4
  <1> QED BY <1>2, <1>3


\* An event that gets the next change number: recorded, or read.
LEMMA Stamped ==
  ASSUME NEW cf, NoticeInv(cf), NEW e \in cf.Events, NEW v \in Happening,
         v.live, v.change = nextSeq, v.aged <=> event[e].aged,
         event[e].live /\ event[e].read => v.read, v.aged => v.read,
         event' = [event EXCEPT ![e] = v], nextSeq' = nextSeq + 1, dev' = dev
  PROVE  /\ event' \in [cf.Events -> Happening] /\ nextSeq' \in Nat \ {0}
         /\ EventFacts(cf)' /\ ClaimFacts(cf)' /\ CursorFacts(cf)'
         /\ \A f \in cf.Events :
              /\ ~event[f].aged => ~event'[f].aged
              /\ event[f].live /\ event[f].read => event'[f].live /\ event'[f].read
              /\ f # e /\ Archived(f) => Archived(f)'
  <1>1. NoticeTypes(cf) /\ EventFacts(cf) /\ ClaimFacts(cf) /\ CursorFacts(cf) BY DEF NoticeInv
  <1>2. event \in [cf.Events -> Happening] /\ nextSeq \in Nat \ {0} BY <1>1 DEF NoticeTypes
  <1>3. /\ event' \in [cf.Events -> Happening] /\ event'[e] = v
        /\ \A f \in cf.Events : f # e => event'[f] = event[f]
    BY <1>2
  <1>4. \A f \in cf.Events : event[f].change \in Nat /\ event'[f].change \in Nat
    BY <1>2, <1>3 DEF Happening
  <1>5. EventFacts(cf)'
    BY <1>1, <1>3, <1>2, <1>4 DEF EventFacts
  <1>6. ClaimFacts(cf)'
    <2> SUFFICES ASSUME NEW d \in cf.Devices, dev[d].claim # Ledger(cf)!NoEventId
                 PROVE  ~event'[dev[d].claim].aged
      BY DEF ClaimFacts, Ledger!NoEventId
    <2>1. ~event[dev[d].claim].aged BY <1>1 DEF ClaimFacts
    <2>2. dev[d].claim \in cf.Events BY <1>1 DEF NoticeTypes, Device, Subject
    <2> QED BY <1>3, <2>1, <2>2
  <1>7. CursorFacts(cf)'
    <2>1. \A d \in cf.Devices : dev[d].cursor \in Nat /\ dev[d].cursor < nextSeq
      BY <1>1 DEF NoticeTypes, Device, CursorFacts
    <2>2. ASSUME NEW d \in cf.Devices, NEW f \in cf.Events,
                 event'[f].live, event'[f].change <= dev[d].cursor
          PROVE  dev[d].known[f] = IF event'[f].read THEN "read" ELSE "unread"
      BY <1>2, <1>3, <2>1, <2>2, <1>1 DEF CursorFacts, Ledger!CursorHonest
    <2> QED BY <1>2, <2>1, <2>2 DEF CursorFacts, Ledger!CursorHonest
  <1>8. ASSUME NEW f \in cf.Events
        PROVE  /\ ~event[f].aged => ~event'[f].aged
               /\ event[f].live /\ event[f].read => event'[f].live /\ event'[f].read
               /\ f # e /\ Archived(f) => Archived(f)'
    BY <1>3 DEF Archived
  <1> QED BY <1>2, <1>3, <1>5, <1>6, <1>7, <1>8

LEMMA RecordKeeps ==
  ASSUME NEW cf, Ledger(cf)!Shape, NoticeInv(cf), NEW p \in cf.Producers,
         Ledger(cf)!RecordEvent(p)
  PROVE  NoticeInv(cf)'
  <1> DEFINE e == prod[p].e
  <1>1. /\ NoticeTypes(cf) /\ CallFacts(cf) /\ CallFact(cf, p) /\ Alone(cf) /\ RowFacts(cf)
        /\ QueueFacts /\ Ledger(cf)!WatchersBounded /\ EventFacts(cf) /\ ClaimFacts(cf)
        /\ CursorFacts(cf)
    BY DEF NoticeInv, CallFacts
  <1>2. prod[p].pc = "record" /\ UNCHANGED <<row, ntfyOn, backlog, dev, alerts, entered>>
    BY DEF Ledger!RecordEvent
  <1>3. e \in cf.Events /\ ~event[e].aged /\ event[e] \in Happening
    BY <1>1, <1>2 DEF NoticeTypes, CallFact
  <1>4. cf.MaxWatchers \in Nat BY DEF Ledger!Shape
  <1>5. /\ prod' \in [cf.Producers -> Call(cf)]
        /\ \A q \in cf.Producers : q # p => prod'[q] = prod[q]
        /\ \/ prod'[p].pc = "idle"
           \/ prod'[p].pc = "read" /\ prod'[p].e = e /\ prod'[p].late = prod[p].late
        /\ watchers' \in Seq(RunsOf(cf)) /\ Ledger(cf)!WatchersBounded'
    <2>1. CASE Ledger(cf)!Returns(p) BY <1>1, <1>4, <2>1, CallReturns
    <2>2. CASE ~Ledger(cf)!Returns(p)
      <3>1. /\ prod' = [prod EXCEPT ![p].pc = "read", ![p].chan = Ledger(cf)!SystemChannel]
            /\ watchers' = watchers
        BY <2>2 DEF Ledger!RecordEvent
      <3>2. prod \in [cf.Producers -> Call(cf)] /\ prod[p] \in Call(cf) BY <1>1 DEF NoticeTypes
      <3>3. Ledger(cf)!SystemChannel \in Ledger(cf)!Channels
        BY DEF Ledger!SystemChannel, Ledger!Channels
      <3>4. prod'[p] = [prod[p] EXCEPT !.pc = "read", !.chan = Ledger(cf)!SystemChannel]
        BY <3>1, <3>2
      <3>5. /\ prod'[p] \in Call(cf) /\ prod'[p].pc = "read" /\ prod'[p].e = e
            /\ prod'[p].late = prod[p].late
        BY <3>2, <3>3, <3>4 DEF Call
      <3>6. prod' \in [cf.Producers -> Call(cf)] BY <3>1, <3>2, <3>4, <3>5
      <3> QED BY <1>1, <3>1, <3>2, <3>5, <3>6, SameWatchers DEF NoticeTypes
    <2> QED BY <2>1, <2>2
  <1>6. /\ event' \in [cf.Events -> Happening] /\ nextSeq' \in Nat \ {0}
        /\ EventFacts(cf)' /\ ClaimFacts(cf)' /\ CursorFacts(cf)'
        /\ \A f \in cf.Events :
             /\ ~event[f].aged => ~event'[f].aged
             /\ event[f].live /\ event[f].read => event'[f].live /\ event'[f].read
             /\ f # e /\ Archived(f) => Archived(f)'
    <2>1. CASE event[e].live
      BY <2>1, <1>1, <1>2, SameEvents, SameClaims, SameCursors DEF Ledger!RecordEvent, NoticeTypes,
         Archived
    <2>2. CASE ~event[e].live
      <3> DEFINE v == [Ledger(cf)!NoEvent EXCEPT !.live = TRUE, !.change = nextSeq]
      <3>1. event' = [event EXCEPT ![e] = v] /\ nextSeq' = nextSeq + 1
        BY <2>2 DEF Ledger!RecordEvent
      <3>2. nextSeq \in Nat BY <1>1 DEF NoticeTypes
      <3>3. v \in Happening /\ v.live = TRUE /\ v.change = nextSeq /\ v.aged = FALSE
        BY <3>2 DEF Happening, Ledger!NoEvent
      <3> HIDE DEF v
      <3>4. /\ v.live /\ (v.aged <=> event[e].aged) /\ (v.aged => v.read)
            /\ event[e].live /\ event[e].read => v.read
        BY <1>3, <2>2, <3>3
      <3> QED BY <1>2, <1>3, <3>1, <3>3, <3>4, Stamped
    <2> QED BY <2>1, <2>2
  <1>7. NoticeTypes(cf)'
    <2>1. \A q \in cf.Producers : prod'[q].pc # "idle" => prod'[q].e \in cf.Events
      <3> SUFFICES ASSUME NEW q \in cf.Producers, prod'[q].pc # "idle"
                   PROVE  prod'[q].e \in cf.Events
        OBVIOUS
      <3>1. CASE q = p BY <1>3, <1>5, <3>1
      <3>2. CASE q # p
        BY <1>5, <3>2, <1>1 DEF NoticeTypes
      <3> QED BY <3>1, <3>2
    <2> QED BY <1>1, <1>2, <1>5, <1>6, <2>1 DEF NoticeTypes, Ledger!Rows
  <1>8. CallFacts(cf)'
    <2> SUFFICES ASSUME NEW q \in cf.Producers PROVE CallFact(cf, q)' BY DEF CallFacts
    <2>1. CASE q = p
      BY <2>1, IdleCall, <1>1, <1>2, <1>3, <1>6, <1>5 DEF CallFact
    <2>2. CASE q # p
      BY <1>1, <1>5, <2>2, <1>2, <1>6, SameCall DEF CallFacts, NoticeTypes
    <2> QED BY <2>1, <2>2
  <1>9. Alone(cf)'
    BY <1>5, <1>1, SameAlone DEF Publishes, Ledger!RowOf
  <1>10. RowFacts(cf)'
    <2> SUFFICES ASSUME NEW r \in Ledger(cf)!Rows PROVE RowFact(cf, r)'
      BY DEF RowFacts, Ledger!Rows
    <2>1. RowFact(cf, r) /\ r[1] \in cf.Events BY <1>1, RowsAre DEF RowFacts
    <2>2. Archived(r[1]) => Archived(r[1])' BY <1>3, <1>6, <2>1 DEF Archived
    <2> QED BY <1>2, <2>1, <2>2, SameRow
  <1>11. QueueFacts' BY <1>1, <1>2 DEF QueueFacts
  <1> QED BY <1>5, <1>6, <1>7, <1>8, <1>9, <1>10, <1>11 DEF NoticeInv


\* Who publishes has claimed its row for the server.
LEMMA PublisherOwns ==
  ASSUME NEW cf, NEW q, CallFact(cf, q), Publishes(q)
  PROVE  /\ ~Ledger(cf)!Claimable(Ledger(cf)!RowOf(q))
         /\ row[Ledger(cf)!RowOf(q)].by = "server"
  BY DEF CallFact, Publishes, Ledger!Claimable

\* A step that touches one row only, which another call does not publish for.
LEMMA OtherCall ==
  ASSUME NEW cf, NoticeInv(cf), NEW r, NEW q \in cf.Producers, prod'[q] = prod[q],
         Publishes(q) => Ledger(cf)!RowOf(q) # r, event' = event,
         \A x \in Ledger(cf)!Rows : x # r => /\ row'[x] = row[x] /\ alerts'[x] = alerts[x]
                                             /\ (x \in entered' <=> x \in entered)
  PROVE  CallFact(cf, q)'
  BY RowsAre, SameCall DEF NoticeInv, CallFacts, Publishes

LEMMA OtherCalls ==
  ASSUME NEW cf, NoticeInv(cf), NEW r, NEW p,
         \A q \in cf.Producers : q # p =>
            prod'[q] = prod[q] /\ (Publishes(q) => Ledger(cf)!RowOf(q) # r),
         event' = event,
         \A x \in Ledger(cf)!Rows : x # r => /\ row'[x] = row[x] /\ alerts'[x] = alerts[x]
                                             /\ (x \in entered' <=> x \in entered)
  PROVE  \A q \in cf.Producers : q # p => CallFact(cf, q)'
  BY OtherCall

LEMMA OtherRows ==
  ASSUME NEW cf, RowFacts(cf), event' = event, NEW r,
         \A x \in Ledger(cf)!Rows : x # r => /\ row'[x] = row[x] /\ alerts'[x] = alerts[x]
                                             /\ (x \in entered' <=> x \in entered),
         RowFact(cf, r)'
  PROVE  RowFacts(cf)'
  <1> SUFFICES ASSUME NEW x \in Ledger(cf)!Rows, x # r PROVE RowFact(cf, x)'
    BY DEF RowFacts, Ledger!Rows
  <1>1. RowFact(cf, x) BY DEF RowFacts
  <1>2. Archived(x[1]) => Archived(x[1])' BY DEF Archived
  <1> QED BY <1>1, <1>2, SameRow

LEMMA TypesKept ==
  ASSUME NEW cf, NoticeTypes(cf), NEW p \in cf.Producers,
         prod' \in [cf.Producers -> Call(cf)],
         \A q \in cf.Producers : q # p => prod'[q] = prod[q],
         prod'[p].pc # "idle" => prod'[p].e \in cf.Events,
         UNCHANGED <<event, nextSeq, ntfyOn, dev, alerts>>,
         row' \in [Ledger(cf)!Rows -> Delivery(cf)], backlog' \in Seq(Ledger(cf)!Rows),
         entered' \subseteq Ledger(cf)!Rows, watchers' \in Seq(RunsOf(cf))
  PROVE  NoticeTypes(cf)'
  <1>1. \A q \in cf.Producers : prod'[q].pc # "idle" => prod'[q].e \in cf.Events
    <2> SUFFICES ASSUME NEW q \in cf.Producers, q # p, prod'[q].pc # "idle"
                 PROVE  prod'[q].e \in cf.Events
      OBVIOUS
    <2>1. prod'[q] = prod[q] OBVIOUS
    <2> QED BY <2>1 DEF NoticeTypes
  <1>2. Ledger(cf)!Rows' = Ledger(cf)!Rows BY DEF Ledger!Rows
  <1> QED BY <1>1, <1>2 DEF NoticeTypes

\* The call queues an intent and returns.
LEMMA QueueKeeps ==
  ASSUME NEW cf, Ledger(cf)!Shape, NoticeInv(cf), NEW p \in cf.Producers, prod[p].pc = "claim",
         NEW r, r = Ledger(cf)!RowOf(p), Ledger(cf)!QueueDelivery(r), Ledger(cf)!Returns(p),
         UNCHANGED <<event, nextSeq, ntfyOn, backlog, dev, alerts, entered>>
  PROVE  NoticeInv(cf)'
  <1>1. /\ NoticeTypes(cf) /\ CallFact(cf, p) /\ Alone(cf) /\ RowFacts(cf)
        /\ QueueFacts /\ Ledger(cf)!WatchersBounded
    BY DEF NoticeInv, CallFacts
  <1>2. CASE row' = row BY <1>2, ReturnKeeps
  <1>3. CASE row' # row
    <2>1. row[r].state = "none" /\ row' = [row EXCEPT ![r].state = "pending"]
      BY <1>3 DEF Ledger!QueueDelivery
    <2>2. cf.MaxWatchers \in Nat BY DEF Ledger!Shape
    <2>3. /\ prod' \in [cf.Producers -> Call(cf)] /\ prod'[p].pc = "idle"
          /\ \A q \in cf.Producers : q # p => prod'[q] = prod[q]
          /\ watchers' \in Seq(RunsOf(cf)) /\ Ledger(cf)!WatchersBounded'
      BY <1>1, <2>2, CallReturns
    <2>4. r \in Ledger(cf)!Rows /\ r[1] = prod[p].e /\ row[r] \in Delivery(cf)
          /\ ~event[prod[p].e].aged
      BY <1>1, RowsAre DEF CallFact
    <2>5. /\ row' \in [Ledger(cf)!Rows -> Delivery(cf)]
          /\ row'[r].state = "pending" /\ row'[r].by = row[r].by /\ row'[r].reporter = row[r].reporter
          /\ \A x \in Ledger(cf)!Rows : x # r => row'[x] = row[x]
      BY <2>4, <1>1, <2>1 DEF Delivery, Ledger!States, NoticeTypes
    <2>6. Ledger(cf)!Claimable(r) BY <2>1 DEF Ledger!Claimable
    <2>7. NoticeTypes(cf)' BY <1>1, <2>3, <2>5, TypesKept DEF NoticeTypes
    <2>8. CallFacts(cf)'
      <3>1. \A q \in cf.Producers : Publishes(q) => Ledger(cf)!RowOf(q) # r
        BY <2>6, PublisherOwns DEF NoticeInv, CallFacts
      <3>2. \A q \in cf.Producers : q # p => CallFact(cf, q)'
        <4>1. \A q \in cf.Producers : q # p =>
                prod'[q] = prod[q] /\ (Publishes(q) => Ledger(cf)!RowOf(q) # r)
          BY <2>3, <3>1
        <4>2. \A x \in Ledger(cf)!Rows : x # r => /\ row'[x] = row[x] /\ alerts'[x] = alerts[x]
                                                  /\ (x \in entered' <=> x \in entered)
          BY <2>5
        <4> QED BY <4>1, <4>2, OtherCalls
      <3>3. CallFact(cf, p)' BY <2>3, IdleCall
      <3> QED BY <3>2, <3>3 DEF CallFacts
    <2>9. Alone(cf)'
      BY <2>3, <1>1, SameAlone DEF Publishes, Ledger!RowOf
    <2>10. RowFacts(cf)'
      BY <1>1, <2>4, <2>5, <2>6, OtherRows DEF RowFacts, RowFact, Archived, Ledger!Claimable
    <2>11. QueueFacts' BY <1>1 DEF QueueFacts
    <2>12. EventFacts(cf)' /\ ClaimFacts(cf)' /\ CursorFacts(cf)'
      BY SameEvents, SameClaims, SameCursors DEF NoticeInv
    <2> QED BY <2>3, <2>7, <2>8, <2>9, <2>10, <2>11, <2>12 DEF NoticeInv
  <1> QED BY <1>2, <1>3

\* The call claims its row for the server.
LEMMA ClaimKeeps ==
  ASSUME NEW cf, NoticeInv(cf), NEW p \in cf.Producers, prod[p].pc = "claim",
         NEW r, r = Ledger(cf)!RowOf(p), Ledger(cf)!Claimable(r), Ledger(cf)!Goes(p, "publish"),
         row' = [row EXCEPT ![r].state = "claimed", ![r].by = "server", ![r].token = "nobody"],
         UNCHANGED <<event, nextSeq, ntfyOn, backlog, dev, alerts, entered>>
  PROVE  NoticeInv(cf)'
  <1>1. /\ NoticeTypes(cf) /\ CallFacts(cf) /\ CallFact(cf, p) /\ Alone(cf) /\ RowFacts(cf)
        /\ QueueFacts /\ Ledger(cf)!WatchersBounded
    BY DEF NoticeInv, CallFacts
  <1>2. /\ prod' \in [cf.Producers -> Call(cf)] /\ watchers' = watchers
        /\ prod'[p].pc = "publish" /\ prod'[p].e = prod[p].e /\ prod'[p].late = prod[p].late
        /\ prod'[p].phase = prod[p].phase /\ prod'[p].chan = prod[p].chan
        /\ \A q \in cf.Producers : q # p => prod'[q] = prod[q]
    BY <1>1, CallGoes
  <1>3. r \in Ledger(cf)!Rows /\ r[1] = prod[p].e /\ row[r] \in Delivery(cf)
        /\ prod[p].e \in cf.Events
    BY <1>1, RowsAre
  <1>4. ~event[prod[p].e].aged /\ ~prod[p].late BY <1>1 DEF CallFact
  <1>5. /\ row' \in [Ledger(cf)!Rows -> Delivery(cf)]
        /\ row'[r].state = "claimed" /\ row'[r].by = "server" /\ row'[r].reporter = row[r].reporter
        /\ \A x \in Ledger(cf)!Rows : x # r => row'[x] = row[x]
    <2> DEFINE v == [row[r] EXCEPT !.state = "claimed", !.by = "server", !.token = "nobody"]
    <2>1. v \in Delivery(cf) /\ v.state = "claimed" /\ v.by = "server" /\ v.reporter = row[r].reporter
      BY <1>3 DEF Delivery, Ledger!States
    <2>2. row \in [Ledger(cf)!Rows -> Delivery(cf)] BY <1>1 DEF NoticeTypes
    <2>3. row' = [row EXCEPT ![r] = v] BY <1>3, <2>2
    <2> HIDE DEF v
    <2>4. row'[r] = v BY <1>3, <2>2, <2>3
    <2>6. row' \in [Ledger(cf)!Rows -> Delivery(cf)] BY <2>1, <2>2, <2>3
    <2>5. \A x \in Ledger(cf)!Rows : x # r => row'[x] = row[x] BY <2>2, <2>3
    <2> QED BY <2>1, <2>4, <2>5, <2>6
  <1>6. RowFact(cf, r) /\ row[r].reporter = "nobody" /\ r \notin entered /\ alerts[r] = 0
    BY <1>1, <1>3, <1>4 DEF RowFacts, RowFact, Archived
  <1>7. NoticeTypes(cf)'
    <2>1. /\ backlog \in Seq(Ledger(cf)!Rows) /\ entered \subseteq Ledger(cf)!Rows
          /\ watchers \in Seq(RunsOf(cf))
      BY <1>1 DEF NoticeTypes
    <2> QED BY <1>1, <1>2, <1>3, <1>5, <2>1, TypesKept
  <1>8. \A q \in cf.Producers : Publishes(q) => Ledger(cf)!RowOf(q) # r
    BY <1>1, PublisherOwns DEF CallFacts
  <1>9. Ledger(cf)!RowOf(p)' = r BY <1>2 DEF Ledger!RowOf
  <1>10. CallFacts(cf)'
    <2>1. \A q \in cf.Producers : q # p => CallFact(cf, q)' BY <1>2, <1>5, <1>8, OtherCalls
    <2>2. CallFact(cf, p)' BY <1>2, <1>4, <1>5, <1>6, <1>9 DEF CallFact
    <2> QED BY <2>1, <2>2 DEF CallFacts
  <1>11. Alone(cf)'
    <2>1. \A q \in cf.Producers : q # p =>
            /\ Publishes(q)' => Publishes(q)
            /\ Ledger(cf)!RowOf(q)' = Ledger(cf)!RowOf(q)
      BY <1>2 DEF Publishes, Ledger!RowOf
    <2> SUFFICES ASSUME NEW x \in cf.Producers, NEW y \in cf.Producers, x # y,
                        Publishes(x)', Publishes(y)'
                 PROVE  Ledger(cf)!RowOf(x)' # Ledger(cf)!RowOf(y)'
      BY DEF Alone
    <2> QED BY <1>1, <1>8, <1>9, <2>1 DEF Alone
  <1>12. RowFacts(cf)'
    BY <1>5, <1>6, <1>1, OtherRows DEF RowFact, Ledger!Claimable
  <1>13. QueueFacts' BY <1>1 DEF QueueFacts
  <1>14. EventFacts(cf)' /\ ClaimFacts(cf)' /\ CursorFacts(cf)' /\ Ledger(cf)!WatchersBounded'
    BY <1>2, SameEvents, SameClaims, SameCursors, SameWatchers DEF NoticeInv
  <1> QED BY <1>7, <1>10, <1>11, <1>12, <1>13, <1>14 DEF NoticeInv

LEMMA ClaimOrQueueKeeps ==
  ASSUME NEW cf, Ledger(cf)!Shape, NoticeInv(cf), NEW p \in cf.Producers,
         Ledger(cf)!ClaimOrQueue(p)
  PROVE  NoticeInv(cf)'
  <1>1. prod[p].pc = "claim"
        /\ UNCHANGED <<event, nextSeq, ntfyOn, backlog, dev, alerts, entered>>
    BY DEF Ledger!ClaimOrQueue
  <1>2. \/ Ledger(cf)!QueueDelivery(Ledger(cf)!RowOf(p)) /\ Ledger(cf)!Returns(p)
        \/ /\ Ledger(cf)!Claimable(Ledger(cf)!RowOf(p)) /\ Ledger(cf)!Goes(p, "publish")
           /\ row' = [row EXCEPT ![Ledger(cf)!RowOf(p)].state = "claimed",
                                 ![Ledger(cf)!RowOf(p)].by = "server",
                                 ![Ledger(cf)!RowOf(p)].token = "nobody"]
        \/ Ledger(cf)!Returns(p) /\ row' = row
    BY DEF Ledger!ClaimOrQueue
  <1>3. PICK r : r = Ledger(cf)!RowOf(p) OBVIOUS
  <1> QED BY <1>1, <1>2, <1>3, QueueKeeps, ClaimKeeps, ReturnKeeps


\* The transport takes the alert, or does not; either way the call notes it.
LEMMA PublishKeeps ==
  ASSUME NEW cf, NoticeInv(cf), NEW p \in cf.Producers, NEW r, r = Ledger(cf)!RowOf(p),
         Ledger(cf)!Publish(p)
  PROVE  NoticeInv(cf)'
  <1>1. /\ NoticeTypes(cf) /\ CallFacts(cf) /\ CallFact(cf, p) /\ Alone(cf) /\ RowFacts(cf)
        /\ QueueFacts /\ Ledger(cf)!WatchersBounded
    BY DEF NoticeInv, CallFacts
  <1> DEFINE took == IF Ledger(cf)!Accepted THEN "enqueued" ELSE "failed"
             v == [prod[p] EXCEPT !.pc = "note", !.outcome = took]
  <1>2. /\ prod[p].pc = "publish"
        /\ prod' = [prod EXCEPT ![p].pc = "note", ![p].outcome = took]
        /\ UNCHANGED <<event, nextSeq, row, ntfyOn, watchers, dev, alerts>>
    BY DEF Ledger!Publish
  <1>3. r \in Ledger(cf)!Rows /\ r[1] = prod[p].e /\ row[r] \in Delivery(cf)
        /\ prod[p].e \in cf.Events /\ prod[p] \in Call(cf)
    BY <1>1, <1>2, RowsAre
  <1>4. /\ row[r].state = "claimed" /\ row[r].by = "server" /\ r \notin entered /\ alerts[r] = 0
        /\ ~event[prod[p].e].aged /\ ~prod[p].late
    BY <1>1, <1>2 DEF CallFact
  <1>5. \/ took = "enqueued" /\ backlog' = Append(backlog, r) /\ entered' = entered \cup {r}
        \/ took = "failed" /\ UNCHANGED <<backlog, entered>>
    BY DEF Ledger!Publish, Ledger!Accepted
  <1> HIDE DEF took
  <1>6. /\ prod' \in [cf.Producers -> Call(cf)] /\ prod'[p].pc = "note"
        /\ prod'[p].outcome = took /\ prod'[p].e = prod[p].e /\ prod'[p].late = prod[p].late
        /\ prod'[p].phase = prod[p].phase /\ prod'[p].chan = prod[p].chan
        /\ \A q \in cf.Producers : q # p => prod'[q] = prod[q]
    <2>1. prod \in [cf.Producers -> Call(cf)] BY <1>1 DEF NoticeTypes
    <2>2. v \in Call(cf) /\ v.pc = "note" /\ v.outcome = took /\ v.e = prod[p].e
          /\ v.late = prod[p].late /\ v.phase = prod[p].phase /\ v.chan = prod[p].chan
      BY <1>3, <1>5 DEF Call
    <2>3. prod' = [prod EXCEPT ![p] = v] BY <1>2, <2>1
    <2> HIDE DEF v
    <2>4. prod'[p] = v /\ \A q \in cf.Producers : q # p => prod'[q] = prod[q] BY <2>1, <2>3
    <2>5. prod' \in [cf.Producers -> Call(cf)] BY <2>1, <2>2, <2>3
    <2> QED BY <2>2, <2>4, <2>5
  <1>7. /\ backlog' \in Seq(Ledger(cf)!Rows) /\ entered' \subseteq Ledger(cf)!Rows
        /\ \A x \in Ledger(cf)!Rows : x # r => (x \in entered' <=> x \in entered)
        /\ entered \subseteq entered'
    <2>1. backlog \in Seq(Ledger(cf)!Rows) /\ entered \subseteq Ledger(cf)!Rows
      BY <1>1 DEF NoticeTypes
    <2>2. CASE UNCHANGED <<backlog, entered>> BY <2>1, <2>2
    <2>3. CASE backlog' = Append(backlog, r) /\ entered' = entered \cup {r}
      BY <1>3, <2>1, <2>3
    <2> QED BY <1>5, <2>2, <2>3
  <1>8. NoticeTypes(cf)'
    BY <1>1, <1>2, <1>3, <1>6, <1>7, TypesKept DEF NoticeTypes
  <1>9. Publishes(p) BY <1>2 DEF Publishes
  <1>10. \A q \in cf.Producers : q # p /\ Publishes(q) => Ledger(cf)!RowOf(q) # r
    BY <1>1, <1>9 DEF Alone
  <1>11. Ledger(cf)!RowOf(p)' = r BY <1>6 DEF Ledger!RowOf
  <1>12. CallFacts(cf)'
    <2>1. \A q \in cf.Producers : q # p => CallFact(cf, q)'
      <3>1. \A q \in cf.Producers : q # p =>
              prod'[q] = prod[q] /\ (Publishes(q) => Ledger(cf)!RowOf(q) # r)
        BY <1>6, <1>10
      <3>2. \A x \in Ledger(cf)!Rows : x # r => /\ row'[x] = row[x] /\ alerts'[x] = alerts[x]
                                                /\ (x \in entered' <=> x \in entered)
        BY <1>2, <1>7
      <3>3. event' = event BY <1>2
      <3> QED BY <3>1, <3>2, <3>3, OtherCalls
    <2>2. CallFact(cf, p)' BY <1>2, <1>4, <1>5, <1>6, <1>11 DEF CallFact
    <2> QED BY <2>1, <2>2 DEF CallFacts
  <1>13. Alone(cf)'
    BY <1>6, <1>9, <1>1, SameAlone DEF Publishes, Ledger!RowOf
  <1>14. RowFacts(cf)'
    BY <1>1, <1>3, <1>2, <1>4, <1>7, OtherRows DEF RowFacts, RowFact, Ledger!Claimable
  <1>15. QueueFacts'
    <2>1. CASE UNCHANGED <<backlog, entered>> BY <1>1, <1>2, <2>1 DEF QueueFacts
    <2>2. CASE backlog' = Append(backlog, r) /\ entered' = entered \cup {r}
      BY <1>1, <1>3, <2>2, <1>4, <1>2 DEF NoticeTypes, QueueFacts
    <2> QED BY <1>5, <2>1, <2>2
  <1>16. EventFacts(cf)' /\ ClaimFacts(cf)' /\ CursorFacts(cf)' /\ Ledger(cf)!WatchersBounded'
    BY <1>2, SameEvents, SameClaims, SameCursors, SameWatchers DEF NoticeInv
  <1> QED BY <1>8, <1>12, <1>13, <1>14, <1>15, <1>16 DEF NoticeInv

\* The call writes what became of its alert and returns.
LEMMA NoteKeeps ==
  ASSUME NEW cf, Ledger(cf)!Shape, NoticeInv(cf), NEW p \in cf.Producers,
         NEW r, r = Ledger(cf)!RowOf(p), Ledger(cf)!NoteDelivery(p)
  PROVE  NoticeInv(cf)'
  <1>1. /\ NoticeTypes(cf) /\ CallFacts(cf) /\ CallFact(cf, p) /\ Alone(cf) /\ RowFacts(cf)
        /\ QueueFacts /\ Ledger(cf)!WatchersBounded
    BY DEF NoticeInv, CallFacts
  <1>2. /\ prod[p].pc = "note" /\ Ledger(cf)!Returns(p)
        /\ UNCHANGED <<event, nextSeq, ntfyOn, backlog, dev, alerts, entered>>
    BY DEF Ledger!NoteDelivery
  <1>3. CASE row' = row BY <1>2, <1>3, ReturnKeeps
  <1>4. CASE row' # row
    <2> DEFINE v == [row[r] EXCEPT !.state = prod[p].outcome]
    <2>1. row' = [row EXCEPT ![r].state = prod[p].outcome]
      BY <1>4 DEF Ledger!NoteDelivery
    <2>2. cf.MaxWatchers \in Nat BY DEF Ledger!Shape
    <2>3. /\ prod' \in [cf.Producers -> Call(cf)] /\ prod'[p].pc = "idle"
          /\ \A q \in cf.Producers : q # p => prod'[q] = prod[q]
          /\ watchers' \in Seq(RunsOf(cf)) /\ Ledger(cf)!WatchersBounded'
      BY <1>1, <1>2, <2>2, CallReturns
    <2>4. r \in Ledger(cf)!Rows /\ row[r] \in Delivery(cf) BY <1>1, <1>2, RowsAre
    <2>5. /\ row[r].state \notin {"none", "pending"} /\ row[r].by = "server"
          /\ \/ prod[p].outcome = "enqueued" /\ r \in entered
             \/ prod[p].outcome = "failed" /\ r \notin entered
      BY <1>1, <1>2 DEF CallFact
    <2>6. /\ row' \in [Ledger(cf)!Rows -> Delivery(cf)]
          /\ row'[r].state = prod[p].outcome /\ row'[r].by = row[r].by
          /\ row'[r].reporter = row[r].reporter
          /\ \A x \in Ledger(cf)!Rows : x # r => row'[x] = row[x]
      <3>1. /\ v \in Delivery(cf) /\ v.state = prod[p].outcome /\ v.by = row[r].by
            /\ v.reporter = row[r].reporter
        BY <2>4, <2>5 DEF Delivery, Ledger!States, Ledger!ClientOutcomes
      <3>2. row \in [Ledger(cf)!Rows -> Delivery(cf)] BY <1>1 DEF NoticeTypes
      <3>3. row' = [row EXCEPT ![r] = v] BY <2>1, <2>4, <3>2
      <3> HIDE DEF v
      <3>4. row'[r] = v BY <2>4, <3>2, <3>3
      <3>5. row' \in [Ledger(cf)!Rows -> Delivery(cf)] BY <3>1, <3>2, <3>3
      <3>6. \A x \in Ledger(cf)!Rows : x # r => row'[x] = row[x] BY <3>2, <3>3
      <3> QED BY <3>1, <3>4, <3>5, <3>6
    <2>7. NoticeTypes(cf)'
      BY <1>1, <1>2, <2>3, <2>6, TypesKept DEF NoticeTypes
    <2>8. Publishes(p) BY <1>2 DEF Publishes
    <2>9. CallFacts(cf)'
      <3>1. \A q \in cf.Producers : q # p =>
              prod'[q] = prod[q] /\ (Publishes(q) => Ledger(cf)!RowOf(q) # r)
        BY <1>1, <2>3, <2>8 DEF Alone
      <3>2. \A x \in Ledger(cf)!Rows : x # r => /\ row'[x] = row[x] /\ alerts'[x] = alerts[x]
                                                /\ (x \in entered' <=> x \in entered)
        BY <1>2, <2>6
      <3>3. \A q \in cf.Producers : q # p => CallFact(cf, q)' BY <1>2, <3>1, <3>2, OtherCalls
      <3>4. CallFact(cf, p)' BY <2>3, IdleCall
      <3> QED BY <3>3, <3>4 DEF CallFacts
    <2>10. Alone(cf)'
      BY <2>3, <1>1, SameAlone DEF Publishes, Ledger!RowOf
    <2>11. RowFacts(cf)'
      BY <1>1, <2>4, <1>2, <2>5, <2>6, OtherRows DEF RowFacts, RowFact, Ledger!Claimable
    <2>12. QueueFacts' BY <1>1, <1>2 DEF QueueFacts
    <2>13. EventFacts(cf)' /\ ClaimFacts(cf)' /\ CursorFacts(cf)'
      BY <1>2, SameEvents, SameClaims, SameCursors DEF NoticeInv
    <2> QED BY <2>3, <2>7, <2>9, <2>10, <2>11, <2>12, <2>13 DEF NoticeInv
  <1> QED BY <1>3, <1>4

\* The worker posts the head of the queue.
LEMMA SendKeeps ==
  ASSUME NEW cf, NoticeInv(cf), NEW r, r = Head(backlog), Ledger(cf)!Send
  PROVE  NoticeInv(cf)'
  <1>1. /\ NoticeTypes(cf) /\ CallFacts(cf) /\ Alone(cf) /\ RowFacts(cf)
        /\ QueueFacts /\ Ledger(cf)!WatchersBounded
    BY DEF NoticeInv
  <1>2. /\ backlog # <<>> /\ backlog' = Tail(backlog)
        /\ alerts' = [alerts EXCEPT ![r] = @ + 1]
        /\ UNCHANGED <<event, nextSeq, row, prod, ntfyOn, watchers, dev, entered>>
    BY DEF Ledger!Send
  <1>3. backlog \in Seq(Ledger(cf)!Rows) /\ alerts \in [Ledger(cf)!Rows -> Nat]
    BY <1>1 DEF NoticeTypes
  <1>4. /\ r \in Ledger(cf)!Rows /\ r = backlog[1] /\ 1 \in 1..Len(backlog) /\ Len(backlog) \in Nat
        /\ backlog' \in Seq(Ledger(cf)!Rows) /\ Len(backlog') = Len(backlog) - 1
        /\ \A i \in 1..Len(backlog') : i + 1 \in 1..Len(backlog) /\ backlog'[i] = backlog[i + 1]
    BY <1>2, <1>3
  <1>5. r \in entered /\ alerts[r] = 0 BY <1>1, <1>4 DEF QueueFacts
  <1>6. /\ alerts' \in [Ledger(cf)!Rows -> Nat] /\ alerts'[r] = 1
        /\ \A x \in Ledger(cf)!Rows : x # r => alerts'[x] = alerts[x]
    BY <1>2, <1>3, <1>4, <1>5
  <1>7. NoticeTypes(cf)' BY <1>1, <1>2, <1>4, <1>6 DEF NoticeTypes, Ledger!Rows
  <1>8. CallFacts(cf)'
    <2> SUFFICES ASSUME NEW q \in cf.Producers PROVE CallFact(cf, q)' BY DEF CallFacts
    <2>1. CallFact(cf, q) /\ prod'[q] = prod[q] BY <1>1, <1>2 DEF CallFacts
    <2>2. prod[q].pc = "publish" =>
            Ledger(cf)!RowOf(q) \notin entered /\ Ledger(cf)!RowOf(q) \in Ledger(cf)!Rows
      BY <1>1, <2>1, RowsAre DEF CallFact
    <2>3. prod[q].pc = "publish" => alerts'[Ledger(cf)!RowOf(q)] = alerts[Ledger(cf)!RowOf(q)]
      BY <1>5, <1>6, <2>2
    <2> QED BY <1>2, <2>1, <2>3, SameCall
  <1>9. Alone(cf)' BY <1>1, <1>2 DEF Alone, Publishes, Ledger!RowOf
  <1>10. RowFacts(cf)'
    BY <1>1, <1>4, <1>2, <1>5, <1>6, OtherRows DEF RowFacts, RowFact, Ledger!Claimable, Archived
  <1>11. QueueFacts'
    <2>1. \A i, j \in 1..Len(backlog') : backlog'[i] = backlog'[j] => i = j
      BY <1>1, <1>4 DEF QueueFacts
    <2>2. ASSUME NEW i \in 1..Len(backlog')
          PROVE  backlog'[i] \in entered' /\ alerts'[backlog'[i]] = 0
      BY <1>4, <1>1, <1>3, <1>2, <1>6 DEF QueueFacts
    <2> QED BY <2>1, <2>2 DEF QueueFacts
  <1>12. EventFacts(cf)' /\ ClaimFacts(cf)' /\ CursorFacts(cf)' /\ Ledger(cf)!WatchersBounded'
    BY <1>2, SameEvents, SameClaims, SameCursors, SameWatchers DEF NoticeInv
  <1> QED BY <1>7, <1>8, <1>9, <1>10, <1>11, <1>12 DEF NoticeInv


\* A device acknowledges an event.
LEMMA MarkKeeps ==
  ASSUME NEW cf, NoticeInv(cf), NEW d, NEW e \in cf.Events, Ledger(cf)!MarkRead(d, e)
  PROVE  NoticeInv(cf)'
  <1>1. /\ NoticeTypes(cf) /\ CallFacts(cf) /\ Alone(cf) /\ RowFacts(cf) /\ QueueFacts
    BY DEF NoticeInv
  <1> DEFINE v == [event[e] EXCEPT !.read = TRUE, !.change = nextSeq]
  <1>2. /\ event[e].live /\ ~event[e].read /\ nextSeq' = nextSeq + 1
        /\ event' = [event EXCEPT ![e].read = TRUE, ![e].change = nextSeq]
        /\ UNCHANGED <<row, prod, ntfyOn, backlog, watchers, dev, alerts, entered>>
    BY DEF Ledger!MarkRead, Ledger!Restamp
  <1>3. event \in [cf.Events -> Happening] /\ event[e] \in Happening /\ nextSeq \in Nat \ {0}
    BY <1>1 DEF NoticeTypes
  <1>4. /\ v \in Happening /\ v.live = event[e].live /\ v.change = nextSeq
        /\ v.aged = event[e].aged /\ v.read = TRUE
    BY <1>3 DEF Happening
  <1>5. event' = [event EXCEPT ![e] = v] BY <1>2, <1>3
  <1> HIDE DEF v
  <1>6. /\ v.live /\ (v.aged <=> event[e].aged) /\ (v.aged => v.read)
        /\ event[e].live /\ event[e].read => v.read
    BY <1>2, <1>4
  <1>7. /\ event' \in [cf.Events -> Happening] /\ nextSeq' \in Nat \ {0}
        /\ EventFacts(cf)' /\ ClaimFacts(cf)' /\ CursorFacts(cf)'
        /\ \A f \in cf.Events :
             /\ ~event[f].aged => ~event'[f].aged
             /\ event[f].live /\ event[f].read => event'[f].live /\ event'[f].read
             /\ f # e /\ Archived(f) => Archived(f)'
    BY <1>2, <1>4, <1>5, <1>6, Stamped
  <1>8. NoticeTypes(cf)' BY <1>1, <1>2, <1>7 DEF NoticeTypes, Ledger!Rows
  <1>9. CallFacts(cf)'
    <2> SUFFICES ASSUME NEW q \in cf.Producers PROVE CallFact(cf, q)' BY DEF CallFacts
    <2>1. CallFact(cf, q) /\ prod'[q] = prod[q] BY <1>1, <1>2 DEF CallFacts
    <2>2. prod[q].pc # "idle" => prod[q].e \in cf.Events BY <1>1 DEF NoticeTypes
    <2> QED BY <1>2, <1>7, <2>1, <2>2, SameCall
  <1>10. Alone(cf)' BY <1>1, <1>2 DEF Alone, Publishes, Ledger!RowOf
  <1>11. RowFacts(cf)'
    <2> SUFFICES ASSUME NEW r \in Ledger(cf)!Rows PROVE RowFact(cf, r)'
      BY DEF RowFacts, Ledger!Rows
    <2>1. RowFact(cf, r) /\ r[1] \in cf.Events BY <1>1, RowsAre DEF RowFacts
    <2>2. Archived(r[1]) => Archived(r[1])' BY <1>2, <1>7, <2>1 DEF Archived
    <2> QED BY <1>2, <2>1, <2>2, SameRow
  <1>12. QueueFacts' BY <1>1, <1>2 DEF QueueFacts
  <1>13. Ledger(cf)!WatchersBounded' BY <1>2, SameWatchers DEF NoticeInv
  <1> QED BY <1>7, <1>8, <1>9, <1>10, <1>11, <1>12, <1>13 DEF NoticeInv

\* A step that only moves a device, within what it may claim and has seen.
LEMMA DeviceKeeps ==
  ASSUME NEW cf, NoticeInv(cf), dev' \in [cf.Devices -> Device(cf)],
         UNCHANGED <<event, nextSeq, row, prod, ntfyOn, backlog, watchers, alerts, entered>>,
         ClaimFacts(cf)', CursorFacts(cf)'
  PROVE  NoticeInv(cf)'
  BY SameCall, SameEvents, SameRows, SameWatchers DEF NoticeInv, NoticeTypes, Ledger!Rows, CallFacts,
     Alone, Publishes, Ledger!RowOf, QueueFacts

\* A device that found the event unread goes on to claim its row.
LEMMA ChecksClaimKeeps ==
  ASSUME NEW cf, NoticeInv(cf), NEW d \in cf.Devices, NEW e \in cf.Events,
         Ledger(cf)!ClaimChecks(d, e)
  PROVE  NoticeInv(cf)'
  <1>1. NoticeTypes(cf) /\ EventFacts(cf) /\ ClaimFacts(cf) /\ CursorFacts(cf) BY DEF NoticeInv
  <1> DEFINE v == [dev[d] EXCEPT !.claim = e]
  <1>2. /\ ~event[e].read /\ dev' = [dev EXCEPT ![d].claim = e]
        /\ UNCHANGED <<event, nextSeq, row, prod, ntfyOn, backlog, watchers, alerts, entered>>
    BY DEF Ledger!ClaimChecks, Ledger!IsRead
  <1>3. dev \in [cf.Devices -> Device(cf)] /\ dev[d] \in Device(cf) BY <1>1 DEF NoticeTypes
  <1>4. v \in Device(cf) /\ v.claim = e /\ v.cursor = dev[d].cursor /\ v.known = dev[d].known
    BY <1>3 DEF Device, Subject
  <1>5. dev' = [dev EXCEPT ![d] = v] BY <1>2, <1>3
  <1> HIDE DEF v
  <1>6. /\ dev' \in [cf.Devices -> Device(cf)] /\ dev'[d] = v
        /\ \A c \in cf.Devices : c # d => dev'[c] = dev[c]
    BY <1>3, <1>4, <1>5
  <1>7. ClaimFacts(cf)'
    BY <1>1, <1>2, <1>4, <1>6 DEF EventFacts, ClaimFacts, Ledger!NoEventId
  <1>8. CursorFacts(cf)'
    BY <1>4, <1>6, <1>1, <1>2 DEF CursorFacts, Ledger!CursorHonest
  <1> QED BY <1>2, <1>6, <1>7, <1>8, DeviceKeeps

\* A claim of a device is decided: the first claimer of the row wins.
LEMMA ClaimPostKeeps ==
  ASSUME NEW cf, NoticeInv(cf), NEW d \in cf.Devices, NEW r,
         r = <<dev[d].claim, "initial", "browser">>, Ledger(cf)!ClaimPost(d)
  PROVE  NoticeInv(cf)'
  <1>1. /\ NoticeTypes(cf) /\ CallFacts(cf) /\ Alone(cf) /\ RowFacts(cf) /\ QueueFacts
        /\ EventFacts(cf) /\ ClaimFacts(cf) /\ CursorFacts(cf)
    BY DEF NoticeInv
  <1> DEFINE e == dev[d].claim
             won == Ledger(cf)!Claimable(r)
             v == IF won THEN [dev[d] EXCEPT !.claim = Ledger(cf)!NoEventId, !.holds = e]
                  ELSE [dev[d] EXCEPT !.claim = Ledger(cf)!NoEventId]
             w == [row[r] EXCEPT !.state = "claimed", !.by = d, !.token = d]
  <1>2. /\ e # Ledger(cf)!NoEventId
        /\ won => /\ row' = [row EXCEPT ![r].state = "claimed", ![r].by = d, ![r].token = d]
                  /\ dev' = [dev EXCEPT ![d].claim = Ledger(cf)!NoEventId, ![d].holds = e]
                  /\ alerts' = [alerts EXCEPT ![r] = @ + 1]
        /\ ~won => /\ dev' = [dev EXCEPT ![d].claim = Ledger(cf)!NoEventId]
                   /\ UNCHANGED <<row, alerts>>
        /\ UNCHANGED <<event, nextSeq, prod, ntfyOn, backlog, watchers, entered>>
    BY DEF Ledger!ClaimPost
  <1>3. dev \in [cf.Devices -> Device(cf)] /\ dev[d] \in Device(cf) BY <1>1 DEF NoticeTypes
  <1>4. e \in cf.Events /\ ~event[e].aged
    BY <1>1, <1>2, <1>3 DEF Device, Subject, ClaimFacts
  <1>5. /\ v \in Device(cf) /\ v.claim = Ledger(cf)!NoEventId
        /\ v.cursor = dev[d].cursor /\ v.known = dev[d].known
    BY <1>3, <1>4 DEF Device, Subject
  <1>6. dev' = [dev EXCEPT ![d] = v] BY <1>2, <1>3
  <1> HIDE DEF v, won
  <1>7. /\ dev' \in [cf.Devices -> Device(cf)] /\ dev'[d] = v
        /\ \A c \in cf.Devices : c # d => dev'[c] = dev[c]
    BY <1>3, <1>5, <1>6
  <1>8. ClaimFacts(cf)' BY <1>1, <1>2, <1>5, <1>7 DEF ClaimFacts, Ledger!NoEventId
  <1>9. CursorFacts(cf)'
    <2>1. \A c \in cf.Devices : dev'[c].cursor = dev[c].cursor /\ dev'[c].known = dev[c].known
      BY <1>5, <1>7
    <2> QED BY <1>1, <1>2, <2>1 DEF CursorFacts, Ledger!CursorHonest
  <1>10. CASE ~won BY <1>2, <1>7, <1>8, <1>9, <1>10, DeviceKeeps
  <1>11. CASE won
    <2>1. Ledger(cf)!Claimable(r) BY <1>11 DEF won
    <2>2. r \in Ledger(cf)!Rows
      BY <1>1, <1>4, RowsAre DEF Ledger!Phases, Ledger!Channels
    <2>3. row[r] \in Delivery(cf) /\ RowFact(cf, r) /\ r[1] = e /\ r[3] = "browser"
      BY <1>1, <2>2 DEF NoticeTypes, RowFacts
    <2>4. row[r].reporter = "nobody" /\ r \notin entered /\ alerts[r] = 0
      BY <1>1, <2>2, <1>4, <2>1, <2>3 DEF NoticeTypes, RowFact, Archived
    <2>5. /\ row' \in [Ledger(cf)!Rows -> Delivery(cf)]
          /\ row'[r].state = "claimed" /\ row'[r].by = d /\ row'[r].reporter = "nobody"
          /\ \A x \in Ledger(cf)!Rows : x # r => row'[x] = row[x]
      <3>1. w \in Delivery(cf) /\ w.state = "claimed" /\ w.by = d /\ w.reporter = row[r].reporter
        BY <2>3 DEF Delivery, Ledger!States
      <3>2. row \in [Ledger(cf)!Rows -> Delivery(cf)] BY <1>1 DEF NoticeTypes
      <3>3. row' = [row EXCEPT ![r] = w] BY <1>2, <1>11, <2>2, <3>2
      <3> HIDE DEF w
      <3>4. row'[r] = w BY <2>2, <3>2, <3>3
      <3>5. row' \in [Ledger(cf)!Rows -> Delivery(cf)] BY <3>1, <3>2, <3>3
      <3>6. \A x \in Ledger(cf)!Rows : x # r => row'[x] = row[x] BY <3>2, <3>3
      <3> QED BY <2>4, <3>1, <3>4, <3>5, <3>6
    <2>6. /\ alerts' \in [Ledger(cf)!Rows -> Nat] /\ alerts'[r] = 1
          /\ \A x \in Ledger(cf)!Rows : x # r => alerts'[x] = alerts[x]
      <3>1. alerts \in [Ledger(cf)!Rows -> Nat] BY <1>1 DEF NoticeTypes
      <3>2. alerts' = [alerts EXCEPT ![r] = 1] BY <1>2, <1>11, <2>4
      <3> QED BY <2>2, <3>1, <3>2
    <2>7. NoticeTypes(cf)' BY <1>1, <1>2, <1>7, <2>5, <2>6 DEF NoticeTypes, Ledger!Rows
    <2>8. \A x \in Ledger(cf)!Rows : x # r => /\ row'[x] = row[x] /\ alerts'[x] = alerts[x]
                                              /\ (x \in entered' <=> x \in entered)
      BY <1>2, <2>5, <2>6
    <2>9. event' = event BY <1>2
    <2>10. CallFacts(cf)'
      <3> SUFFICES ASSUME NEW q \in cf.Producers PROVE CallFact(cf, q)' BY DEF CallFacts
      <3>1. Publishes(q) => Ledger(cf)!RowOf(q) # r
        BY <1>1, <2>1, PublisherOwns DEF CallFacts
      <3>2. prod'[q] = prod[q] BY <1>2
      <3> QED BY <2>8, <2>9, <3>1, <3>2, OtherCall
    <2>11. Alone(cf)' BY <1>1, <1>2 DEF Alone, Publishes, Ledger!RowOf
    <2>12. RowFacts(cf)'
      <3>1. RowFact(cf, r)' BY <1>2, <2>3, <2>4, <2>5, <2>6 DEF RowFact, Ledger!Claimable
      <3> QED BY <1>1, <2>8, <2>9, <3>1, OtherRows
    <2>13. QueueFacts'
      <3>1. \A i \in 1..Len(backlog) : backlog[i] \in Ledger(cf)!Rows /\ backlog[i] # r
        <4>1. backlog \in Seq(Ledger(cf)!Rows) BY <1>1 DEF NoticeTypes
        <4>2. \A i \in 1..Len(backlog) : backlog[i] \in entered BY <1>1 DEF QueueFacts
        <4> QED BY <4>1, <4>2, <2>4
      <3>2. \A i \in 1..Len(backlog) : alerts'[backlog[i]] = alerts[backlog[i]]
        BY <2>6, <3>1
      <3> QED BY <1>1, <1>2, <3>2, SameQueue
    <2>14. EventFacts(cf)' /\ Ledger(cf)!WatchersBounded'
      BY <1>2, SameEvents, SameWatchers DEF NoticeInv
    <2> QED BY <1>8, <1>9, <2>7, <2>10, <2>11, <2>12, <2>13, <2>14 DEF NoticeInv
  <1> QED BY <1>10, <1>11

\* A device reports what became of the alert it won.
LEMMA PostKeeps ==
  ASSUME NEW cf, NoticeInv(cf), Ledger(cf)!Shape, NEW d \in cf.Devices, NEW e \in cf.Events,
         NEW outcome \in Ledger(cf)!ClientOutcomes, Ledger(cf)!DeliveryPost(d, e, outcome)
  PROVE  NoticeInv(cf)'
  <1>1. /\ NoticeTypes(cf) /\ CallFacts(cf) /\ Alone(cf) /\ RowFacts(cf) /\ QueueFacts
    BY DEF NoticeInv
  <1> DEFINE r == <<e, "initial", "browser">>
             w == [row[r] EXCEPT !.state = outcome, !.reporter = d]
  <1>2. /\ row[r].by = d /\ row[r].state \notin {"none", "pending"}
        /\ row' = [row EXCEPT ![r].state = outcome, ![r].reporter = d]
        /\ UNCHANGED <<event, nextSeq, prod, ntfyOn, backlog, watchers, dev, alerts, entered>>
    BY DEF Ledger!Shape, Ledger!DeliveryPost, Ledger!Provable
  <1>3. r \in Ledger(cf)!Rows /\ r[1] = e /\ r[3] = "browser"
    BY <1>1, RowsAre DEF Ledger!Phases, Ledger!Channels
  <1> HIDE DEF r
  <1>4. row[r] \in Delivery(cf) /\ RowFact(cf, r) BY <1>1, <1>3 DEF NoticeTypes, RowFacts
  <1>5. /\ row' \in [Ledger(cf)!Rows -> Delivery(cf)]
        /\ row'[r].state = outcome /\ row'[r].by = d /\ row'[r].reporter = d
        /\ \A x \in Ledger(cf)!Rows : x # r => row'[x] = row[x]
    <2>1. w \in Delivery(cf) /\ w.state = outcome /\ w.by = d /\ w.reporter = d
      BY <1>2, <1>4 DEF Delivery, Ledger!States
    <2>2. row \in [Ledger(cf)!Rows -> Delivery(cf)] BY <1>1 DEF NoticeTypes
    <2>3. row' = [row EXCEPT ![r] = w] BY <1>2, <1>3, <2>2
    <2> HIDE DEF w
    <2>4. row'[r] = w BY <1>3, <2>2, <2>3
    <2>5. row' \in [Ledger(cf)!Rows -> Delivery(cf)] BY <2>1, <2>2, <2>3
    <2>6. \A x \in Ledger(cf)!Rows : x # r => row'[x] = row[x] BY <2>2, <2>3
    <2> QED BY <2>1, <2>4, <2>5, <2>6
  <1>6. outcome \in {"shown", "failed", "unknown"} BY DEF Ledger!ClientOutcomes
  <1>7. NoticeTypes(cf)' BY <1>1, <1>2, <1>5 DEF NoticeTypes, Ledger!Rows
  <1>8. CallFacts(cf)'
    <2> SUFFICES ASSUME NEW q \in cf.Producers PROVE CallFact(cf, q)' BY DEF CallFacts
    <2>1. CallFact(cf, q) /\ prod'[q] = prod[q] BY <1>1, <1>2 DEF CallFacts
    <2>2. Publishes(q) => Ledger(cf)!RowOf(q) # r /\ Ledger(cf)!RowOf(q) \in Ledger(cf)!Rows
      <3>1. d # "server" BY DEF Ledger!Shape
      <3>2. Publishes(q) => row[Ledger(cf)!RowOf(q)].by = "server" BY <2>1, PublisherOwns
      <3>3. Publishes(q) => Ledger(cf)!RowOf(q) \in Ledger(cf)!Rows BY <1>1, RowsAre DEF Publishes
      <3> QED BY <1>2, <3>1, <3>2, <3>3
    <2>3. Publishes(q) => row'[Ledger(cf)!RowOf(q)] = row[Ledger(cf)!RowOf(q)] BY <1>5, <2>2
    <2> QED BY <1>2, <2>1, <2>3, SameCall
  <1>9. Alone(cf)' BY <1>1, <1>2 DEF Alone, Publishes, Ledger!RowOf
  <1>10. RowFacts(cf)'
    <2> SUFFICES ASSUME NEW x \in Ledger(cf)!Rows PROVE RowFact(cf, x)'
      BY DEF RowFacts, Ledger!Rows
    <2>1. CASE x = r
      BY <1>2, <1>3, <1>4, <1>5, <1>6, <2>1 DEF RowFact, Ledger!Claimable
    <2>2. CASE x # r
      BY <1>1, <1>5, <2>2, <1>2, SameRow DEF RowFacts, Archived
    <2> QED BY <2>1, <2>2
  <1>11. QueueFacts' BY <1>1, <1>2 DEF QueueFacts
  <1>12. EventFacts(cf)' /\ ClaimFacts(cf)' /\ CursorFacts(cf)' /\ Ledger(cf)!WatchersBounded'
    BY <1>2, SameEvents, SameClaims, SameCursors, SameWatchers DEF NoticeInv
  <1> QED BY <1>7, <1>8, <1>9, <1>10, <1>11, <1>12 DEF NoticeInv


\* A page that is not empty has a latest change.
LEMMA Latest ==
  ASSUME NEW S, IsFiniteSet(S), S # {}, \A x \in S : event[x].change \in Nat
  PROVE  \E y \in S : \A x \in S : event[x].change <= event[y].change
  <1> DEFINE F == {A \in SUBSET S : /\ A # {}
                                    /\ \A x \in S, y \in A :
                                          event[y].change <= event[x].change => x \in A}
  <1>1. PICK A \in F : \A B \in F : B \subseteq A => B = A
    <2>1. F \in SUBSET (SUBSET S) /\ S \in F OBVIOUS
    <2> HIDE DEF F
    <2> QED BY <2>1, Minimal
  <1>2. A \in SUBSET S /\ A # {} OBVIOUS
  <1>3. PICK y \in A : TRUE BY <1>2
  <1> SUFFICES ASSUME NEW x \in S, ~(event[x].change <= event[y].change) PROVE FALSE
    BY <1>2, <1>3
  <1> DEFINE B == {z \in S : event[x].change <= event[z].change}
  <1>4. y \in S /\ \A z \in S : event[z].change \in Nat BY <1>2, <1>3
  <1>5. y \notin B /\ x \in B BY <1>4
  <1>6. \A z \in B : z \in S /\ event[y].change <= event[z].change BY <1>4
  <1>7. B \subseteq A BY <1>3, <1>6
  <1>8. \A u \in S, z \in B : event[z].change <= event[u].change => u \in B BY <1>4
  <1>9. B \in F
    <2>1. B \in SUBSET S OBVIOUS
    <2> HIDE DEF B
    <2> QED BY <1>5, <1>8, <2>1
  <1> HIDE DEF F, B
  <1> QED BY <1>1, <1>3, <1>5, <1>7, <1>9

\* What a poll from cursor c returns: the oldest changes after it.
Page(cf, c) ==
    {e \in Ledger(cf)!Fresh(c) :
        Cardinality(Ledger(cf)!Before(e) \cap Ledger(cf)!Fresh(c)) <= cf.PageLimit}

LEMMA PageIs ==
  ASSUME NEW cf, Ledger(cf)!Shape, NoticeTypes(cf), NEW c \in Nat
  PROVE  /\ Page(cf, c) \subseteq cf.Events /\ IsFiniteSet(Page(cf, c))
         /\ \A e \in Page(cf, c) : event[e].live /\ event[e].change > c
         /\ \A e \in Page(cf, c), f \in cf.Events :
               event[f].live /\ event[f].change > c /\ event[f].change <= event[e].change =>
                  f \in Page(cf, c)
  <1> DEFINE F == Ledger(cf)!Fresh(c)
  <1>1. IsFiniteSet(cf.Events) /\ cf.PageLimit \in Nat
    BY Finite DEF Ledger!Shape
  <1>2. \A e \in F : e \in cf.Events /\ event[e].live /\ event[e].change > c
    BY DEF Ledger!Fresh
  <1>3. \A e \in cf.Events : event[e].live /\ event[e].change > c => e \in F
    BY DEF Ledger!Fresh
  <1>4. F \subseteq cf.Events /\ IsFiniteSet(F)
    BY <1>2, <1>1, FS_Subset
  <1> HIDE DEF F
  <1>5. Page(cf, c) \subseteq F BY DEF Page, F
  <1>6. ASSUME NEW e \in Page(cf, c), NEW f \in F, event[f].change <= event[e].change
        PROVE  f \in Page(cf, c)
    <2> DEFINE A == Ledger(cf)!Before(e) \cap F
               B == Ledger(cf)!Before(f) \cap F
    <2>1. \A x \in cf.Events : event[x].change \in Nat BY DEF NoticeTypes, Happening
    <2>2. B \subseteq A
      <3> SUFFICES ASSUME NEW x \in B PROVE x \in A OBVIOUS
      <3>1. x \in cf.Events /\ x \in F /\ event[x].change <= event[f].change BY DEF Ledger!Before
      <3>2. event[x].change <= event[e].change BY <1>4, <1>5, <1>6, <2>1, <3>1
      <3> QED BY <3>1, <3>2 DEF Ledger!Before
    <2>3. IsFiniteSet(A) /\ A \subseteq F
      BY <1>4, FS_Subset
    <2>4. Cardinality(A) <= cf.PageLimit BY DEF Page, F
    <2> HIDE DEF A, B
    <2>5. /\ IsFiniteSet(B) /\ Cardinality(B) <= Cardinality(A)
          /\ Cardinality(A) \in Nat /\ Cardinality(B) \in Nat
      BY <2>2, <2>3, FS_Subset, FS_CardinalityType
    <2>6. Cardinality(B) <= cf.PageLimit BY <1>1, <2>4, <2>5
    <2> QED BY <2>6 DEF Page, F, B
  <1>7. IsFiniteSet(Page(cf, c)) BY <1>4, <1>5, FS_Subset
  <1> QED BY <1>2, <1>3, <1>5, <1>6, <1>7

\* A poll takes the cursor to the latest change of the page, and the device
\* knows of each event on it.
LEMMA PollKeeps ==
  ASSUME NEW cf, Ledger(cf)!Shape, NoticeInv(cf), NEW d \in cf.Devices, NEW c, c = dev[d].cursor,
         Ledger(cf)!Poll(d)
  PROVE  NoticeInv(cf)'
  <1>1. /\ NoticeTypes(cf) /\ EventFacts(cf) /\ ClaimFacts(cf) /\ CursorFacts(cf)
    BY DEF NoticeInv
  <1> DEFINE page == Page(cf, c)
             now_known == [e \in cf.Events |-> IF e \in page
                             THEN IF event[e].read THEN "read" ELSE "unread"
                             ELSE dev[d].known[e]]
             n == Ledger(cf)!NextCursor(c, page)
             v == [dev[d] EXCEPT !.cursor = n, !.known = now_known]
  <1>2. dev \in [cf.Devices -> Device(cf)] /\ dev[d] \in Device(cf) /\ c \in Nat
        /\ nextSeq \in Nat
    BY <1>1 DEF NoticeTypes, Device
  <1>3. {e \in Ledger(cf)!Fresh(c) :
            Ledger(cf)!Cardinality(Ledger(cf)!Before(e) \cap Ledger(cf)!Fresh(c)) <= cf.PageLimit}
          = page
    BY Cardinal DEF Page
  <1>4. /\ page # {}
        /\ dev' = [dev EXCEPT ![d].cursor = n, ![d].known = now_known]
        /\ UNCHANGED <<event, nextSeq, row, prod, ntfyOn, backlog, watchers, alerts, entered>>
    BY <1>2, <1>3 DEF Ledger!Poll, Device, Known
  <1>5. /\ page \subseteq cf.Events /\ IsFiniteSet(page)
        /\ \A e \in page : event[e].live /\ event[e].change > c
        /\ \A e \in page, f \in cf.Events :
              event[f].live /\ event[f].change > c /\ event[f].change <= event[e].change => f \in page
    BY <1>1, <1>2, PageIs
  <1>6. \A e \in cf.Events : event[e].change \in Nat BY <1>1 DEF NoticeTypes, Happening
  <1> HIDE DEF page
  <1>7. \E e \in page : n = event[e].change /\ \A f \in page : event[f].change <= n
    <2>1. \E y \in page : \A x \in page : event[x].change <= event[y].change
      BY <1>4, <1>5, <1>6, Latest
    <2>2. n = CHOOSE m \in {event[e].change : e \in page} : \A e \in page : event[e].change <= m
      BY <1>4 DEF Ledger!NextCursor
    <2>3. \E m \in {event[e].change : e \in page} : \A e \in page : event[e].change <= m
      BY <2>1
    <2> HIDE DEF n
    <2>4. n \in {event[e].change : e \in page} /\ \A e \in page : event[e].change <= n
      BY <2>2, <2>3
    <2> QED BY <2>4
  <1>8. n \in Nat /\ n < nextSeq /\ n > c
    <2>1. PICK e \in page : n = event[e].change BY <1>7
    <2> QED BY <1>1, <1>5, <1>6, <2>1 DEF EventFacts
  <1>9. now_known \in Known(cf)
    BY <1>2 DEF Device, Known
  <1>10. \A e \in cf.Events : now_known[e] = IF e \in page
                                THEN IF event[e].read THEN "read" ELSE "unread"
                                ELSE dev[d].known[e]
    OBVIOUS
  <1> HIDE DEF n, now_known
  <1>11. v \in Device(cf) /\ v.cursor = n /\ v.known = now_known /\ v.claim = dev[d].claim
    BY <1>2, <1>8, <1>9 DEF Device
  <1>12. dev' = [dev EXCEPT ![d] = v] BY <1>2, <1>4
  <1> HIDE DEF v
  <1>13. /\ dev' \in [cf.Devices -> Device(cf)] /\ dev'[d] = v
         /\ \A x \in cf.Devices : x # d => dev'[x] = dev[x]
    BY <1>2, <1>11, <1>12
  <1>14. ClaimFacts(cf)' BY <1>1, <1>4, <1>11, <1>13 DEF ClaimFacts, Ledger!NoEventId
  <1>15. CursorFacts(cf)'
    <2>1. \A x \in cf.Devices : dev'[x].cursor < nextSeq'
      BY <1>1, <1>4, <1>8, <1>11, <1>13 DEF CursorFacts
    <2>2. ASSUME NEW x \in cf.Devices, NEW e \in cf.Events,
                 event[e].live, event[e].change <= dev'[x].cursor
          PROVE  dev'[x].known[e] = IF event[e].read THEN "read" ELSE "unread"
      <3>1. CASE x # d
        BY <1>1, <1>13, <2>2, <3>1 DEF CursorFacts, Ledger!CursorHonest
      <3>2. CASE x = d
        <4>1. dev'[x].known[e] = now_known[e] /\ event[e].change <= n
          BY <1>11, <1>13, <2>2, <3>2
        <4>2. CASE e \in page BY <1>10, <4>1, <4>2
        <4>3. CASE e \notin page
          <5>1. PICK f \in page : n = event[f].change BY <1>7
          <5>2. event[e].change \in Nat /\ event[e].change <= event[f].change BY <1>6, <4>1, <5>1
          <5>3. ~(event[e].change > c) BY <1>5, <2>2, <4>3, <5>2
          <5>4. event[e].change <= c BY <1>2, <5>2, <5>3
          <5>5. dev[d].known[e] = IF event[e].read THEN "read" ELSE "unread"
            BY <1>1, <2>2, <5>4 DEF CursorFacts, Ledger!CursorHonest
          <5> QED BY <1>10, <4>1, <4>3, <5>5
        <4> QED BY <4>2, <4>3
      <3> QED BY <3>1, <3>2
    <2> QED BY <1>4, <2>1, <2>2 DEF CursorFacts, Ledger!CursorHonest
  <1> QED BY <1>4, <1>13, <1>14, <1>15, DeviceKeeps


\* An opt-in moves to the end, and the oldest yield their slots.
LEMMA TrimIs ==
  ASSUME NEW cf, cf.MaxWatchers \in Nat, NEW S, NEW s \in Seq(S), NEW x \in S,
         Distinct(s), \A i \in 1..Len(s) : s[i] # x
  PROVE  /\ Ledger(cf)!Trim(Append(s, x)) \in Seq(S) /\ Distinct(Ledger(cf)!Trim(Append(s, x)))
         /\ Len(Ledger(cf)!Trim(Append(s, x))) <= cf.MaxWatchers
  <1> DEFINE t == Append(s, x)
             m == cf.MaxWatchers
             a == IF Len(t) > m THEN Len(t) - m + 1 ELSE 1
             u == Ledger(cf)!Trim(t)
  <1>1. /\ t \in Seq(S) /\ Len(t) = Len(s) + 1 /\ Len(s) \in Nat /\ t[Len(s) + 1] = x
        /\ \A i \in 1..Len(s) : t[i] = s[i]
    OBVIOUS
  <1>2. u = SubSeq(t, a, Len(t)) BY DEF Ledger!Trim
  <1> HIDE DEF t, u
  <1>3. Distinct(t) BY <1>1 DEF Distinct
  <1>4. a \in 1..(Len(t) + 1) /\ a \in Nat /\ Len(t) - a + 1 <= m BY <1>1
  <1> HIDE DEF a
  <1>5. /\ u \in Seq(S) /\ Len(u) = Len(t) - a + 1
        /\ \A i \in 1..(Len(t) - a + 1) : u[i] = t[a + i - 1]
    BY <1>1, <1>2, <1>4
  <1>6. Distinct(u)
    <2> SUFFICES ASSUME NEW i \in 1..Len(u), NEW j \in 1..Len(u), u[i] = u[j] PROVE i = j
      BY DEF Distinct
    <2>1. a + i - 1 \in 1..Len(t) /\ a + j - 1 \in 1..Len(t) BY <1>1, <1>4, <1>5
    <2>2. t[a + i - 1] = t[a + j - 1] BY <1>5
    <2>3. a + i - 1 = a + j - 1 BY <1>3, <2>1, <2>2 DEF Distinct
    <2>4. i \in Int /\ j \in Int BY <1>1, <1>4, <1>5
    <2> QED BY <1>4, <2>3, <2>4
  <1> QED BY <1>4, <1>5, <1>6 DEF u, t

LEMMA WatchKeeps ==
  ASSUME NEW cf, Ledger(cf)!Shape, NoticeInv(cf), NEW e \in cf.Events, NEW on \in BOOLEAN,
         Ledger(cf)!Watch(e, on)
  PROVE  NoticeInv(cf)'
  <1>1. NoticeTypes(cf) /\ Ledger(cf)!WatchersBounded /\ cf.MaxWatchers \in Nat
    BY DEF NoticeInv, Ledger!Shape
  <1> DEFINE s == Ledger(cf)!Drop(watchers, cf.Run[e])
  <1>2. /\ watchers' = s \/ watchers' = Ledger(cf)!Trim(Append(s, cf.Run[e]))
        /\ UNCHANGED <<event, nextSeq, row, prod, ntfyOn, backlog, dev, alerts, entered>>
    BY DEF Ledger!Watch
  <1>3. watchers \in Seq(RunsOf(cf)) /\ cf.Run[e] \in RunsOf(cf)
    BY <1>1 DEF NoticeTypes, RunsOf
  <1>4. Distinct(watchers) /\ Len(watchers) <= cf.MaxWatchers
    BY <1>1 DEF Ledger!WatchersBounded, Distinct
  <1>5. /\ s \in Seq(RunsOf(cf)) /\ Len(s) <= Len(watchers) /\ Len(s) \in Nat
        /\ Len(watchers) \in Nat /\ Distinct(s) /\ \A i \in 1..Len(s) : s[i] # cf.Run[e]
    BY <1>3, <1>4, DropIs
  <1> HIDE DEF s
  <1>6. /\ watchers' \in Seq(RunsOf(cf)) /\ Distinct(watchers')
        /\ Len(watchers') <= cf.MaxWatchers
    BY <1>1, <1>4, <1>5, <1>3, TrimIs, <1>2
  <1>7. Ledger(cf)!WatchersBounded' BY <1>6 DEF Ledger!WatchersBounded, Distinct
  <1>8. NoticeTypes(cf)' BY <1>1, <1>2, <1>6 DEF NoticeTypes, Ledger!Rows
  <1>9. CallFacts(cf)' BY <1>2, SameCall DEF NoticeInv, CallFacts
  <1>10. Alone(cf)' BY <1>2 DEF NoticeInv, Alone, Publishes, Ledger!RowOf
  <1>11. EventFacts(cf)' /\ ClaimFacts(cf)' /\ CursorFacts(cf)' /\ RowFacts(cf)' /\ QueueFacts'
    BY <1>2, SameEvents, SameClaims, SameCursors, SameRows DEF NoticeInv, QueueFacts
  <1> QED BY <1>7, <1>8, <1>9, <1>10, <1>11 DEF NoticeInv

LEMMA ReconfigureKeeps ==
  ASSUME NEW cf, NoticeInv(cf), Ledger(cf)!Reconfigure
  PROVE  NoticeInv(cf)'
  BY SameCall, SameEvents, SameClaims, SameCursors, SameRows, SameWatchers DEF Ledger!Reconfigure,
     NoticeInv, NoticeTypes, Ledger!Rows, CallFacts, Alone, Publishes, Ledger!RowOf, QueueFacts

\* A crash forgets the calls, the claims not yet decided, the queue and the
\* opt-ins, and leaves the ledger.
LEMMA CrashKeeps ==
  ASSUME NEW cf, Ledger(cf)!Shape, NoticeInv(cf), Ledger(cf)!Crash
  PROVE  NoticeInv(cf)'
  <1>1. /\ prod' = [p \in cf.Producers |-> Ledger(cf)!Idle] /\ backlog' = <<>> /\ watchers' = <<>>
        /\ dev' = [d \in cf.Devices |-> [dev[d] EXCEPT !.claim = Ledger(cf)!NoEventId]]
        /\ UNCHANGED <<event, nextSeq, row, ntfyOn, alerts, entered>>
    BY DEF Ledger!Crash
  <1>2. /\ NoticeTypes(cf) /\ CursorFacts(cf) /\ EventFacts(cf) /\ RowFacts(cf)
        /\ cf.MaxWatchers \in Nat
    BY DEF NoticeInv, Ledger!Shape
  <1>3. Ledger(cf)!Idle \in Call(cf) /\ Ledger(cf)!Idle.pc = "idle"
    BY DEF Ledger!Idle, Call, Subject, Ledger!Phases, Ledger!Channels
  <1>4. prod' \in [cf.Producers -> Call(cf)] /\ \A p \in cf.Producers : prod'[p].pc = "idle"
    BY <1>1, <1>3
  <1>5. ASSUME NEW d \in cf.Devices
        PROVE  /\ dev'[d] \in Device(cf) /\ dev'[d].claim = Ledger(cf)!NoEventId
               /\ dev'[d].cursor = dev[d].cursor /\ dev'[d].known = dev[d].known
    BY <1>1, <1>2 DEF NoticeTypes, Device, Subject
  <1>6. dev' \in [cf.Devices -> Device(cf)] BY <1>1, <1>5
  <1>7. NoticeTypes(cf)' BY <1>1, <1>2, <1>4, <1>6 DEF NoticeTypes, Ledger!Rows
  <1>8. CallFacts(cf)' /\ Alone(cf)' BY <1>4, IdleCall DEF CallFacts, Alone
  <1>9. ClaimFacts(cf)' BY <1>5 DEF ClaimFacts, Ledger!NoEventId
  <1>10. CursorFacts(cf)' BY <1>1, <1>2, <1>5 DEF CursorFacts, Ledger!CursorHonest
  <1>11. EventFacts(cf)' /\ RowFacts(cf)' BY <1>1, <1>2, SameEvents, SameRows
  <1>12. QueueFacts' /\ Ledger(cf)!WatchersBounded' BY <1>1, <1>2 DEF QueueFacts, Ledger!WatchersBounded
  <1> QED BY <1>7, <1>8, <1>9, <1>10, <1>11, <1>12 DEF NoticeInv

\* An event that nobody is dealing with grows old.
LEMMA AgesKeeps ==
  ASSUME NEW cf, NoticeInv(cf), NEW e \in cf.Events, Ledger(cf)!Ages(e)
  PROVE  NoticeInv(cf)'
  <1>1. /\ NoticeTypes(cf) /\ EventFacts(cf) /\ CallFacts(cf) /\ Alone(cf) /\ ClaimFacts(cf)
        /\ RowFacts(cf) /\ QueueFacts /\ CursorFacts(cf)
    BY DEF NoticeInv
  <1>2. /\ event[e].read /\ event' = [event EXCEPT ![e].aged = TRUE]
        /\ UNCHANGED <<nextSeq, row, prod, ntfyOn, backlog, watchers, dev, alerts, entered>>
        /\ \A p \in cf.Producers : prod[p].e # e
        /\ \A d \in cf.Devices : dev[d].claim # e
    BY DEF Ledger!Ages, Ledger!Quiet
  <1>3. event \in [cf.Events -> Happening] /\ event[e] \in Happening BY <1>1 DEF NoticeTypes
  <1> DEFINE v == [event[e] EXCEPT !.aged = TRUE]
  <1>4. /\ v \in Happening /\ v.live = event[e].live /\ v.change = event[e].change
        /\ v.read = event[e].read /\ v.aged = TRUE
    BY <1>3 DEF Happening
  <1>5. event' = [event EXCEPT ![e] = v] BY <1>2, <1>3
  <1> HIDE DEF v
  <1>6. /\ event' \in [cf.Events -> Happening] /\ event'[e] = v
        /\ \A f \in cf.Events : f # e => event'[f] = event[f]
    BY <1>3, <1>4, <1>5
  <1>7. \A f \in cf.Events : /\ event'[f].live = event[f].live /\ event'[f].read = event[f].read
                             /\ event'[f].change = event[f].change
    BY <1>4, <1>6
  <1>8. NoticeTypes(cf)' BY <1>1, <1>2, <1>6 DEF NoticeTypes, Ledger!Rows
  <1>9. EventFacts(cf)' BY <1>1, <1>2, <1>6, <1>7 DEF EventFacts
  <1>10. CallFacts(cf)'
    <2> SUFFICES ASSUME NEW q \in cf.Producers PROVE CallFact(cf, q)' BY DEF CallFacts
    <2>1. CallFact(cf, q) /\ prod'[q] = prod[q] BY <1>1, <1>2 DEF CallFacts
    <2>2. prod[q].pc # "idle" => prod[q].e \in cf.Events BY <1>1 DEF NoticeTypes
    <2>3. prod[q].pc # "idle" => event'[prod[q].e] = event[prod[q].e] BY <1>2, <1>6, <2>2
    <2> QED BY <1>2, <2>1, <2>3, SameCall
  <1>11. Alone(cf)' BY <1>1, <1>2 DEF Alone, Publishes, Ledger!RowOf
  <1>12. ClaimFacts(cf)'
    <2> SUFFICES ASSUME NEW d \in cf.Devices, dev[d].claim # Ledger(cf)!NoEventId
                 PROVE  ~event'[dev[d].claim].aged
      BY <1>2 DEF ClaimFacts, Ledger!NoEventId
    <2>1. dev[d].claim \in cf.Events BY <1>1 DEF NoticeTypes, Device, Subject
    <2> QED BY <1>1, <1>2, <1>6, <2>1 DEF ClaimFacts
  <1>13. RowFacts(cf)'
    <2> SUFFICES ASSUME NEW r \in Ledger(cf)!Rows PROVE RowFact(cf, r)'
      BY DEF RowFacts, Ledger!Rows
    <2>1. RowFact(cf, r) /\ r[1] \in cf.Events BY <1>1, RowsAre DEF RowFacts
    <2>2. Archived(r[1]) => Archived(r[1])' BY <1>4, <1>6, <2>1 DEF Archived
    <2> QED BY <1>2, <2>1, <2>2, SameRow
  <1>14. QueueFacts' BY <1>1, <1>2 DEF QueueFacts
  <1>15. CursorFacts(cf)' BY <1>1, <1>2, <1>7 DEF CursorFacts, Ledger!CursorHonest
  <1>16. Ledger(cf)!WatchersBounded' BY <1>2, SameWatchers DEF NoticeInv
  <1> QED BY <1>8, <1>9, <1>10, <1>11, <1>12, <1>13, <1>14, <1>15, <1>16 DEF NoticeInv

\* The archive takes an event with its deliveries.
LEMMA PruneKeeps ==
  ASSUME NEW cf, NoticeInv(cf), NEW e \in cf.Events, Ledger(cf)!Prune(e)
  PROVE  NoticeInv(cf)'
  <1>1. /\ NoticeTypes(cf) /\ EventFacts(cf) /\ CallFacts(cf) /\ Alone(cf) /\ ClaimFacts(cf)
        /\ RowFacts(cf) /\ QueueFacts /\ CursorFacts(cf)
    BY DEF NoticeInv
  <1> DEFINE v == [Ledger(cf)!NoEvent EXCEPT !.aged = TRUE, !.read = TRUE]
  <1>2. /\ event[e].live /\ event[e].aged /\ event' = [event EXCEPT ![e] = v]
        /\ row' = [r \in Ledger(cf)!Rows |-> IF r[1] = e THEN Ledger(cf)!NoRow ELSE row[r]]
        /\ UNCHANGED <<nextSeq, prod, ntfyOn, backlog, watchers, dev, alerts, entered>>
    BY DEF Ledger!Prune
  <1>3. event \in [cf.Events -> Happening] BY <1>1 DEF NoticeTypes
  <1>4. v \in Happening /\ v.live = FALSE /\ v.read = TRUE /\ v.aged = TRUE
    BY DEF Happening, Ledger!NoEvent
  <1> HIDE DEF v
  <1>5. /\ event' \in [cf.Events -> Happening] /\ event'[e] = v
        /\ \A f \in cf.Events : f # e => event'[f] = event[f]
    BY <1>2, <1>3, <1>4
  <1>6. /\ row' \in [Ledger(cf)!Rows -> Delivery(cf)]
        /\ \A r \in Ledger(cf)!Rows : IF r[1] = e THEN row'[r] = Ledger(cf)!NoRow ELSE row'[r] = row[r]
    BY <1>1, <1>2 DEF Ledger!NoRow, Delivery, Ledger!States, Ledger!ClientOutcomes, NoticeTypes
  <1>7. NoticeTypes(cf)' BY <1>1, <1>2, <1>5, <1>6 DEF NoticeTypes, Ledger!Rows
  <1>8. EventFacts(cf)' BY <1>1, <1>2, <1>4, <1>5 DEF EventFacts
  <1>9. CallFacts(cf)'
    <2> SUFFICES ASSUME NEW q \in cf.Producers PROVE CallFact(cf, q)' BY DEF CallFacts
    <2>1. CallFact(cf, q) /\ prod'[q] = prod[q] BY <1>1, <1>2 DEF CallFacts
    <2>2. prod[q].pc # "idle" => /\ prod[q].e \in cf.Events /\ prod[q].e # e
                                 /\ event'[prod[q].e] = event[prod[q].e]
      BY <1>1, <1>2, <1>5, <2>1 DEF NoticeTypes, CallFact
    <2>3. Publishes(q) => row'[Ledger(cf)!RowOf(q)] = row[Ledger(cf)!RowOf(q)]
      BY <1>1, RowsAre, <1>6, <2>2 DEF Publishes
    <2> QED BY <1>2, <2>1, <2>2, <2>3, SameCall
  <1>10. Alone(cf)' BY <1>1, <1>2 DEF Alone, Publishes, Ledger!RowOf
  <1>11. ClaimFacts(cf)'
    <2> SUFFICES ASSUME NEW d \in cf.Devices, dev[d].claim # Ledger(cf)!NoEventId
                 PROVE  ~event'[dev[d].claim].aged
      BY <1>2 DEF ClaimFacts, Ledger!NoEventId
    <2>1. dev[d].claim \in cf.Events BY <1>1 DEF NoticeTypes, Device, Subject
    <2> QED BY <1>1, <1>2, <1>5, <2>1 DEF ClaimFacts
  <1>12. RowFacts(cf)'
    <2> SUFFICES ASSUME NEW r \in Ledger(cf)!Rows PROVE RowFact(cf, r)'
      BY DEF RowFacts, Ledger!Rows
    <2>1. RowFact(cf, r) /\ r[1] \in cf.Events BY <1>1, RowsAre DEF RowFacts
    <2>2. CASE r[1] = e
      BY <1>4, <1>5, <1>6, <2>2, <1>2, <2>1 DEF Archived, RowFact, Ledger!NoRow
    <2>3. CASE r[1] # e
      BY <1>6, <2>3, <1>5, <2>1, <1>2, SameRow DEF Archived
    <2> QED BY <2>2, <2>3
  <1>13. QueueFacts' BY <1>1, <1>2 DEF QueueFacts
  <1>14. CursorFacts(cf)' BY <1>1, <1>2, <1>4, <1>5 DEF CursorFacts, Ledger!CursorHonest
  <1>15. Ledger(cf)!WatchersBounded' BY <1>2, SameWatchers DEF NoticeInv
  <1> QED BY <1>7, <1>8, <1>9, <1>10, <1>11, <1>12, <1>13, <1>14, <1>15 DEF NoticeInv

LEMMA NoticeKept ==
  ASSUME NEW cf, Ledger(cf)!Shape, NoticeInv(cf), [Ledger(cf)!Next]_(Ledger(cf)!vars)
  PROVE  NoticeInv(cf)'
  <1>1. ASSUME NEW p \in cf.Producers, Ledger(cf)!ProducerStep(p) PROVE NoticeInv(cf)'
    <2>1. PICK r : r = Ledger(cf)!RowOf(p) OBVIOUS
    <2> QED BY <1>1, <2>1, ChecksKeep, RecordKeeps, ClaimOrQueueKeeps, PublishKeeps, NoteKeeps
            DEF Ledger!ProducerStep
  <1>2. ASSUME NEW p \in cf.Producers, NEW e \in cf.Events, NEW phase \in Ledger(cf)!Phases,
               Ledger(cf)!Start(p, e, phase)
        PROVE  NoticeInv(cf)'
    BY <1>2, StartKeeps
  <1>3. CASE Ledger(cf)!Send
    <2>1. PICK r : r = Head(backlog) OBVIOUS
    <2> QED BY <1>3, <2>1, SendKeeps
  <1>4. ASSUME NEW d \in cf.Devices, Ledger(cf)!Poll(d) \/ Ledger(cf)!ClaimPost(d)
        PROVE  NoticeInv(cf)'
    <2>1. PICK c : c = dev[d].cursor OBVIOUS
    <2>2. PICK r : r = <<dev[d].claim, "initial", "browser">> OBVIOUS
    <2> QED BY <1>4, <2>1, <2>2, PollKeeps, ClaimPostKeeps
  <1>5. ASSUME NEW d \in cf.Devices, NEW e \in cf.Events,
               Ledger(cf)!MarkRead(d, e) \/ Ledger(cf)!ClaimChecks(d, e)
        PROVE  NoticeInv(cf)'
    BY <1>5, MarkKeeps, ChecksClaimKeeps
  <1>6. ASSUME NEW d \in cf.Devices, NEW e \in cf.Events, NEW o \in Ledger(cf)!ClientOutcomes,
               Ledger(cf)!DeliveryPost(d, e, o)
        PROVE  NoticeInv(cf)'
    BY <1>6, PostKeeps
  <1>7. ASSUME NEW e \in cf.Events, NEW on \in BOOLEAN, Ledger(cf)!Watch(e, on)
        PROVE  NoticeInv(cf)'
    BY <1>7, WatchKeeps
  <1>8. CASE Ledger(cf)!Reconfigure \/ Ledger(cf)!Crash BY <1>8, ReconfigureKeeps, CrashKeeps
  <1>9. ASSUME NEW e \in cf.Events, Ledger(cf)!Ages(e) \/ Ledger(cf)!Prune(e)
        PROVE  NoticeInv(cf)'
    BY <1>9, AgesKeeps, PruneKeeps
  <1>10. CASE UNCHANGED Ledger(cf)!vars
    BY <1>10, SameClaims, SameCursors, DeviceKeeps DEF Ledger!vars, NoticeInv, NoticeTypes
  <1> QED BY <1>1, <1>2, <1>3, <1>4, <1>5, <1>6, <1>7, <1>8, <1>9, <1>10 DEF Ledger!Next

LEMMA NoticeImplies ==
  ASSUME NEW cf, NoticeInv(cf)
  PROVE  /\ Ledger(cf)!TypeOK /\ Ledger(cf)!OneAlert /\ Ledger(cf)!OnlyOwnerReports
         /\ Ledger(cf)!HonestOutcome /\ Ledger(cf)!ReadSilences /\ Ledger(cf)!CursorHonest
         /\ Ledger(cf)!WatchersBounded
  <1>1. /\ NoticeTypes(cf) /\ CallFacts(cf) /\ RowFacts(cf) /\ CursorFacts(cf)
        /\ Ledger(cf)!WatchersBounded
    BY DEF NoticeInv
  <1>2. Ledger(cf)!TypeOK
    <2>1. \A p \in cf.Producers :
            /\ prod[p].pc \in {"idle", "reminds", "record", "read", "state", "claim",
                               "publish", "note"}
            /\ prod[p].e \in cf.Events \cup {Ledger(cf)!NoEventId}
            /\ prod[p].phase \in Ledger(cf)!Phases /\ prod[p].chan \in Ledger(cf)!Channels
      BY <1>1 DEF NoticeTypes, Call, Subject
    <2>2. \A d \in cf.Devices : dev[d].cursor \in Nat BY <1>1 DEF NoticeTypes, Device
    <2>3. /\ \A i \in 1..Len(backlog) : backlog[i] \in Ledger(cf)!Rows
          /\ \A i \in 1..Len(watchers) : watchers[i] \in {cf.Run[e] : e \in cf.Events}
      <3>1. backlog \in Seq(Ledger(cf)!Rows) /\ watchers \in Seq(RunsOf(cf))
        BY <1>1 DEF NoticeTypes
      <3>2. \A i \in 1..Len(watchers) : watchers[i] \in RunsOf(cf) BY <3>1
      <3> QED BY <3>1, <3>2 DEF RunsOf
    <2> QED BY <1>1, <2>1, <2>2, <2>3 DEF NoticeTypes, Ledger!TypeOK, Happening, Delivery
  <1>3. Ledger(cf)!OneAlert /\ Ledger(cf)!OnlyOwnerReports /\ Ledger(cf)!HonestOutcome
    BY <1>1 DEF RowFacts, RowFact, Ledger!OneAlert, Ledger!OnlyOwnerReports, Ledger!HonestOutcome
  <1>4. Ledger(cf)!ReadSilences BY <1>1 DEF CallFacts, CallFact, Ledger!ReadSilences
  <1> QED BY <1>1, <1>2, <1>3, <1>4 DEF CursorFacts

\* Only the archive takes a delivery, when none of the event is under way.
LEMMA NothingIsTaken ==
  ASSUME NEW cf, Ledger(cf)!Shape, NoticeInv(cf), [Ledger(cf)!Next]_(Ledger(cf)!vars)
  PROVE  Ledger(cf)!NothingArchivedInFlight
  <1> SUFFICES ASSUME NEW r \in Ledger(cf)!Rows, row[r].state \in {"pending", "claimed"}
               PROVE  row'[r].state # "none"
    BY DEF Ledger!NothingArchivedInFlight
  <1>1. NoticeTypes(cf) /\ CallFacts(cf) BY DEF NoticeInv
  <1>2. row \in [Ledger(cf)!Rows -> Delivery(cf)] /\ row[r] \in Delivery(cf)
        /\ r[1] \in cf.Events /\ r[2] \in Ledger(cf)!Phases /\ r[3] \in Ledger(cf)!Channels
        /\ r = <<r[1], r[2], r[3]>>
    BY <1>1, RowsAre DEF NoticeTypes
  <1>3. ASSUME NEW p \in cf.Producers, Ledger(cf)!ClaimOrQueue(p) PROVE row'[r].state # "none"
    <2>1. CASE row' = row BY <2>1
    <2>2. CASE row' = [row EXCEPT ![Ledger(cf)!RowOf(p)].state = "pending"]
      BY <1>2, <2>2 DEF Delivery
    <2>3. CASE row' = [row EXCEPT ![Ledger(cf)!RowOf(p)].state = "claimed",
                                  ![Ledger(cf)!RowOf(p)].by = "server",
                                  ![Ledger(cf)!RowOf(p)].token = "nobody"]
      BY <1>2, <2>3 DEF Delivery
    <2> QED BY <1>3, <2>1, <2>2, <2>3 DEF Ledger!ClaimOrQueue, Ledger!QueueDelivery
  <1>4. ASSUME NEW p \in cf.Producers, Ledger(cf)!NoteDelivery(p) PROVE row'[r].state # "none"
    <2>1. prod[p].outcome # "none"
      BY <1>1, <1>4 DEF CallFacts, Ledger!NoteDelivery, CallFact
    <2>2. \/ row' = row
          \/ row' = [row EXCEPT ![Ledger(cf)!RowOf(p)].state = prod[p].outcome]
      BY <1>4 DEF Ledger!NoteDelivery
    <2> QED BY <1>2, <2>1, <2>2 DEF Delivery
  <1>5. ASSUME NEW d \in cf.Devices, Ledger(cf)!ClaimPost(d) PROVE row'[r].state # "none"
    <2>1. PICK x : x = <<dev[d].claim, "initial", "browser">> OBVIOUS
    <2>2. \/ row' = row
          \/ row' = [row EXCEPT ![x].state = "claimed", ![x].by = d, ![x].token = d]
      BY <1>5, <2>1 DEF Ledger!ClaimPost
    <2> QED BY <1>2, <2>2 DEF Delivery
  <1>6. ASSUME NEW d \in cf.Devices, NEW e \in cf.Events, NEW o \in Ledger(cf)!ClientOutcomes,
               Ledger(cf)!DeliveryPost(d, e, o)
        PROVE  row'[r].state # "none"
    BY <1>6, <1>2 DEF Ledger!DeliveryPost, Ledger!ClientOutcomes, Delivery
  <1>7. ASSUME NEW e \in cf.Events, Ledger(cf)!Prune(e) PROVE row'[r].state # "none"
    <2>1. row'[r] = IF r[1] = e THEN Ledger(cf)!NoRow ELSE row[r] BY <1>7 DEF Ledger!Prune
    <2>2. r[1] # e
      BY <1>7, <1>2 DEF Ledger!Prune, Ledger!Settled, Ledger!ClientOutcomes
    <2> QED BY <2>1, <2>2
  <1>8. row' = row => row'[r].state # "none" BY Zenon
  <1>9. ASSUME NEW p \in cf.Producers, Ledger(cf)!ProducerStep(p) PROVE row'[r].state # "none"
    BY <1>9, <1>3, <1>4, <1>8 DEF Ledger!ProducerStep, Ledger!ReminderAllowed, Ledger!RecordEvent,
       Ledger!CheckRead, Ledger!CheckState, Ledger!Publish
  <1>10. \/ row' = row
         \/ \E p \in cf.Producers : Ledger(cf)!ProducerStep(p)
         \/ \E d \in cf.Devices : Ledger(cf)!ClaimPost(d)
         \/ \E d \in cf.Devices, e \in cf.Events, o \in Ledger(cf)!ClientOutcomes :
               Ledger(cf)!DeliveryPost(d, e, o)
         \/ \E e \in cf.Events : Ledger(cf)!Prune(e)
    BY Zenon
    DEF Ledger!Next, Ledger!vars, Ledger!Start, Ledger!Send, Ledger!Poll, Ledger!MarkRead,
        Ledger!ClaimChecks, Ledger!Watch, Ledger!Reconfigure, Ledger!Crash, Ledger!Ages
  <1> QED BY <1>5, <1>6, <1>7, <1>8, <1>9, <1>10, Zenon

-----------------------------------------------------------------------------
(* The group: in every scenario its component keeps its invariant, whatever *)
(* the records of constants are.                                           *)

AlertsHold ==
    /\ scenario = "delivered" => NoticeInv(Delivered)
    /\ scenario = "reminded" => NoticeInv(Reminded)
    /\ scenario = "paged" => NoticeInv(Paged)
    /\ scenario = "watched" => NoticeInv(Watched)
    /\ scenario = "claimed" => NoticeInv(Claimed)
    /\ scenario = "pushed" => PushInv(Pushed)
    /\ scenario = "covered" => PushInv(Covered)

LEMMA AlertsStart == Init => AlertsHold
  <1> SUFFICES ASSUME Init PROVE AlertsHold OBVIOUS
  <1>1. ASSUME scenario = "delivered" PROVE NoticeInv(Delivered)
    BY <1>1, Instances, NoticesStart DEF Init, Instances
  <1>2. ASSUME scenario = "reminded" PROVE NoticeInv(Reminded)
    BY <1>2, Instances, NoticesStart DEF Init, Instances
  <1>3. ASSUME scenario = "paged" PROVE NoticeInv(Paged)
    BY <1>3, Instances, NoticesStart DEF Init, Instances
  <1>4. ASSUME scenario = "watched" PROVE NoticeInv(Watched)
    BY <1>4, Instances, NoticesStart DEF Init, Instances
  <1>5. ASSUME scenario = "claimed" PROVE NoticeInv(Claimed)
    BY <1>5, Instances, NoticesStart DEF Init, Instances
  <1>6. ASSUME scenario = "pushed" PROVE PushInv(Pushed)
    BY <1>6, Instances, PushStarts DEF Init, Instances
  <1>7. ASSUME scenario = "covered" PROVE PushInv(Covered)
    BY <1>7, Instances, PushStarts DEF Init, Instances
  <1> QED BY <1>1, <1>2, <1>3, <1>4, <1>5, <1>6, <1>7 DEF AlertsHold

\* What the scenario at hand lets its component do.
LEMMA AlertsMove ==
  ASSUME [Next]_vars
  PROVE  /\ scenario' = scenario
         /\ scenario = "delivered" => [Ledger(Delivered)!Next]_(Ledger(Delivered)!vars)
         /\ scenario = "reminded" => [Ledger(Reminded)!Next]_(Ledger(Reminded)!vars)
         /\ scenario = "paged" => [Ledger(Paged)!Next]_(Ledger(Paged)!vars)
         /\ scenario = "watched" => [Ledger(Watched)!Next]_(Ledger(Watched)!vars)
         /\ scenario = "claimed" => [Ledger(Claimed)!Next]_(Ledger(Claimed)!vars)
         /\ scenario = "pushed" => [Exit(Pushed)!Next]_(Exit(Pushed)!vars)
         /\ scenario = "covered" => [Exit(Covered)!Next]_(Exit(Covered)!vars)
  <1>1. CASE Next BY <1>1 DEF Next
  <1>2. CASE UNCHANGED vars
    BY <1>2 DEF vars, NoticeVars, Ledger!vars, PushVars, Exit!vars
  <1> QED BY <1>1, <1>2

LEMMA AlertsKeep == AlertsHold /\ [Next]_vars => AlertsHold'
  <1> SUFFICES ASSUME AlertsHold, [Next]_vars PROVE AlertsHold' OBVIOUS
  <1>0. scenario' = scenario BY AlertsMove
  <1>1. ASSUME scenario = "delivered" PROVE (NoticeInv(Delivered))'
    BY <1>1, AlertsMove, Instances, NoticeKept DEF Instances, AlertsHold
  <1>2. ASSUME scenario = "reminded" PROVE (NoticeInv(Reminded))'
    BY <1>2, AlertsMove, Instances, NoticeKept DEF Instances, AlertsHold
  <1>3. ASSUME scenario = "paged" PROVE (NoticeInv(Paged))'
    BY <1>3, AlertsMove, Instances, NoticeKept DEF Instances, AlertsHold
  <1>4. ASSUME scenario = "watched" PROVE (NoticeInv(Watched))'
    BY <1>4, AlertsMove, Instances, NoticeKept DEF Instances, AlertsHold
  <1>5. ASSUME scenario = "claimed" PROVE (NoticeInv(Claimed))'
    BY <1>5, AlertsMove, Instances, NoticeKept DEF Instances, AlertsHold
  <1>6. ASSUME scenario = "pushed" PROVE (PushInv(Pushed))'
    BY <1>6, AlertsMove, Instances, PushKept DEF Instances, AlertsHold
  <1>7. ASSUME scenario = "covered" PROVE (PushInv(Covered))'
    BY <1>7, AlertsMove, Instances, PushKept DEF Instances, AlertsHold
  <1> QED BY <1>0, <1>1, <1>2, <1>3, <1>4, <1>5, <1>6, <1>7 DEF AlertsHold

LEMMA AlertsHoldAlways == Spec => []AlertsHold
  BY AlertsStart, AlertsKeep, PTL DEF Spec

\* However often an end or an approval is delivered, by however many threads
\* and to however many devices, over restarts, changes of the settings and the
\* archive: one alert per surface and phase, an outcome only from the device
\* that won the claim and never better than what happened, silence once read,
\* cursors that skip nothing and bounded opt-ins (notification_store.py and
\* notification_events.py); and the push of a detached turn says each thing at
\* most once, nothing to a viewer who is there or saw it, and nothing another
\* unit says (the push exit of compat.py).
THEOREM AlertsAreOnce == Spec => []NoticesOnce
  <1>1. AlertsHold => NoticesOnce
    BY NoticeImplies, PushImplies DEF AlertsHold, NoticesOnce
  <1> QED BY <1>1, AlertsHoldAlways, PTL

\* Retention takes no event whose alert is under way, a run that is being
\* stopped or was cancelled pushes nothing more, and a snapshot taken while the
\* hooks are in lists every turn it can find under its session.
THEOREM StepsAreHonest == Spec => StepsHonest
  <1> DEFINE step == /\ scenario = "claimed" => Ledger(Claimed)!NothingArchivedInFlight
                     /\ scenario = "pushed" => Exit(Pushed)!StoppedIsQuiet
                     /\ scenario = "dropped" => Registry(Dropped)!LiveTurnListed
                     /\ scenario = "opened" => Registry(Opened)!LiveTurnListed
                     /\ scenario = "reloaded" => Registry(Reloaded)!LiveTurnListed
  <1>1. AlertsHold /\ KeepsHold /\ [Next]_vars => step
    <2> SUFFICES ASSUME AlertsHold, KeepsHold, [Next]_vars PROVE step OBVIOUS
    <2>1. ASSUME scenario = "claimed" PROVE Ledger(Claimed)!NothingArchivedInFlight
      BY <2>1, AlertsMove, Instances, NothingIsTaken DEF Instances, AlertsHold
    <2>2. ASSUME scenario = "pushed" PROVE Exit(Pushed)!StoppedIsQuiet
      BY <2>2, AlertsMove, Instances, StoppedStaysQuiet DEF Instances, AlertsHold
    <2>3. ASSUME scenario = "dropped" PROVE Registry(Dropped)!LiveTurnListed
      BY <2>3, KeepsMove, SnapshotLists DEF KeepsHold
    <2>4. ASSUME scenario = "opened" PROVE Registry(Opened)!LiveTurnListed
      BY <2>4, KeepsMove, SnapshotLists DEF KeepsHold
    <2>5. ASSUME scenario = "reloaded" PROVE Registry(Reloaded)!LiveTurnListed
      BY <2>5, KeepsMove, SnapshotLists DEF KeepsHold
    <2> QED BY <2>1, <2>2, <2>3, <2>4, <2>5
  <1> QED BY <1>1, AlertsHoldAlways, KeepsHoldAlways, PTL DEF Spec, StepsHonest

=============================================================================

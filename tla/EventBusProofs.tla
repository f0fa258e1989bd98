--------------------------- MODULE EventBusProofs ----------------------------
(***************************************************************************)
(* Proofs about EventBus, for any clients, rows, batch sizes and lifetimes *)
(* of the membership cache.                                                *)
(***************************************************************************)
EXTENDS EventBus, FiniteSetTheorems, SequenceTheorems, WellFoundedInduction, TLAPS

-----------------------------------------------------------------------------
(* Least and greatest row, and what one read returns.                        *)

LEMMA LeastExists ==
  ASSUME NEW S, S \subseteq Nat, S # {}
  PROVE  \E m \in S : \A s \in S : m <= s
<1>1. PICK m \in S : \A s \in S : <<s, m>> \notin OpToRel(<, Nat)
  BY NatLessThanWellFounded, WFMin
<1>2. \A s \in S : ~(s < m)
  BY <1>1 DEF OpToRel
<1> QED
  BY <1>2

LEMMA MinFacts ==
  ASSUME NEW S, S \subseteq Nat, S # {}
  PROVE  Min(S) \in S /\ \A s \in S : Min(S) <= s
BY LeastExists DEF Min

LEMMA MaxFacts ==
  ASSUME NEW S, NEW n \in Nat, S \subseteq 0..n, S # {}
  PROVE  Max(S) \in S /\ \A s \in S : Max(S) >= s
<1> DEFINE T == {n - s : s \in S}
<1>1. \A s \in S : n - s \in T
  OBVIOUS
<1>2. \A t \in T : \E s \in S : t = n - s
  OBVIOUS
<1> HIDE DEF T
<1>3. T \subseteq Nat /\ T # {}
  <2>1. \A s \in S : n - s \in Nat
    OBVIOUS
  <2>2. PICK s \in S : TRUE
    OBVIOUS
  <2>3. n - s \in T
    BY <1>1
  <2> QED
    BY <1>2, <2>1, <2>3
<1>4. PICK t \in T : \A u \in T : t <= u
  BY <1>3, LeastExists
<1>5. PICK m \in S : \A s \in S : m >= s
  BY <1>1, <1>2, <1>4
<1> QED
  BY <1>5 DEF Max

LEMMA HighestFacts ==
  ASSUME NEW S, S \subseteq Seqs
  PROVE  /\ HighestOf(S) \in S \cup {0} /\ \A s \in S : s <= HighestOf(S)
         /\ S # {} => HighestOf(S) \in S
<1>1. S \cup {0} \subseteq 0..MaxSeq /\ S \cup {0} # {}
  BY BoundsAssumption DEF Seqs
<1>2. Max(S \cup {0}) \in S \cup {0} /\ \A s \in S \cup {0} : Max(S \cup {0}) >= s
  BY <1>1, MaxFacts, BoundsAssumption
<1> DEFINE m == Max(S \cup {0})
<1>3. HighestOf(S) = m
  BY DEF HighestOf
<1>4. m \in S \cup {0} /\ (\A s \in S : m >= s) /\ S \subseteq Nat /\ m \in Nat
  BY <1>1, <1>2
<1> HIDE DEF m
<1>5. \A s \in S : s <= m
  BY <1>4
<1>6. ASSUME NEW s \in S
      PROVE  m \in S
  <2>1. s > 0 /\ m >= s
    BY <1>4 DEF Seqs
  <2> QED
    BY <1>4, <2>1
<1> QED
  BY <1>3, <1>4, <1>5, <1>6

\* The rows a read returns of the rows A it could: the Limit lowest.
Lowest(A) == {s \in A : Cardinality({r \in A : r < s}) < Limit}

LEMMA BelowFacts ==
  ASSUME NEW A, A \subseteq Seqs, NEW s
  PROVE  /\ IsFiniteSet({r \in A : r < s}) /\ Cardinality({r \in A : r < s}) \in Nat
         /\ \A t \in Seqs : s \in Seqs /\ s <= t =>
              Cardinality({r \in A : r < s}) <= Cardinality({r \in A : r < t})
<1>1. IsFiniteSet(A)
  <2>1. IsFiniteSet(Seqs)
    BY FS_Interval, BoundsAssumption DEF Seqs
  <2> QED
    BY <2>1, FS_Subset
<1>2. \A t : IsFiniteSet({r \in A : r < t}) /\ Cardinality({r \in A : r < t}) \in Nat
  BY <1>1, FS_Subset, FS_CardinalityType
<1>3. ASSUME NEW t \in Seqs, s \in Seqs, s <= t
      PROVE  {r \in A : r < s} \in SUBSET {r \in A : r < t}
  <2>1. \A r \in A : r \in Int /\ s \in Int /\ t \in Int
    BY <1>3, BoundsAssumption DEF Seqs
  <2>2. \A r \in A : r < s => r < t
    BY <1>3, <2>1
  <2> QED
    BY <2>2
<1> QED
  BY <1>2, <1>3, FS_Subset

\* A read skips nothing below what it returns.
LEMMA LowestIsInitial ==
  ASSUME NEW A, A \subseteq Seqs, NEW b \in Lowest(A), NEW s \in A, s <= b
  PROVE  s \in Lowest(A)
<1>1. b \in Seqs /\ s \in Seqs
  BY DEF Lowest
<1>2. /\ Cardinality({r \in A : r < s}) <= Cardinality({r \in A : r < b})
      /\ Cardinality({r \in A : r < s}) \in Nat /\ Cardinality({r \in A : r < b}) \in Nat
  BY <1>1, BelowFacts
<1> QED
  BY <1>2, BoundsAssumption DEF Lowest

\* A read that is not full has returned all there is.
LEMMA LowestIsAll ==
  ASSUME NEW A, A \subseteq Seqs, Cardinality(Lowest(A)) # Limit
  PROVE  Lowest(A) = A
<1>1. PICK F : F = Lowest(A)
  OBVIOUS
<1>2. F \subseteq A /\ A \subseteq Seqs /\ Seqs \subseteq 0..MaxSeq /\ MaxSeq \in Nat
  BY <1>1, BoundsAssumption DEF Seqs, Lowest
<1>3. \A s \in A : s \in Int /\ s \in Nat
  BY <1>2
<1> SUFFICES ASSUME A \ F # {}
             PROVE  FALSE
  BY <1>1, <1>2
<1>4. PICK m \in A \ F : \A s \in A \ F : m <= s
  BY <1>3, LeastExists
<1>5. F = {r \in A : r < m}
  <2>1. \A r \in A : r < m => r \in F
    BY <1>3, <1>4
  <2>2. \A r \in F : ~(m <= r)
    BY <1>1, <1>4, LowestIsInitial
  <2>3. \A r \in F : r < m
    BY <1>2, <1>3, <1>4, <2>2
  <2> QED
    BY <1>2, <2>1, <2>3
<1>6. Cardinality(F) \in Nat /\ ~(Cardinality(F) < Limit)
  <2>1. m \notin Lowest(A) /\ m \in A
    BY <1>1, <1>4
  <2>2. ~(Cardinality({r \in A : r < m}) < Limit)
    BY <2>1 DEF Lowest
  <2>3. Cardinality({r \in A : r < m}) \in Nat
    BY BelowFacts
  <2> QED
    BY <1>5, <2>2, <2>3
<1>7. PICK g \in F : \A s \in F : g >= s
  <2>1. F # {}
    BY <1>6, FS_EmptySet, BoundsAssumption
  <2>2. F \subseteq 0..MaxSeq
    BY <1>2
  <2> QED
    BY <1>2, <2>1, <2>2, MaxFacts
<1>8. PICK B : B = {r \in A : r < g}
  OBVIOUS
<1>9. IsFiniteSet(B) /\ Cardinality(B) \in Nat /\ Cardinality(B) < Limit
  BY <1>1, <1>7, <1>8, BelowFacts DEF Lowest
<1>10. F = B \cup {g} /\ g \notin B
  <2>1. g \in A /\ g < m
    BY <1>5
  <2>2. \A r \in F : r \in A /\ (r < g \/ r = g)
    BY <1>2, <1>3, <1>7, <2>1
  <2>3. \A r \in A : r < g => r < m
    BY <1>3, <1>4, <2>1
  <2>4. ~(g < g)
    BY <1>3, <2>1
  <2> QED
    BY <1>5, <1>8, <2>1, <2>2, <2>3, <2>4
<1>11. Cardinality(F) = Cardinality(B) + 1
  BY <1>9, <1>10, FS_AddElement
<1> QED
  BY <1>1, <1>6, <1>9, <1>11, BoundsAssumption

LEMMA LowestOfSome ==
  ASSUME NEW A, A \subseteq Seqs, Lowest(A) = {}
  PROVE  A = {}
<1>1. Cardinality(Lowest(A)) = 0 /\ Limit # 0
  BY FS_EmptySet, BoundsAssumption
<1> QED
  BY <1>1, LowestIsAll

LEMMA AppendFacts ==
  ASSUME NEW S, NEW q \in Seq(S), NEW m \in S, NEW r, r = Append(q, m)
  PROVE  /\ r \in Seq(S) /\ DOMAIN q = 1..Len(q) /\ Len(q) \in Nat /\ Len(r) = Len(q) + 1
         /\ \A i \in DOMAIN q : i \in DOMAIN r /\ r[i] = q[i] /\ i < Len(q) + 1
         /\ Len(q) + 1 \in DOMAIN r /\ r[Len(q) + 1] = m
         /\ \A i \in DOMAIN r : i \in DOMAIN q \/ i = Len(q) + 1
<1>1. r \in Seq(S) /\ Len(r) = Len(q) + 1 /\ Len(q) \in Nat
  BY AppendProperties, LenProperties
<1>2. DOMAIN q = 1..Len(q) /\ DOMAIN r = 1..(Len(q) + 1)
  BY <1>1, LenProperties
<1>3. (\A i \in 1..Len(q) : r[i] = q[i]) /\ r[Len(q) + 1] = m
  BY AppendProperties
<1> QED
  BY <1>1, <1>2, <1>3

LEMMA TailFacts ==
  ASSUME NEW S, NEW q \in Seq(S), q # << >>, NEW r, r = Tail(q)
  PROVE  /\ r \in Seq(S) /\ DOMAIN q = 1..Len(q) /\ Len(q) \in Nat /\ Len(r) = Len(q) - 1
         /\ 1 \in DOMAIN q /\ Head(q) = q[1] /\ q[1] \in S
         /\ \A i \in DOMAIN r : i \in Nat \ {0} /\ i + 1 \in DOMAIN q /\ r[i] = q[i + 1]
         /\ \A i \in DOMAIN q : i = 1 \/ (i \in Nat /\ i > 1 /\ i - 1 \in DOMAIN r /\ r[i - 1] = q[i])
<1>1. /\ r \in Seq(S) /\ Len(r) = Len(q) - 1 /\ Len(q) \in Nat \ {0}
      /\ \A i \in 1..Len(r) : r[i] = q[i + 1]
  BY HeadTailProperties, EmptySeq
<1>2. DOMAIN q = 1..Len(q) /\ DOMAIN r = 1..(Len(q) - 1) /\ q \in [1..Len(q) -> S]
  BY <1>1, LenProperties
<1>3. Head(q) = q[1]
  OBVIOUS
<1>4. \A i \in DOMAIN r : i \in Nat \ {0} /\ i + 1 \in DOMAIN q /\ r[i] = q[i + 1]
  BY <1>1, <1>2
<1>5. ASSUME NEW i \in DOMAIN q, i # 1
      PROVE  i \in Nat /\ i > 1 /\ i - 1 \in DOMAIN r /\ r[i - 1] = q[i]
  <2>1. i \in Nat /\ i > 1 /\ i - 1 \in DOMAIN r /\ (i - 1) + 1 = i
    BY <1>1, <1>2, <1>5
  <2> QED
    BY <1>4, <2>1
<1> QED
  BY <1>1, <1>2, <1>3, <1>4, <1>5

-----------------------------------------------------------------------------
(* Type correctness.                                                         *)

\* A stream sends a row it has; an event names a row.
BatchesFilled == \A c \in Clients : at[c] = "send" => batch[c] # {}
EventsAreRows ==
  \A c \in Clients : \A i \in DOMAIN wire[c] : wire[c][i].is = "event" => wire[c][i].id \in Seqs

TypeInv == TypeOK /\ BatchesFilled /\ EventsAreRows

LEMMA HeadFacts ==
  /\ CurrentHead \in Ids /\ (\A s \in Kept : s <= CurrentHead)
  /\ CurrentHead \in Kept \cup {0} /\ (Kept # {} => CurrentHead \in Kept)
  /\ HighestOf(Published) \in Ids /\ (\A s \in Published : s <= HighestOf(Published))
  /\ HighestOf(Published) \in Published \cup {0}
<1>1. Kept \subseteq Seqs /\ Published \subseteq Seqs /\ Seqs \cup {0} \subseteq Ids
  BY BoundsAssumption DEF Kept, Published, Seqs, Ids
<1>2. CurrentHead = HighestOf(Kept)
  BY DEF CurrentHead
<1> QED
  BY <1>1, <1>2, HighestFacts

LEMMA OlderType ==
  ASSUME NEW a \in 0..(Ttl + 1) \cup {None}
  PROVE  Older(a) \in 0..(Ttl + 1) \cup {None}
BY BoundsAssumption DEF Older

\* The row at hand of a stream that sends.
LEMMA BatchRow ==
  ASSUME TypeInv, NEW c \in Clients, Send(c)
  PROVE  /\ Min(batch[c]) \in batch[c] /\ Min(batch[c]) \in Seqs /\ Min(batch[c]) \in Ids
         /\ \A s \in batch[c] : Min(batch[c]) <= s
<1>1. batch[c] \subseteq Seqs /\ batch[c] # {} /\ Seqs \subseteq Nat /\ Seqs \subseteq Ids
  BY BoundsAssumption DEF TypeInv, TypeOK, BatchesFilled, Send, Seqs, Ids
<1> QED
  BY <1>1, MinFacts

\* What a stream sends of a row.
LEMMA SentFacts ==
  ASSUME TypeInv, NEW c \in Clients, Send(c)
  PROVE  /\ \A d \in Clients \ {c} : wire'[d] = wire[d]
         /\ [id |-> Min(batch[c]), is |-> "event"] \in Messages
         /\ wire'[c] = IF Visible(c, Min(batch[c]))
                         THEN Append(wire[c], [id |-> Min(batch[c]), is |-> "event"]) ELSE wire[c]
         /\ wire' \in [Clients -> Seq(Messages)]
<1>1. wire \in [Clients -> Seq(Messages)] /\ [id |-> Min(batch[c]), is |-> "event"] \in Messages
  BY BatchRow DEF TypeInv, TypeOK, Messages
<1>2. Append(wire[c], [id |-> Min(batch[c]), is |-> "event"]) \in Seq(Messages)
  BY <1>1, AppendProperties
<1> QED
  BY <1>1, <1>2 DEF Send

LEMMA WireType ==
  ASSUME TypeInv, NEW c \in Clients, SendReset(c) \/ Send(c) \/ Receive(c)
  PROVE  /\ wire' \in [Clients -> Seq(Messages)] /\ last' \in [Clients -> Ids \cup {None}]
         /\ shown' \in [Clients -> SUBSET Seqs] /\ EventsAreRows'
<1>1. /\ wire \in [Clients -> Seq(Messages)] /\ wire[c] \in Seq(Messages)
      /\ last \in [Clients -> Ids \cup {None}] /\ shown \in [Clients -> SUBSET Seqs]
      /\ EventsAreRows
  BY DEF TypeInv, TypeOK
<1>2. CASE SendReset(c)
  <2> DEFINE m == [id |-> CurrentHead, is |-> "reset"]
  <2>1. m \in Messages /\ m.is = "reset"
    BY HeadFacts DEF Messages
  <2>2. wire' = [wire EXCEPT ![c] = Append(@, m)] /\ UNCHANGED <<last, shown>>
    BY <1>2 DEF SendReset
  <2> HIDE DEF m
  <2>3. wire'[c] = Append(wire[c], m) /\ \A d \in Clients \ {c} : wire'[d] = wire[d]
    BY <1>1, <2>2
  <2>4. wire' \in [Clients -> Seq(Messages)]
    BY <1>1, <2>1, <2>2, AppendProperties
  <2>5. \A i \in DOMAIN wire'[c] : wire'[c][i].is = "event" => wire'[c][i].id \in Seqs
    BY <1>1, <2>1, <2>3, AppendFacts DEF EventsAreRows
  <2> QED
    BY <1>1, <2>2, <2>3, <2>4, <2>5 DEF EventsAreRows
<1>3. CASE Send(c)
  <2> DEFINE m == [id |-> Min(batch[c]), is |-> "event"]
  <2>1. m \in Messages /\ m.id \in Seqs /\ UNCHANGED <<last, shown>>
    BY <1>3, SentFacts, BatchRow DEF Send
  <2>2. /\ wire'[c] = Append(wire[c], m) \/ wire'[c] = wire[c]
        /\ \A d \in Clients \ {c} : wire'[d] = wire[d]
        /\ wire' \in [Clients -> Seq(Messages)]
    BY <1>3, SentFacts
  <2> HIDE DEF m
  <2>3. ASSUME wire'[c] = Append(wire[c], m)
        PROVE  \A i \in DOMAIN wire'[c] : wire'[c][i].is = "event" => wire'[c][i].id \in Seqs
    BY <1>1, <2>1, <2>3, AppendFacts DEF EventsAreRows
  <2> QED
    BY <1>1, <2>1, <2>2, <2>3 DEF EventsAreRows
<1>4. CASE Receive(c)
  <2>1. /\ Head(wire[c]) \in Messages /\ wire'[c] = Tail(wire[c]) /\ wire'[c] \in Seq(Messages)
        /\ Head(wire[c]).is = "event" => Head(wire[c]).id \in Seqs
        /\ \A i \in DOMAIN wire'[c] : i + 1 \in DOMAIN wire[c] /\ wire'[c][i] = wire[c][i + 1]
    BY <1>1, <1>4, TailFacts DEF Receive, EventsAreRows
  <2>2. wire' = [wire EXCEPT ![c] = Tail(wire[c])] /\ wire' \in [Clients -> Seq(Messages)]
    BY <1>1, <1>4, <2>1 DEF Receive
  <2>3. EventsAreRows'
    BY <1>1, <2>1, <2>2 DEF EventsAreRows
  <2>4. Head(wire[c]).id \in Ids /\ Head(wire[c]).is \in {"event", "reset"} /\ Published \subseteq Seqs
    BY <2>1 DEF Messages, Published
  <2>5. Refetched(c, Head(wire[c])) \subseteq Seqs
    BY <1>1, <2>1, <2>4 DEF Refetched
  <2> QED
    BY <1>1, <1>4, <2>2, <2>3, <2>4, <2>5 DEF Receive
<1> QED
  BY <1>2, <1>3, <1>4

LEMMA StreamType ==
  ASSUME TypeInv, NEW c \in Clients,
         Connect(c) \/ Refuse(c) \/ StartCold(c) \/ StartFrom(c) \/ Fetch(c) \/ Woken(c) \/ TimedOut(c)
  PROVE  TypeInv'
<1> USE DEF table, broker, stream, access, browser
<1>1. TypeOK'
  <2> USE DEF TypeInv, TypeOK
  <2>1. CASE Connect(c) \/ Refuse(c)
    BY <2>1 DEF Connect, Refuse
  <2>2. CASE StartCold(c)
    BY <2>2, HeadFacts DEF StartCold
  <2>3. CASE StartFrom(c)
    BY <2>3 DEF StartFrom
  <2>4. CASE Fetch(c)
    <3>1. FetchAfter(c) \subseteq Seqs /\ (Cardinality(FetchAfter(c)) = Limit) \in BOOLEAN
      BY DEF FetchAfter, After, Kept
    <3> QED
      BY <2>4, <3>1 DEF Fetch
  <2>5. CASE Woken(c) \/ TimedOut(c)
    BY <2>5 DEF Woken, TimedOut, Resume
  <2> QED
    BY <2>1, <2>2, <2>3, <2>4, <2>5
<1>2. BatchesFilled'
  <2> /\ at \in [Clients -> {"off", "closed", "open", "reset", "read", "send", "wait"}]
      /\ batch \in [Clients -> SUBSET Seqs] /\ BatchesFilled
    BY DEF TypeInv, TypeOK
  <2>1. CASE Connect(c) \/ Refuse(c) \/ StartCold(c) \/ StartFrom(c)
    BY <2>1 DEF Connect, Refuse, StartCold, StartFrom, BatchesFilled
  <2>2. CASE Fetch(c) \/ Woken(c) \/ TimedOut(c)
    BY <2>2 DEF Fetch, Woken, TimedOut, Resume, BatchesFilled
  <2> QED
    BY <2>1, <2>2
<1>3. EventsAreRows'
  <2>1. UNCHANGED wire
    BY DEF Connect, Refuse, StartCold, StartFrom, Fetch, Woken, TimedOut, Resume
  <2> QED
    BY <2>1 DEF TypeInv, EventsAreRows
<1> QED
  BY <1>1, <1>2, <1>3 DEF TypeInv

LEMMA DeliveryType ==
  ASSUME TypeInv, NEW c \in Clients, SendReset(c) \/ Send(c) \/ Receive(c)
  PROVE  TypeInv'
<1> USE DEF table, broker, stream, access, browser
<1>1. /\ wire' \in [Clients -> Seq(Messages)] /\ last' \in [Clients -> Ids \cup {None}]
      /\ shown' \in [Clients -> SUBSET Seqs] /\ EventsAreRows'
  BY WireType
<1> HIDE DEF browser
<1>2. CASE SendReset(c)
  <2> /\ CurrentHead \in Ids
    BY HeadFacts
  <2> QED
    BY <1>1, <1>2 DEF SendReset, TypeInv, TypeOK, BatchesFilled
<1>3. CASE Send(c)
  <2>1. /\ Min(batch[c]) \in Ids
    BY <1>3, BatchRow
  <2>2. UNCHANGED <<row, kind, listen, inbox, flag, member, gone, upsets, from, heard>>
    BY <1>3 DEF Send
  <2>3. /\ cursor' = [cursor EXCEPT ![c] = Min(batch[c])]
        /\ batch' = [batch EXCEPT ![c] = @ \ {Min(batch[c])}]
        /\ at' = [at EXCEPT ![c] = IF batch[c] = {Min(batch[c])} THEN Rest(full[c]) ELSE "send"]
        /\ full' = [full EXCEPT ![c] = @ /\ batch[c] # {Min(batch[c])}]
    BY <1>3 DEF Send
  <2>4. /\ known' \in [Clients -> BOOLEAN] /\ age' \in [Clients -> 0..(Ttl + 1) \cup {None}]
    <3>1. known \in [Clients -> BOOLEAN] /\ age \in [Clients -> 0..(Ttl + 1) \cup {None}]
      BY DEF TypeInv, TypeOK
    <3>2. (c \in member) \in BOOLEAN /\ 0 \in 0..(Ttl + 1)
      BY BoundsAssumption
    <3>3. \/ UNCHANGED <<known, age>>
          \/ known' = [known EXCEPT ![c] = c \in member] /\ age' = [age EXCEPT ![c] = 0]
      BY <1>3 DEF Send
    <3> QED
      BY <3>1, <3>2, <3>3
  <2>5. TypeOK'
    BY <1>1, <2>1, <2>2, <2>3, <2>4 DEF TypeInv, TypeOK, Rest
  <2>6. BatchesFilled'
    <3>1. /\ batch'[c] = batch[c] \ {Min(batch[c])} /\ Min(batch[c]) \in batch[c]
          /\ at'[c] = "send" => batch[c] # {Min(batch[c])}
          /\ \A d \in Clients \ {c} : at'[d] = at[d] /\ batch'[d] = batch[d]
      BY <1>3, <2>3, BatchRow DEF TypeInv, TypeOK, Rest
    <3> QED
      BY <3>1 DEF TypeInv, BatchesFilled
  <2> QED
    BY <1>1, <2>5, <2>6 DEF TypeInv
<1>4. CASE Receive(c)
  BY <1>1, <1>4 DEF Receive, TypeInv, TypeOK, BatchesFilled
<1> QED
  BY <1>2, <1>3, <1>4

LEMMA ResetType ==
  ASSUME NEW T, NEW f \in [Clients -> T], NEW C, NEW v \in T
  PROVE  Reset(f, C, v) \in [Clients -> T]
BY DEF Reset

LEMMA LoseType ==
  ASSUME TypeInv, NEW C \in SUBSET Clients, Lose(C),
         listen' \in {"down", "up", "lost"}, inbox' \in Nat, heard' \subseteq Seqs
  PROVE  TypeInv'
<1> USE DEF table
<1>1. TypeOK'
  <2>1. /\ at' \in [Clients -> {"off", "closed", "open", "reset", "read", "send", "wait"}]
        /\ cursor' \in [Clients -> Ids] /\ batch' \in [Clients -> SUBSET Seqs]
        /\ full' \in [Clients -> BOOLEAN] /\ flag' \in [Clients -> BOOLEAN]
    <3>1. 0 \in Ids
      BY BoundsAssumption DEF Ids
    <3> QED
      BY <3>1, ResetType DEF Lose, TypeInv, TypeOK
  <2>2. /\ wire' \in [Clients -> Seq(Messages)]
        /\ age' \in [Clients -> 0..(Ttl + 1) \cup {None}] /\ known' \in [Clients -> BOOLEAN]
    BY EmptySeq, ResetType DEF Lose, TypeInv, TypeOK
  <2>3. upsets' \in 0..MaxUpsets
    BY BoundsAssumption DEF Lose, Upset, TypeInv, TypeOK
  <2>4. UNCHANGED <<row, kind, member, gone, last, shown, from>>
    BY DEF Lose
  <2> QED
    BY <2>1, <2>2, <2>3, <2>4 DEF TypeInv, TypeOK
<1>2. BatchesFilled'
  BY DEF Lose, Reset, TypeInv, TypeOK, BatchesFilled
<1>3. EventsAreRows'
  BY DEF Lose, Reset, TypeInv, TypeOK, EventsAreRows
<1> QED
  BY <1>1, <1>2, <1>3 DEF TypeInv

LEMMA TypeStep == TypeInv /\ [Next]_vars => TypeInv'
<1> SUFFICES ASSUME TypeInv, [Next]_vars
             PROVE  TypeInv'
  OBVIOUS
<1> USE DEF table, broker, stream, access, browser
<1> HIDE DEF TypeInv
<1>1. CASE UNCHANGED <<at, batch, wire>> /\ TypeOK'
  BY <1>1 DEF TypeInv, BatchesFilled, EventsAreRows
<1>2. CASE \E k \in Kinds : Publish(k)
  BY <1>1, <1>2 DEF Publish, TypeInv, TypeOK
<1>3. CASE \E s \in Seqs : Commit(s) \/ Rollback(s) \/ Prune(s)
  <2>1. CASE \E s \in Seqs : Commit(s)
    BY <1>1, <2>1 DEF Commit, TypeInv, TypeOK
  <2>2. CASE \E s \in Seqs : Rollback(s)
    BY <1>1, <2>2 DEF Rollback, TypeInv, TypeOK
  <2>3. CASE \E s \in Seqs : Prune(s)
    BY <1>1, <2>3 DEF Prune, TypeInv, TypeOK
  <2> QED
    BY <1>3, <2>1, <2>2, <2>3
<1>4. CASE ConnectListener \/ ListenerFails \/ ListenerDies \/ OnNotify
  <2>1. CASE ConnectListener \/ ListenerFails
    BY <1>1, <2>1 DEF ConnectListener, ListenerFails, WakeAll, TypeInv, TypeOK
  <2>2. CASE ListenerDies
    <3>1. upsets' \in 0..MaxUpsets
      BY <2>2, BoundsAssumption DEF ListenerDies, Upset, TypeInv, TypeOK
    <3> QED
      BY <1>1, <2>2, <3>1 DEF ListenerDies, TypeInv, TypeOK
  <2>3. CASE OnNotify
    BY <1>1, <2>3 DEF OnNotify, WakeAll, TypeInv, TypeOK
  <2> QED
    BY <1>4, <2>1, <2>2, <2>3
<1>5. CASE Tick
  BY <1>1, <1>5, OlderType DEF Tick, TypeInv, TypeOK
<1>6. CASE Restart \/ \E c \in Clients : Drop(c)
  <2>1. CASE Restart
    BY <2>1, LoseType DEF Restart, Live
  <2>2. CASE \E c \in Clients : Drop(c)
    BY <2>2, LoseType DEF Drop, TypeInv, TypeOK
  <2> QED
    BY <1>6, <2>1, <2>2
<1>7. CASE \E c \in Clients : \/ Connect(c) \/ Refuse(c) \/ StartCold(c) \/ StartFrom(c)
                              \/ Fetch(c) \/ Woken(c) \/ TimedOut(c)
  BY <1>7, StreamType
<1>8. CASE \E c \in Clients : SendReset(c) \/ Send(c) \/ Receive(c)
  BY <1>8, DeliveryType
<1>9. CASE \E c \in Clients : Join(c) \/ Leave(c)
  <2>1. upsets' \in 0..MaxUpsets /\ 0 \in 0..(Ttl + 1)
    BY <1>9, BoundsAssumption DEF Join, Leave, Upset, TypeInv, TypeOK
  <2>2. CASE \E c \in Clients : Join(c)
    BY <1>1, <2>1, <2>2 DEF Join, TypeInv, TypeOK
  <2>3. CASE \E c \in Clients : Leave(c)
    BY <1>1, <2>1, <2>3 DEF Leave, TypeInv, TypeOK
  <2> QED
    BY <1>9, <2>2, <2>3
<1>10. CASE UNCHANGED vars
  BY <1>1, <1>10 DEF vars, TypeInv, TypeOK
<1> QED
  BY <1>2, <1>3, <1>4, <1>5, <1>6, <1>7, <1>8, <1>9, <1>10 DEF Next

LEMMA InitType == Init => TypeInv
<1> SUFFICES ASSUME Init
             PROVE  TypeInv
  OBVIOUS
<1>1. wire \in [Clients -> Seq(Messages)]
  BY EmptySeq DEF Init
<1> QED
  BY <1>1, BoundsAssumption DEF Init, TypeInv, TypeOK, BatchesFilled, EventsAreRows, Ids

\* Every variable of the bus keeps its type, through all interleavings of
\* publishers, pruning, streams, breaks and members coming and going.
THEOREM TypeCorrect == Spec => []TypeOK
<1>1. TypeInv => TypeOK
  BY DEF TypeInv
<1> QED
  BY InitType, TypeStep, <1>1, PTL DEF Spec

LEMMA TypeAlways == Spec => []TypeInv
BY InitType, TypeStep, PTL DEF Spec

-----------------------------------------------------------------------------
(* No row of a project is sent to a user who left it more than Ttl ago.      *)

\* A cached membership is not older than the leaving it does not know of.
CacheFits ==
  \A c \in Clients :
    (age[c] # None /\ known[c] /\ c \notin member) => gone[c] # None /\ gone[c] <= age[c]

LEMMA CacheStep == TypeInv /\ CacheFits /\ [Next]_vars => CacheFits'
<1> SUFFICES ASSUME TypeInv, CacheFits, [Next]_vars
             PROVE  CacheFits'
  OBVIOUS
<1> USE DEF table, broker, stream, access, browser
<1>1. /\ age \in [Clients -> 0..(Ttl + 1) \cup {None}]
      /\ gone \in [Clients -> 0..(Ttl + 1) \cup {None}]
      /\ known \in [Clients -> BOOLEAN] /\ member \subseteq Clients
  BY DEF TypeInv, TypeOK
<1>2. CASE UNCHANGED <<age, known, member, gone>>
  BY <1>2 DEF CacheFits
<1>3. CASE \E c \in Clients : Send(c)
  <2>1. PICK c \in Clients : Send(c)
    BY <1>3
  <2>2. CASE known' = [known EXCEPT ![c] = c \in member] /\ UNCHANGED <<member, gone>>
             /\ age' = [age EXCEPT ![c] = 0]
    BY <1>1, <2>2 DEF CacheFits
  <2> QED
    BY <1>2, <2>1, <2>2 DEF Send
<1>4. CASE Tick
  <2>1. ASSUME NEW c \in Clients, age'[c] # None, known'[c], c \notin member'
        PROVE  gone'[c] # None /\ gone'[c] <= age'[c]
    <3>1. age'[c] = Older(age[c]) /\ gone'[c] = Older(gone[c]) /\ UNCHANGED <<known, member>>
      BY <1>4 DEF Tick
    <3>2. age[c] # None
      BY <2>1, <3>1 DEF Older
    <3>3. gone[c] # None /\ gone[c] <= age[c]
      BY <2>1, <3>1, <3>2 DEF CacheFits
    <3>4. age[c] \in 0..(Ttl + 1) /\ gone[c] \in 0..(Ttl + 1)
      BY <1>1, <3>2, <3>3
    <3>5. Older(gone[c]) \in 0..(Ttl + 1) /\ Older(gone[c]) <= Older(age[c])
      BY <3>3, <3>4, BoundsAssumption, NoneAssumption DEF Older
    <3> QED
      BY <3>1, <3>5, NoneAssumption
  <2> QED
    BY <2>1 DEF CacheFits
<1>5. CASE Restart \/ \E c \in Clients : Drop(c)
  <2>1. PICK C : /\ age' = Reset(age, C, None) /\ known' = Reset(known, C, FALSE)
                 /\ UNCHANGED <<member, gone>>
    BY <1>5 DEF Restart, Drop, Lose
  <2>2. \A c \in Clients : known'[c] => c \notin C /\ age'[c] = age[c] /\ known[c]
    BY <2>1 DEF Reset
  <2> QED
    BY <2>1, <2>2 DEF CacheFits
<1>6. CASE \E c \in Clients : Join(c) \/ Leave(c)
  <2>1. PICK c \in Clients : Join(c) \/ Leave(c)
    BY <1>6
  <2>2. /\ UNCHANGED <<age, known>> /\ \A d \in Clients \ {c} : gone'[d] = gone[d]
        /\ \A d \in Clients \ {c} : d \in member' <=> d \in member
        /\ c \in member' \/ gone'[c] = 0
    BY <1>1, <2>1 DEF Join, Leave
  <2>3. 0 # None /\ \A a \in 0..(Ttl + 1) : 0 <= a
    BY NoneAssumption, BoundsAssumption
  <2> QED
    BY <1>1, <2>2, <2>3 DEF CacheFits
<1>7. CASE UNCHANGED vars
  BY <1>2, <1>7 DEF vars
<1>8. CASE (\E k \in Kinds : Publish(k)) \/ \E s \in Seqs : Commit(s) \/ Rollback(s) \/ Prune(s)
  BY <1>2, <1>8 DEF Publish, Commit, Rollback, Prune
<1>9. CASE ConnectListener \/ ListenerFails \/ ListenerDies \/ OnNotify
  BY <1>2, <1>9 DEF ConnectListener, ListenerFails, ListenerDies, OnNotify
<1>10. CASE \E c \in Clients : \/ Connect(c) \/ Refuse(c) \/ StartCold(c) \/ StartFrom(c)
                               \/ SendReset(c) \/ Fetch(c) \/ Woken(c) \/ TimedOut(c) \/ Receive(c)
  BY <1>2, <1>10 DEF Connect, Refuse, StartCold, StartFrom, SendReset, Fetch, Woken, TimedOut,
                     Resume, Receive
<1> QED
  BY <1>3, <1>4, <1>5, <1>6, <1>7, <1>8, <1>9, <1>10 DEF Next

\* What makes a wire longer.
LEMMA LongerWire ==
  ASSUME TypeInv, [Next]_vars, NEW c \in Clients, Len(wire'[c]) > Len(wire[c])
  PROVE  SendReset(c) \/ Send(c)
<1> USE DEF table, broker, stream, access, browser
<1>1. wire \in [Clients -> Seq(Messages)] /\ Len(wire[c]) \in Nat /\ Len(<< >>) = 0
  BY DEF TypeInv, TypeOK
<1>2. CASE wire'[c] = wire[c] \/ wire'[c] = << >>
  <2>1. ~(Len(wire[c]) > Len(wire[c])) /\ ~(0 > Len(wire[c]))
    BY <1>1
  <2> QED
    BY <1>1, <1>2, <2>1
<1>3. CASE \E d \in Clients : SendReset(d) \/ Send(d)
  <2>1. PICK d \in Clients : SendReset(d) \/ Send(d)
    BY <1>3
  <2>2. CASE d = c
    BY <2>1, <2>2
  <2>3. CASE d # c
    <3>1. wire'[c] = wire[c]
      BY <1>1, <2>1, <2>3, SentFacts DEF SendReset
    <3> QED
      BY <1>2, <3>1
  <2> QED
    BY <2>2, <2>3
<1>4. CASE \E d \in Clients : Receive(d)
  <2>1. PICK d \in Clients : Receive(d)
    BY <1>4
  <2>2. CASE d # c
    <3>1. wire'[c] = wire[c]
      BY <1>1, <2>1, <2>2 DEF Receive
    <3> QED
      BY <1>2, <3>1
  <2>3. CASE d = c
    <3>1. wire'[c] = Tail(wire[c]) /\ wire[c] # << >>
      BY <1>1, <2>1, <2>3 DEF Receive
    <3>2. Len(wire'[c]) = Len(wire[c]) - 1
      BY <1>1, <3>1, TailFacts
    <3> QED
      BY <1>1, <3>2
  <2> QED
    BY <2>2, <2>3
<1>5. CASE Restart \/ \E d \in Clients : Drop(d)
  <2>1. PICK C : wire' = Reset(wire, C, << >>)
    BY <1>5 DEF Restart, Drop, Lose
  <2> QED
    BY <1>2, <2>1 DEF Reset
<1>6. CASE UNCHANGED vars
  BY <1>2, <1>6 DEF vars
<1>7. CASE (\E k \in Kinds : Publish(k)) \/ \E s \in Seqs : Commit(s) \/ Rollback(s) \/ Prune(s)
  BY <1>2, <1>7 DEF Publish, Commit, Rollback, Prune
<1>8. CASE ConnectListener \/ ListenerFails \/ ListenerDies \/ OnNotify \/ Tick
  BY <1>2, <1>8 DEF ConnectListener, ListenerFails, ListenerDies, OnNotify, Tick
<1>9. CASE \E d \in Clients : \/ Connect(d) \/ Refuse(d) \/ StartCold(d) \/ StartFrom(d)
                              \/ Fetch(d) \/ Woken(d) \/ TimedOut(d) \/ Join(d) \/ Leave(d)
  BY <1>2, <1>9 DEF Connect, Refuse, StartCold, StartFrom, Fetch, Woken, TimedOut, Resume, Join, Leave
<1> QED
  BY <1>3, <1>4, <1>5, <1>6, <1>7, <1>8, <1>9 DEF Next

\* A project's row that a stream sends goes to a member, or to one whose leaving
\* is younger than the cached membership.
LEMMA SentToMember ==
  ASSUME TypeInv, CacheFits, NEW c \in Clients \ Admins, Send(c), Visible(c, Min(batch[c])),
         kind[Min(batch[c])] = "project"
  PROVE  c \in member \/ (gone[c] # None /\ gone[c] <= Ttl)
<1>1. "project" # c /\ "project" # "public"
  BY AudienceAssumption
<1>2. Belongs(c)
  BY <1>1 DEF Visible
<1>3. CASE Stale(c)
  BY <1>2, <1>3 DEF Belongs
<1>4. CASE ~Stale(c) /\ c \notin member
  <2>1. known[c] /\ age[c] # None /\ ~(age[c] > Ttl)
    BY <1>2, <1>4 DEF Belongs, Stale
  <2>2. gone[c] # None /\ gone[c] <= age[c]
    BY <1>4, <2>1 DEF CacheFits
  <2>3. age[c] \in 0..(Ttl + 1) /\ gone[c] \in 0..(Ttl + 1)
    BY <2>1, <2>2 DEF TypeInv, TypeOK
  <2> QED
    BY <2>1, <2>2, <2>3, BoundsAssumption
<1> QED
  BY <1>3, <1>4

LEMMA RevokedStep ==
  ASSUME TypeInv, CacheFits, [Next]_vars, NEW c \in Clients \ Admins, Len(wire'[c]) > Len(wire[c]),
         wire'[c][Len(wire'[c])].is = "event", kind[wire'[c][Len(wire'[c])].id] = "project"
  PROVE  c \in member \/ (gone[c] # None /\ gone[c] <= Ttl)
<1>1. wire \in [Clients -> Seq(Messages)] /\ wire[c] \in Seq(Messages)
  BY DEF TypeInv, TypeOK
<1>2. CASE SendReset(c)
  <2> DEFINE m == [id |-> CurrentHead, is |-> "reset"]
  <2>1. m \in Messages /\ m.is = "reset" /\ wire'[c] = Append(wire[c], m)
    BY <1>1, <1>2, HeadFacts DEF SendReset, Messages
  <2> HIDE DEF m
  <2>2. wire'[c][Len(wire'[c])] = m
    BY <1>1, <2>1, AppendFacts
  <2> QED
    BY <2>1, <2>2
<1>3. CASE Send(c)
  <2> DEFINE m == [id |-> Min(batch[c]), is |-> "event"]
  <2>1. m \in Messages /\ m.id = Min(batch[c])
        /\ wire'[c] = IF Visible(c, Min(batch[c])) THEN Append(wire[c], m) ELSE wire[c]
    BY <1>3, SentFacts
  <2> HIDE DEF m
  <2>2. Len(wire[c]) \in Nat /\ wire'[c] # wire[c]
    BY <1>1
  <2>3. Visible(c, Min(batch[c])) /\ wire'[c] = Append(wire[c], m)
    BY <2>1, <2>2
  <2>4. wire'[c][Len(wire'[c])] = m
    BY <1>1, <2>1, <2>3, AppendFacts
  <2> QED
    BY <1>3, <2>1, <2>3, <2>4, SentToMember
<1> QED
  BY <1>2, <1>3, LongerWire

\* RevokedInTime: membership is cached per stream, and the row a stream sends to
\* a user who has left the project is sent within Ttl of the leaving, whatever
\* the order of reads, reconnects, ticks and members coming and going.
THEOREM RevocationHolds == Spec => RevokedInTime
<1> DEFINE Step == \A c \in Clients \ Admins :
       Len(wire'[c]) > Len(wire[c]) =>
         LET m == wire'[c][Len(wire'[c])] IN
         (m.is = "event" /\ kind[m.id] = "project") =>
           (c \in member \/ (gone[c] # None /\ gone[c] <= Ttl))
<1>1. Init => CacheFits
  BY DEF Init, CacheFits
<1>2. TypeInv /\ CacheFits /\ [Next]_vars => [Step]_vars
  BY RevokedStep
<1>3. RevokedInTime <=> [][Step]_vars
  BY DEF RevokedInTime
<1> HIDE DEF Step
<1> QED
  BY InitType, TypeStep, CacheStep, <1>1, <1>2, <1>3, PTL DEF Spec

-----------------------------------------------------------------------------
(* No stream sleeps over a row that was announced.                           *)

\* A stream that waits, or will after its batch: what was announced behind its
\* read is in the batch, or the wake-up is set or still to come.
WakeComes(c) == flag[c] \/ inbox > 0
Ahead(c) == {s \in Kept \cap heard : s > cursor[c]}
Sleepless(c) ==
  /\ at[c] = "wait" => Ahead(c) = {} \/ WakeComes(c)
  /\ (at[c] = "send" /\ ~full[c]) => Ahead(c) \subseteq batch[c] \/ WakeComes(c)
  /\ at[c] = "send" => \A b \in batch[c] : b > cursor[c]
AwakeInv == (listen # "up" => heard = {}) /\ \A c \in Clients : Sleepless(c)

LEMMA AwakeStep == TypeInv /\ AwakeInv /\ [Next]_vars => AwakeInv'
<1> SUFFICES ASSUME TypeInv, AwakeInv, [Next]_vars
             PROVE  AwakeInv'
  OBVIOUS
<1> USE DEF table, broker, stream, access, browser
<1>1. /\ at \in [Clients -> {"off", "closed", "open", "reset", "read", "send", "wait"}]
      /\ cursor \in [Clients -> Ids] /\ batch \in [Clients -> SUBSET Seqs]
      /\ full \in [Clients -> BOOLEAN] /\ flag \in [Clients -> BOOLEAN] /\ inbox \in Nat
      /\ row \in [Seqs -> {"none", "open", "kept", "pruned", "undone"}]
  BY DEF TypeInv, TypeOK
<1>2. CASE UNCHANGED <<row, at, cursor, batch, full, flag, listen, inbox, heard>>
  BY <1>2 DEF AwakeInv, Sleepless, Ahead, WakeComes, Kept
\* The table: less to wake for, or a wake-up for what is new.
<1>3. CASE UNCHANGED <<at, cursor, batch, full, flag, listen, inbox>>
           /\ heard' \subseteq heard /\ Kept' \cap heard' \subseteq Kept
  <2>1. \A c \in Clients : Ahead(c)' \subseteq Ahead(c)
    BY <1>3 DEF Ahead
  <2> QED
    BY <1>3, <2>1 DEF AwakeInv, Sleepless, WakeComes
<1>4. CASE \E k \in Kinds : Publish(k)
  <2>1. Kept' \subseteq Kept
    BY <1>1, <1>4 DEF Publish, Kept
  <2> QED
    BY <1>3, <1>4, <2>1 DEF Publish
<1>5. CASE \E s \in Seqs : Rollback(s)
  <2>1. Kept' \subseteq Kept
    BY <1>1, <1>5 DEF Rollback, Kept
  <2> QED
    BY <1>3, <1>5, <2>1 DEF Rollback
<1>6. CASE \E s \in Seqs : Prune(s)
  <2>1. Kept' \subseteq Kept
    BY <1>6 DEF Prune, Kept
  <2> QED
    BY <1>3, <1>6, <2>1 DEF Prune
<1>7. CASE \E s \in Seqs : Commit(s)
  <2>1. PICK s \in Seqs : Commit(s)
    BY <1>7
  <2>2. CASE listen = "up"
    <3>1. inbox' > 0 /\ UNCHANGED <<listen, at, cursor, batch>>
      BY <1>1, <2>1, <2>2 DEF Commit
    <3> QED
      BY <2>2, <3>1 DEF AwakeInv, Sleepless, WakeComes
  <2>3. CASE listen # "up"
    <3>1. heard = {} /\ heard' = {}
      BY <2>1, <2>3 DEF AwakeInv, Commit
    <3> QED
      BY <1>3, <2>1, <2>3, <3>1 DEF Commit
  <2> QED
    BY <2>2, <2>3
\* The connection: it leaves wake-ups or takes what was heard along.
<1>8. CASE heard' = {} /\ \A c \in Clients :
              at'[c] = "send" => UNCHANGED <<at[c], cursor[c], batch[c]>>
  <2>1. \A c \in Clients : Ahead(c)' = {}
    BY <1>8 DEF Ahead
  <2> QED
    BY <1>8, <2>1 DEF AwakeInv, Sleepless
<1>9. CASE ConnectListener
  BY <1>8, <1>9 DEF ConnectListener, AwakeInv
<1>10. CASE ListenerFails
  <2>1. /\ UNCHANGED <<row, at, cursor, batch, full, listen, inbox, heard>>
        /\ \A c \in Clients : flag[c] => flag'[c]
    BY <1>10 DEF ListenerFails, WakeAll
  <2> QED
    BY <2>1 DEF AwakeInv, Sleepless, Ahead, WakeComes, Kept
<1>11. CASE ListenerDies \/ Restart
  BY <1>8, <1>11 DEF ListenerDies, Restart, Lose, Reset, Live
<1>12. CASE OnNotify
  <2>1. /\ UNCHANGED <<at, cursor, batch, full, listen, heard>>
        /\ \A c \in Clients : at[c] \in {"wait", "send"} => flag'[c]
    BY <1>12 DEF OnNotify, WakeAll, Live
  <2> QED
    BY <2>1 DEF AwakeInv, Sleepless, WakeComes
\* A stream of one client.
<1>13. CASE UNCHANGED <<row, listen, inbox, heard>> /\ \E c \in Clients :
              /\ \A d \in Clients \ {c} : /\ at'[d] = at[d] /\ cursor'[d] = cursor[d]
                                          /\ batch'[d] = batch[d] /\ full'[d] = full[d]
                                          /\ flag'[d] = flag[d]
              /\ Sleepless(c)'
  BY <1>13 DEF AwakeInv, Sleepless, Ahead, WakeComes, Kept
<1>14. ASSUME NEW c \in Clients,
              \/ Connect(c) \/ Refuse(c) \/ StartCold(c) \/ StartFrom(c) \/ SendReset(c)
              \/ Woken(c) \/ TimedOut(c) \/ Drop(c)
       PROVE  AwakeInv'
  <2>1. CASE \/ Connect(c) \/ Refuse(c) \/ StartCold(c) \/ StartFrom(c) \/ SendReset(c)
             \/ Woken(c) \/ TimedOut(c)
    <3>1. at'[c] \in {"open", "closed", "read", "reset"}
      BY <1>1, <2>1 DEF Connect, Refuse, StartCold, StartFrom, SendReset, Woken, TimedOut, Resume
    <3>2. Sleepless(c)'
      BY <3>1 DEF Sleepless
    <3>3. /\ UNCHANGED <<row, listen, inbox, heard>>
          /\ \A d \in Clients \ {c} : /\ at'[d] = at[d] /\ cursor'[d] = cursor[d]
                                      /\ batch'[d] = batch[d] /\ full'[d] = full[d]
                                      /\ flag'[d] = flag[d]
      BY <1>1, <2>1 DEF Connect, Refuse, StartCold, StartFrom, SendReset, Woken, TimedOut, Resume
    <3> QED
      BY <1>13, <3>2, <3>3
  <2>2. CASE Drop(c)
    <3>1. Sleepless(c)'
      BY <2>2 DEF Drop, Lose, Reset, Sleepless
    <3>2. /\ UNCHANGED <<row, listen, inbox, heard>>
          /\ \A d \in Clients \ {c} : /\ at'[d] = at[d] /\ cursor'[d] = cursor[d]
                                      /\ batch'[d] = batch[d] /\ full'[d] = full[d]
                                      /\ flag'[d] = flag[d]
      BY <2>2 DEF Drop, Lose, Reset
    <3> QED
      BY <1>13, <3>1, <3>2
  <2> QED
    BY <1>14, <2>1, <2>2
<1>15. ASSUME NEW c \in Clients, Fetch(c)
       PROVE  AwakeInv'
  <2>1. PICK F : F = FetchAfter(c)
    OBVIOUS
  <2>2. /\ batch'[c] = F /\ at'[c] = (IF F = {} THEN "wait" ELSE "send") /\ cursor'[c] = cursor[c]
        /\ full'[c] <=> Cardinality(F) = Limit
    BY <1>1, <1>15, <2>1 DEF Fetch
  <2>3. /\ UNCHANGED <<row, listen, inbox, heard>>
        /\ \A d \in Clients \ {c} : /\ at'[d] = at[d] /\ cursor'[d] = cursor[d]
                                    /\ batch'[d] = batch[d] /\ full'[d] = full[d]
                                    /\ flag'[d] = flag[d]
    BY <1>1, <1>15 DEF Fetch
  <2>4. After(c) \subseteq Seqs /\ F = Lowest(After(c))
    BY <2>1 DEF After, Kept, FetchAfter, Lowest
  <2>5. Ahead(c)' \subseteq After(c)
    BY <2>2, <2>3 DEF Ahead, After, Kept
  <2>6. F = {} => After(c) = {}
    BY <2>4, LowestOfSome
  <2>7. Cardinality(F) # Limit => F = After(c)
    BY <2>4, LowestIsAll
  <2>8. \A b \in F : b > cursor[c]
    BY <2>1 DEF FetchAfter, After
  <2>9. Sleepless(c)'
    BY <2>2, <2>5, <2>6, <2>7, <2>8 DEF Sleepless
  <2> QED
    BY <1>13, <2>3, <2>9
<1>16. ASSUME NEW c \in Clients, Send(c)
       PROVE  AwakeInv'
  <2>1. PICK s : s = Min(batch[c])
    OBVIOUS
  <2>2. /\ cursor'[c] = s /\ batch'[c] = batch[c] \ {s} /\ s \in batch[c]
        /\ at'[c] = (IF batch[c] = {s} THEN Rest(full[c]) ELSE "send")
        /\ full'[c] = (full[c] /\ batch[c] # {s})
        /\ UNCHANGED <<row, listen, inbox, heard, flag>> /\ at[c] = "send"
    BY <1>1, <1>16, <2>1, BatchRow DEF Send
  <2>3. \A d \in Clients \ {c} : /\ at'[d] = at[d] /\ cursor'[d] = cursor[d]
                                 /\ batch'[d] = batch[d] /\ full'[d] = full[d]
    BY <1>1, <1>16 DEF Send
  <2>4. \A b \in batch[c] : b > cursor[c]
    BY <2>2 DEF AwakeInv, Sleepless
  <2>5. \A b \in batch'[c] : b > cursor'[c]
    <3>1. \A b \in batch[c] : b \in Int /\ s \in Int /\ s <= b
      BY <1>1, <1>16, <2>1, BatchRow DEF Seqs
    <3> QED
      BY <2>2, <3>1
  <2>6. Sleepless(c)'
    <3>1. CASE full[c]
      BY <2>2, <2>5, <3>1 DEF Rest, Sleepless
    <3>2. CASE WakeComes(c)
      BY <2>2, <2>5, <3>2 DEF WakeComes, Sleepless
    <3>3. CASE ~full[c] /\ Ahead(c) \subseteq batch[c]
      <4>1. s \in Int /\ cursor[c] \in Int /\ s > cursor[c]
        BY <1>1, <1>16, <2>1, <2>2, <2>4, BatchRow DEF Ids
      <4>2. \A t \in Seqs : t > s => t # s /\ t > cursor[c]
        BY <4>1 DEF Seqs
      <4>3. Ahead(c)' = {t \in Kept \cap heard : t > s}
        BY <2>2 DEF Ahead, Kept
      <4>4. Ahead(c)' \subseteq batch[c] \ {s}
        BY <3>3, <4>2, <4>3 DEF Ahead, Kept
      <4> QED
        BY <2>2, <2>5, <3>3, <4>4 DEF Rest, Sleepless
    <3> QED
      BY <2>2, <3>1, <3>2, <3>3 DEF AwakeInv, Sleepless
  <2> QED
    BY <1>13, <2>2, <2>3, <2>6
<1>17. CASE \E c \in Clients : Receive(c) \/ Join(c) \/ Leave(c)
  BY <1>2, <1>17 DEF Receive, Join, Leave
<1>18. CASE Tick \/ UNCHANGED vars
  BY <1>2, <1>18 DEF Tick, vars
<1> QED
  BY <1>4, <1>5, <1>6, <1>7, <1>9, <1>10, <1>11, <1>12, <1>14, <1>15, <1>16, <1>17, <1>18 DEF Next

\* NoSleepThrough: between a stream's read and its wait rows are committed and
\* wake-ups arrive; whichever comes first, a stream that waits has read every
\* row announced to its process, or its wake-up is set or still to come.
THEOREM StreamsAwake == Spec => []NoSleepThrough
<1>1. Init => AwakeInv
  BY DEF Init, AwakeInv, Sleepless
<1>2. AwakeInv => NoSleepThrough
  BY DEF AwakeInv, Sleepless, Ahead, WakeComes, NoSleepThrough
<1> QED
  BY InitType, TypeStep, AwakeStep, <1>1, <1>2, PTL DEF Spec

-----------------------------------------------------------------------------
(* No commit slips in behind a cursor.                                       *)

\* The table: one open row, next in line; rows are pruned from below, and the
\* newest published one is kept.
Pending == {s \in Seqs : row[s] \in {"none", "open"}}
RowsInOrder ==
  /\ \A s \in Pending, r \in Pending : row[s] = "open" /\ r # s => s < r
  /\ \A r \in Published, s \in Pending : r < s
  /\ \A r \in Published \ Kept, s \in Kept : r < s
  /\ \A r \in Published : \E s \in Kept : r <= s

\* A client: no cursor and no Last-Event-ID is ahead of what is published; a
\* stream that reads has passed what is pruned, and its batch has no gaps.
Behind(c) == \A s \in Pending : cursor[c] < s /\ (last[c] # None => last[c] < s)
Passed(c) ==
  c \in Reading =>
    /\ \A s \in Published : s > cursor[c] => s \in Kept
    /\ last[c] # None => last[c] <= cursor[c]
ReadsOn(c) ==
  at[c] = "send" =>
    /\ batch[c] \subseteq Kept /\ \A b \in batch[c] : b > cursor[c]
    /\ \A b \in batch[c], s \in Published : cursor[c] < s /\ s < b => s \in batch[c]
WireFits(c) ==
  /\ c \notin Reading => wire[c] = << >>
  /\ \A i \in DOMAIN wire[c] : wire[c][i].is = "reset" => i = 1
  /\ at[c] = "reset" => last[c] # None /\ \E k \in Kept : last[c] < k

\* The two halves of NothingSkipped, for one client.
Ordered(c) ==
  \A i \in DOMAIN wire[c] :
    /\ last[c] # None => wire[c][i].id > last[c]
    /\ wire[c][i].id <= cursor[c]
    /\ \A j \in 1..(i - 1) : wire[c][j].id < wire[c][i].id
Complete(c) ==
  \A s \in Published : Due(c, s) =>
    /\ (last[c] # None /\ s <= last[c]) => s \in shown[c]
    /\ (c \in Reading /\ s <= cursor[c]) => s \in shown[c] \/ OnWire(c, s)
ClientFits(c) ==
  Behind(c) /\ Passed(c) /\ ReadsOn(c) /\ WireFits(c) /\ Ordered(c) /\ Complete(c)

SkipInv == TypeInv /\ RowsInOrder /\ \A c \in Clients : ClientFits(c)

LEMMA RowSets ==
  /\ Kept \subseteq Published /\ Published \subseteq Seqs /\ Pending \subseteq Seqs
  /\ Seqs \subseteq Ids /\ Seqs \subseteq Nat /\ Ids \subseteq Nat /\ None \notin Ids /\ 0 \in Ids
BY BoundsAssumption, NoneAssumption DEF Kept, Published, Pending, Seqs, Ids

LEMMA ClientTypes ==
  ASSUME TypeInv, NEW c \in Clients
  PROVE  /\ cursor[c] \in Ids /\ batch[c] \subseteq Seqs /\ wire[c] \in Seq(Messages)
         /\ last[c] \in Ids \cup {None} /\ shown[c] \subseteq Seqs /\ from[c] \in Ids \cup {None}
         /\ DOMAIN wire[c] = 1..Len(wire[c]) /\ Len(wire[c]) \in Nat
         /\ \A i \in DOMAIN wire[c] :
              wire[c][i].id \in Ids /\ wire[c][i].is \in {"event", "reset"} /\ i \in Nat \ {0}
<1>1. /\ cursor[c] \in Ids /\ batch[c] \subseteq Seqs /\ wire[c] \in Seq(Messages)
      /\ last[c] \in Ids \cup {None} /\ shown[c] \subseteq Seqs /\ from[c] \in Ids \cup {None}
  BY DEF TypeInv, TypeOK
<1>2. DOMAIN wire[c] = 1..Len(wire[c]) /\ Len(wire[c]) \in Nat
  BY <1>1, LenProperties
<1>3. \A i \in DOMAIN wire[c] : wire[c][i] \in Messages /\ i \in Nat \ {0}
  BY <1>1, <1>2
<1> QED
  BY <1>1, <1>2, <1>3 DEF Messages

\* A client nothing happens to, while the table keeps its rows.
LEMMA ClientFrame ==
  ASSUME UNCHANGED <<row, kind>>, NEW c \in Clients,
         UNCHANGED <<at[c], cursor[c], batch[c], wire[c], last[c], shown[c], from[c]>>,
         ClientFits(c)
  PROVE  ClientFits(c)'
<1>1. Kept' = Kept /\ Published' = Published /\ Pending' = Pending
  BY DEF Kept, Published, Pending
<1>2. c \in Reading' <=> c \in Reading
  BY DEF Reading
<1>3. Behind(c)' /\ Passed(c)' /\ ReadsOn(c)'
  BY <1>1, <1>2 DEF ClientFits, Behind, Passed, ReadsOn
<1>4. WireFits(c)' /\ Ordered(c)'
  BY <1>1, <1>2 DEF ClientFits, WireFits, Ordered
<1>5. \A s : (Due(c, s)' <=> Due(c, s)) /\ (OnWire(c, s)' <=> OnWire(c, s))
  BY <1>1 DEF Due, CertainFor, OnWire
<1>6. Complete(c)'
  BY <1>1, <1>2, <1>5 DEF ClientFits, Complete
<1> QED
  BY <1>3, <1>4, <1>6 DEF ClientFits

LEMMA RowsFrame ==
  ASSUME RowsInOrder, UNCHANGED row
  PROVE  RowsInOrder' /\ Kept' = Kept /\ Published' = Published /\ Pending' = Pending
BY DEF RowsInOrder, Kept, Published, Pending

\* A client whose stream is not reading and has nothing on its way.
LEMMA ClientIdle ==
  ASSUME NEW c \in Clients, ClientFits(c), UNCHANGED <<row, kind, last[c], shown[c], from[c]>>,
         at'[c] \in {"off", "closed", "open"}, wire'[c] = << >>,
         cursor'[c] = cursor[c] \/ cursor'[c] = 0
  PROVE  ClientFits(c)'
<1>1. Kept' = Kept /\ Published' = Published /\ Pending' = Pending
  BY DEF Kept, Published, Pending
<1>2. c \notin Reading'
  BY DEF Reading
<1>3. Behind(c)'
  <2>1. \A s \in Pending : 0 < s
    BY DEF Pending, Seqs
  <2> QED
    BY <1>1, <2>1 DEF ClientFits, Behind
<1>4. Passed(c)' /\ ReadsOn(c)'
  BY <1>2 DEF Passed, ReadsOn
<1>5. WireFits(c)' /\ Ordered(c)'
  BY DEF WireFits, Ordered
<1>6. \A s : Due(c, s)' <=> Due(c, s)
  BY <1>1 DEF Due, CertainFor
<1>7. Complete(c)'
  BY <1>1, <1>2, <1>6 DEF ClientFits, Complete
<1> QED
  BY <1>3, <1>4, <1>5, <1>7 DEF ClientFits

-----------------------------------------------------------------------------
(* The table changes: publish, commit, roll back, prune.                     *)

\* What a commit adds lies above everything published and passed.
LEMMA CommitKeeps ==
  ASSUME SkipInv, NEW s \in Seqs, Commit(s)
  PROVE  RowsInOrder' /\ \A c \in Clients : ClientFits(c)'
<1> USE DEF stream, access, browser
<1>1. row \in [Seqs -> {"none", "open", "kept", "pruned", "undone"}] /\ RowsInOrder
      /\ row' = [row EXCEPT ![s] = "kept"] /\ row[s] = "open"
  BY DEF SkipInv, TypeInv, TypeOK, Commit
<1>2. /\ Pending' = Pending \ {s} /\ s \in Pending
      /\ Kept' = Kept \cup {s} /\ Published' = Published \cup {s}
      /\ \A r \in Pending' : row'[r] = row[r]
  BY <1>1 DEF Pending, Kept, Published
<1>3. (\A r \in Published : r < s) /\ \A r \in Pending' : s < r
  BY <1>1, <1>2 DEF RowsInOrder
<1>4. RowsInOrder'
  <2>1. \A r \in Pending', t \in Pending' : row'[r] = "open" /\ t # r => r < t
    BY <1>1, <1>2 DEF RowsInOrder
  <2>2. \A r \in Published', t \in Pending' : r < t
    BY <1>1, <1>2, <1>3 DEF RowsInOrder
  <2>3. \A r \in Published' \ Kept', t \in Kept' : r < t
    BY <1>1, <1>2, <1>3 DEF RowsInOrder
  <2>4. \A r \in Published' : \E t \in Kept' : r <= t
    BY <1>1, <1>2, <1>3, RowSets DEF RowsInOrder
  <2> QED
    BY <2>1, <2>2, <2>3, <2>4 DEF RowsInOrder
<1>5. ASSUME NEW c \in Clients
      PROVE  ClientFits(c)'
  <2>1. ClientFits(c) /\ cursor[c] < s /\ (last[c] # None => last[c] < s)
    BY <1>2 DEF SkipInv, ClientFits, Behind
  <2>2. UNCHANGED <<kind, at[c], cursor[c], batch[c], wire[c], last[c], shown[c], from[c]>>
        /\ (c \in Reading' <=> c \in Reading)
    BY DEF Commit, Reading
  <2>3. Behind(c)'
    BY <1>2, <2>1, <2>2 DEF ClientFits, Behind
  <2>4. Passed(c)'
    BY <1>2, <2>1, <2>2 DEF ClientFits, Passed
  <2>5. ReadsOn(c)'
    <3>1. \A b \in Kept : b < s /\ ~(s < b)
      BY <1>3, RowSets
    <3> QED
      BY <1>2, <2>1, <2>2, <3>1 DEF ClientFits, ReadsOn
  <2>6. WireFits(c)' /\ Ordered(c)'
    <3>1. Kept \subseteq Kept'
      BY <1>2
    <3>2. WireFits(c)'
      BY <2>1, <2>2, <3>1 DEF ClientFits, WireFits
    <3>3. Ordered(c)'
      BY <2>1, <2>2 DEF ClientFits, Ordered
    <3> QED
      BY <3>2, <3>3
  <2>7. cursor[c] \in Ids /\ last[c] \in Ids \cup {None}
    BY ClientTypes DEF SkipInv
  <2>8. Complete(c)'
    <3>1. \A r \in Published : (Due(c, r)' <=> Due(c, r)) /\ (OnWire(c, r)' <=> OnWire(c, r))
      BY <1>2, <2>2 DEF Due, CertainFor, OnWire
    <3>2. ~(s <= cursor[c]) /\ (last[c] # None => ~(s <= last[c]))
      <4>1. cursor[c] \in Nat /\ (last[c] # None => last[c] \in Nat) /\ s \in Nat
        BY <2>7, RowSets
      <4> QED
        BY <2>1, <4>1
    <3> QED
      BY <1>2, <2>1, <2>2, <3>1, <3>2 DEF ClientFits, Complete
  <2> QED
    BY <2>3, <2>4, <2>5, <2>6, <2>8 DEF ClientFits
<1> QED
  BY <1>4, <1>5

\* Before it commits a row is in nobody's sight.
LEMMA OpenKeeps ==
  ASSUME SkipInv, (\E k \in Kinds : Publish(k)) \/ \E s \in Seqs : Rollback(s)
  PROVE  RowsInOrder' /\ \A c \in Clients : ClientFits(c)'
<1> USE DEF broker, stream, access, browser
<1>1. row \in [Seqs -> {"none", "open", "kept", "pruned", "undone"}] /\ RowsInOrder
      /\ kind \in [Seqs -> Kinds \cup {None}]
  BY DEF SkipInv, TypeInv, TypeOK
<1>2. /\ Kept' = Kept /\ Published' = Published /\ Pending' \subseteq Pending
      /\ \A r \in Published : kind'[r] = kind[r]
      /\ \A s \in Pending', r \in Pending' : row'[s] = "open" /\ r # s => s < r
  <2>1. CASE \E k \in Kinds : Publish(k)
    <3>1. PICK k \in Kinds, s \in Seqs :
            /\ row[s] = "none" /\ \A r \in 1..(s - 1) : row[r] # "none"
            /\ row' = [row EXCEPT ![s] = "open"] /\ kind' = [kind EXCEPT ![s] = k]
            /\ \A r \in Seqs : row[r] # "open"
      BY <2>1 DEF Publish, LockFree
    <3>2. /\ Kept' = Kept /\ Published' = Published /\ Pending' = Pending
          /\ \A r \in Published : kind'[r] = kind[r]
      BY <1>1, <3>1 DEF Kept, Published, Pending
    <3>3. ASSUME NEW t \in Pending', NEW r \in Pending', row'[t] = "open", r # t
          PROVE  t < r
      <4>1. t = s /\ row[r] = "none" /\ r \in Seqs
        BY <1>1, <3>1, <3>3 DEF Pending
      <4>2. r \notin 1..(s - 1)
        BY <3>1, <4>1
      <4> QED
        BY <3>3, <4>1, <4>2 DEF Seqs
    <3> QED
      BY <3>2, <3>3
  <2>2. CASE \E s \in Seqs : Rollback(s)
    <3>1. PICK s \in Seqs : row[s] = "open" /\ row' = [row EXCEPT ![s] = "undone"]
                            /\ kind' = [kind EXCEPT ![s] = None]
      BY <2>2 DEF Rollback
    <3>2. /\ Kept' = Kept /\ Published' = Published /\ Pending' = Pending \ {s}
          /\ \A r \in Published : kind'[r] = kind[r] /\ \A t \in Pending' : row'[t] = row[t]
      BY <1>1, <3>1 DEF Kept, Published, Pending
    <3>3. \A t \in Pending' : row'[t] = row[t]
      BY <1>1, <3>1 DEF Pending
    <3> QED
      BY <1>1, <3>2, <3>3 DEF RowsInOrder
  <2> QED
    BY <2>1, <2>2
<1>3. RowsInOrder'
  BY <1>1, <1>2 DEF RowsInOrder
<1>4. ASSUME NEW c \in Clients
      PROVE  ClientFits(c)'
  <2>1. ClientFits(c)
    BY DEF SkipInv
  <2>2. UNCHANGED <<at, cursor, batch, wire, last, shown, from>> /\ (c \in Reading' <=> c \in Reading)
    BY DEF Publish, Rollback, Reading
  <2>3. Behind(c)' /\ Passed(c)' /\ ReadsOn(c)'
    BY <1>2, <2>1, <2>2 DEF ClientFits, Behind, Passed, ReadsOn
  <2>4. WireFits(c)' /\ Ordered(c)'
    BY <1>2, <2>1, <2>2 DEF ClientFits, WireFits, Ordered
  <2>5. \A r \in Published : (Due(c, r)' <=> Due(c, r)) /\ (OnWire(c, r)' <=> OnWire(c, r))
    BY <1>2, <2>2 DEF Due, CertainFor, OnWire
  <2>6. Complete(c)'
    BY <1>2, <2>1, <2>2, <2>5 DEF ClientFits, Complete
  <2> QED
    BY <2>3, <2>4, <2>6 DEF ClientFits
<1> QED
  BY <1>3, <1>4

\* What is pruned is behind every stream that reads, and the head stays.
LEMMA PruneKeeps ==
  ASSUME SkipInv, ~MayEmpty, NEW cut \in Seqs, Prune(cut)
  PROVE  RowsInOrder' /\ \A c \in Clients : ClientFits(c)'
<1> USE DEF broker, stream, access, browser
<1>1. row \in [Seqs -> {"none", "open", "kept", "pruned", "undone"}] /\ RowsInOrder
      /\ cut \in Kept /\ cut < CurrentHead /\ \A c \in Reading : cut <= cursor[c]
  BY DEF SkipInv, TypeInv, TypeOK, Prune
<1>2. row' = [s \in Seqs |-> IF s \in Kept /\ s <= cut THEN "pruned" ELSE row[s]]
      /\ UNCHANGED <<kind, at, cursor, batch, wire, last, shown, from>>
  BY DEF Prune
<1>3. /\ Kept' = {s \in Kept : ~(s <= cut)} /\ Published' = Published /\ Pending' = Pending
      /\ \A r \in Pending : row'[r] = row[r]
  BY <1>1, <1>2 DEF Kept, Published, Pending
<1>4. \A r \in Published : r \in Int /\ cut \in Int
  BY RowSets
<1>5. CurrentHead \in Kept' /\ \A s \in Kept : s <= CurrentHead
  <2>1. CurrentHead \in Kept /\ CurrentHead \in Int /\ \A s \in Kept : s <= CurrentHead
    BY <1>1, HeadFacts, RowSets
  <2> QED
    BY <1>1, <1>3, <1>4, <2>1
<1>6. RowsInOrder'
  <2>1. \A r \in Published' \ Kept', t \in Kept' : r < t
    <3>1. \A r \in Published : (r <= cut /\ r \in Kept) \/ r \notin Kept \/ r \in Kept'
      BY <1>3
    <3>2. \A t \in Kept' : t \in Kept /\ t \in Int /\ cut < t
      BY <1>3, <1>4, RowSets
    <3>3. ASSUME NEW r \in Published \ Kept', NEW t \in Kept'
          PROVE  r < t
      <4>1. CASE r \notin Kept
        BY <1>1, <3>2, <3>3, <4>1 DEF RowsInOrder
      <4>2. CASE r <= cut
        BY <1>4, <3>2, <3>3, <4>2
      <4> QED
        BY <3>1, <3>3, <4>1, <4>2
    <3> QED
      BY <1>3, <3>3
  <2>2. \A r \in Published' : \E t \in Kept' : r <= t
    <3>1. ASSUME NEW r \in Published
          PROVE  r <= CurrentHead
      <4>1. PICK t \in Kept : r <= t
        BY <1>1 DEF RowsInOrder
      <4>2. t \in Int /\ r \in Int /\ CurrentHead \in Int /\ t <= CurrentHead
        BY <1>4, <1>5, RowSets, HeadFacts
      <4> QED
        BY <4>1, <4>2
    <3> QED
      BY <1>3, <1>5, <3>1
  <2> QED
    BY <1>1, <1>3, <2>1, <2>2 DEF RowsInOrder
<1>7. ASSUME NEW c \in Clients
      PROVE  ClientFits(c)'
  <2>0. cursor[c] \in Ids /\ last[c] \in Ids \cup {None}
    BY ClientTypes DEF SkipInv
  <2>1. ClientFits(c) /\ (c \in Reading' <=> c \in Reading) /\ cursor[c] \in Int
    <3>1. cursor[c] \in Nat
      BY <2>0, RowSets
    <3> QED
      BY <1>2, <3>1 DEF SkipInv, Reading
  <2>2. Behind(c)'
    BY <1>2, <1>3, <2>1 DEF ClientFits, Behind
  <2>3. \A s \in Kept : c \in Reading /\ s > cursor[c] => s \in Kept'
    BY <1>1, <1>3, <1>4, <2>1, RowSets
  <2>4. Passed(c)'
    BY <1>2, <1>3, <2>1, <2>3 DEF ClientFits, Passed
  <2>5. ReadsOn(c)'
    <3>1. at[c] = "send" => c \in Reading
      BY DEF Reading
    <3> QED
      BY <1>2, <1>3, <2>1, <2>3, <3>1 DEF ClientFits, ReadsOn
  <2>6. WireFits(c)'
    <3>1. ASSUME at[c] = "reset"
          PROVE  last[c] < CurrentHead
      <4>1. PICK k \in Kept : last[c] < k
        BY <2>1, <3>1 DEF ClientFits, WireFits
      <4>2. last[c] # None
        BY <2>1, <3>1 DEF ClientFits, WireFits
      <4>3. CurrentHead \in Nat /\ last[c] \in Nat
        BY <2>0, <4>2, RowSets, HeadFacts
      <4>4. k <= CurrentHead /\ k \in Nat
        BY <1>5, RowSets
      <4> QED
        BY <4>1, <4>3, <4>4
    <3> QED
      BY <1>2, <1>5, <2>1, <3>1 DEF ClientFits, WireFits
  <2>7. Ordered(c)'
    BY <1>2, <2>1 DEF ClientFits, Ordered
  <2>8. \A r : (Due(c, r)' <=> Due(c, r)) /\ (OnWire(c, r)' <=> OnWire(c, r))
    BY <1>2, <1>3 DEF Due, CertainFor, OnWire
  <2>9. Complete(c)'
    BY <1>2, <1>3, <2>1, <2>8 DEF ClientFits, Complete
  <2> QED
    BY <2>2, <2>4, <2>5, <2>6, <2>7, <2>9 DEF ClientFits
<1> QED
  BY <1>6, <1>7

-----------------------------------------------------------------------------
(* A stream starts: at the head, at the last id, or with a reset.            *)

LEMMA HeadIsPast ==
  ASSUME RowsInOrder
  PROVE  /\ \A s \in Published : s <= CurrentHead
         /\ \A s \in Pending : CurrentHead < s
<1>1. /\ CurrentHead \in Nat /\ (\A s \in Kept : s <= CurrentHead) /\ Published \subseteq Nat
      /\ CurrentHead \in Kept \cup {0} /\ Kept \subseteq Published /\ \A s \in Pending : 0 < s
  BY HeadFacts, RowSets DEF Pending, Seqs
<1>2. ASSUME NEW s \in Published
      PROVE  s <= CurrentHead
  <2>1. PICK k \in Kept : s <= k
    BY DEF RowsInOrder
  <2>2. k <= CurrentHead /\ k \in Nat /\ s \in Nat
    BY <1>1
  <2> QED
    BY <1>1, <2>1, <2>2
<1>3. \A s \in Pending : CurrentHead < s
  BY <1>1 DEF RowsInOrder
<1> QED
  BY <1>2, <1>3

LEMMA StartColdKeeps ==
  ASSUME SkipInv, NEW c \in Clients, StartCold(c)
  PROVE  ClientFits(c)'
<1> USE DEF table, broker, access, browser
<1>1. /\ RowsInOrder /\ ClientFits(c) /\ TypeInv /\ at[c] = "open" /\ last[c] = None
      /\ UNCHANGED <<row, kind, wire, last, shown>>
  BY DEF SkipInv, StartCold
<1>2. at'[c] = "read" /\ cursor'[c] = CurrentHead /\ from'[c] = HighestOf(Published)
  BY <1>1 DEF StartCold, TypeInv, TypeOK
<1>3. wire[c] = << >>
  BY <1>1 DEF ClientFits, WireFits, Reading
<1>4. Kept' = Kept /\ Published' = Published /\ Pending' = Pending
  BY <1>1, RowsFrame
<1>5. /\ CurrentHead \in Nat /\ HighestOf(Published) \in Nat
      /\ \A s \in Published : s \in Nat /\ s <= HighestOf(Published)
  <2>1. Ids \subseteq Nat /\ Published \subseteq Nat
    BY RowSets
  <2> QED
    BY <2>1, HeadFacts
<1>6. Behind(c)'
  BY <1>1, <1>2, <1>4, HeadIsPast DEF Behind
<1>7. Passed(c)'
  <2>1. \A s \in Published : ~(s > CurrentHead)
    BY <1>1, <1>5, HeadIsPast
  <2> QED
    BY <1>1, <1>2, <1>4, <2>1 DEF Passed
<1>8. ReadsOn(c)' /\ WireFits(c)' /\ Ordered(c)'
  BY <1>1, <1>2, <1>3 DEF ReadsOn, WireFits, Ordered, Reading
<1>9. Complete(c)'
  <2>1. \A s \in Published : ~(s > HighestOf(Published))
    BY <1>5
  <2>2. \A s : ~Due(c, s)'
    BY <1>2, <1>4, <2>1 DEF Due
  <2> QED
    BY <2>2 DEF Complete
<1> QED
  BY <1>6, <1>7, <1>8, <1>9 DEF ClientFits

LEMMA StartFromKeeps ==
  ASSUME SkipInv, NEW c \in Clients, StartFrom(c)
  PROVE  ClientFits(c)'
<1> USE DEF table, broker, access, browser
<1>1. /\ RowsInOrder /\ ClientFits(c) /\ TypeInv /\ at[c] = "open" /\ last[c] # None
      /\ UNCHANGED <<row, kind, wire, last, shown, from>>
  BY DEF SkipInv, StartFrom
<1>2. at'[c] = (IF Outdated(last[c]) THEN "reset" ELSE "read") /\ cursor'[c] = last[c]
  BY <1>1 DEF StartFrom, TypeInv, TypeOK
<1>3. wire[c] = << >> /\ last[c] \in Nat
  <2>1. last[c] \in Ids
    BY <1>1, ClientTypes
  <2> QED
    BY <1>1, <2>1, RowSets DEF ClientFits, WireFits, Reading
<1>4. Kept' = Kept /\ Published' = Published /\ Pending' = Pending
  BY <1>1, RowsFrame
<1>5. Kept # {} => Min(Kept) \in Kept /\ Min(Kept) \in Nat
  <2>1. Kept \subseteq Nat
    BY RowSets
  <2> QED
    BY <2>1, MinFacts
<1>6. Behind(c)'
  BY <1>1, <1>2, <1>4 DEF ClientFits, Behind
<1>7. Passed(c)'
  <2>1. ASSUME ~Outdated(last[c]), NEW s \in Published, s > last[c], s \notin Kept
        PROVE  FALSE
    <3>1. Kept # {}
      BY <1>1 DEF RowsInOrder
    <3>2. ~(last[c] + 1 < Min(Kept))
      BY <2>1, <3>1 DEF Outdated
    <3>3. s < Min(Kept) /\ s \in Nat
      BY <1>1, <1>5, <2>1, <3>1, RowSets DEF RowsInOrder
    <3> QED
      BY <1>3, <1>5, <2>1, <3>1, <3>2, <3>3
  <2> QED
    BY <1>1, <1>2, <1>3, <1>4, <2>1 DEF Passed, Reading
<1>8. WireFits(c)'
  <2>1. Outdated(last[c]) => \E k \in Kept : last[c] < k
    BY <1>3, <1>5 DEF Outdated
  <2> QED
    BY <1>1, <1>2, <1>3, <1>4, <2>1 DEF WireFits
<1>9. ReadsOn(c)' /\ Ordered(c)'
  BY <1>1, <1>2, <1>3 DEF ReadsOn, Ordered
<1>10. Complete(c)'
  <2>1. \A s : Due(c, s)' <=> Due(c, s)
    BY <1>1, <1>4 DEF Due, CertainFor
  <2> QED
    BY <1>1, <1>2, <1>4, <2>1 DEF ClientFits, Complete
<1> QED
  BY <1>6, <1>7, <1>8, <1>9, <1>10 DEF ClientFits

LEMMA SendResetKeeps ==
  ASSUME SkipInv, NEW c \in Clients, SendReset(c)
  PROVE  ClientFits(c)'
<1> USE DEF table, broker, access
<1>1. /\ RowsInOrder /\ ClientFits(c) /\ TypeInv /\ at[c] = "reset"
      /\ UNCHANGED <<row, kind, last, shown, from>>
  BY DEF SkipInv, SendReset
<1>2. PICK m : m = [id |-> CurrentHead, is |-> "reset"]
  OBVIOUS
<1>3. at'[c] = "read" /\ cursor'[c] = CurrentHead /\ wire'[c] = Append(wire[c], m)
  BY <1>1, <1>2 DEF SendReset, TypeInv, TypeOK
<1>4. wire[c] = << >> /\ last[c] # None /\ \E k \in Kept : last[c] < k
  BY <1>1 DEF ClientFits, WireFits, Reading
<1>5. Kept' = Kept /\ Published' = Published /\ Pending' = Pending
  BY <1>1, RowsFrame
<1>6. last[c] \in Nat /\ CurrentHead \in Nat /\ last[c] < CurrentHead
  <2>1. last[c] \in Ids
    BY <1>1, <1>4, ClientTypes
  <2>2. PICK k \in Kept : last[c] < k
    BY <1>4
  <2>3. k \in Nat /\ k <= CurrentHead /\ CurrentHead \in Nat /\ last[c] \in Nat
    BY <2>1, HeadFacts, RowSets
  <2> QED
    BY <2>2, <2>3
<1>7. wire'[c] = <<m>> /\ DOMAIN wire'[c] = {1} /\ wire'[c][1] = m
  <2>1. wire'[c] = <<m>>
    BY <1>3, <1>4
  <2> QED
    BY <2>1
<1>8. Behind(c)'
  <2>1. \A s \in Pending : last[c] < s
    BY <1>1, <1>4 DEF ClientFits, Behind
  <2> QED
    BY <1>1, <1>3, <1>5, <2>1, HeadIsPast DEF Behind
<1>9. Passed(c)'
  <2>1. \A s \in Published : ~(s > CurrentHead)
    BY <1>1, HeadIsPast, HeadFacts, RowSets
  <2> QED
    BY <1>1, <1>3, <1>5, <1>6, <2>1 DEF Passed
<1>10. ReadsOn(c)' /\ WireFits(c)'
  BY <1>3, <1>7 DEF ReadsOn, WireFits, Reading
<1>11. Ordered(c)'
  BY <1>1, <1>2, <1>3, <1>6, <1>7 DEF Ordered
<1>12. Complete(c)'
  <2>1. \A s : (Due(c, s)' <=> Due(c, s)) /\ OnWire(c, s)'
    BY <1>1, <1>2, <1>5, <1>7 DEF Due, CertainFor, OnWire
  <2> QED
    BY <1>1, <1>5, <2>1 DEF ClientFits, Complete
<1> QED
  BY <1>8, <1>9, <1>10, <1>11, <1>12 DEF ClientFits

-----------------------------------------------------------------------------
(* A stream reads and sends, a browser receives.                             *)

LEMMA FetchKeeps ==
  ASSUME SkipInv, NEW c \in Clients, Fetch(c)
  PROVE  ClientFits(c)'
<1> USE DEF table, broker, access, browser
<1>1. /\ RowsInOrder /\ ClientFits(c) /\ TypeInv /\ at[c] = "read"
      /\ UNCHANGED <<row, kind, wire, last, shown, from, cursor>>
  BY DEF SkipInv, Fetch
<1>2. PICK F : F = FetchAfter(c)
  OBVIOUS
<1>3. at'[c] = (IF F = {} THEN "wait" ELSE "send") /\ batch'[c] = F
  BY <1>1, <1>2 DEF Fetch, TypeInv, TypeOK
<1>4. Kept' = Kept /\ Published' = Published /\ Pending' = Pending
  BY <1>1, RowsFrame
<1>5. c \in Reading /\ c \in Reading'
  BY <1>1, <1>3 DEF Reading
<1>6. ReadsOn(c)'
  <2>1. F = Lowest(After(c)) /\ After(c) \subseteq Seqs /\ F \subseteq After(c)
    BY <1>2 DEF FetchAfter, Lowest, After, Kept
  <2>2. F \subseteq Kept /\ \A b \in F : b > cursor[c]
    BY <2>1 DEF After
  <2>3. ASSUME NEW b \in F, NEW s \in Published, cursor[c] < s, s < b
        PROVE  s \in F
    <3>1. cursor[c] \in Ids
      BY <1>1, ClientTypes
    <3>2. cursor[c] \in Nat /\ s \in Nat /\ b \in Nat
      BY <2>1, <3>1, RowSets
    <3>3. s \in After(c)
      BY <1>1, <1>5, <2>3, <3>2 DEF ClientFits, Passed, After
    <3>4. s <= b
      BY <2>3, <3>2
    <3> QED
      BY <2>1, <3>3, <3>4, LowestIsInitial
  <2> QED
    BY <1>1, <1>3, <1>4, <2>2, <2>3 DEF ReadsOn
<1>7. Behind(c)' /\ Passed(c)'
  BY <1>1, <1>4, <1>5 DEF ClientFits, Behind, Passed
<1>8. WireFits(c)' /\ Ordered(c)'
  BY <1>1, <1>3, <1>5 DEF ClientFits, WireFits, Ordered
<1>9. Complete(c)'
  <2>1. \A s : (Due(c, s)' <=> Due(c, s)) /\ (OnWire(c, s)' <=> OnWire(c, s))
    BY <1>1, <1>4 DEF Due, CertainFor, OnWire
  <2> QED
    BY <1>1, <1>4, <1>5, <2>1 DEF ClientFits, Complete
<1> QED
  BY <1>6, <1>7, <1>8, <1>9 DEF ClientFits

\* The wait ends.
LEMMA ResumeKeeps ==
  ASSUME SkipInv, NEW c \in Clients, Woken(c) \/ TimedOut(c)
  PROVE  ClientFits(c)'
<1> USE DEF table, broker, access, browser
<1>1. /\ RowsInOrder /\ ClientFits(c) /\ TypeInv /\ at[c] = "wait" /\ at'[c] = "read"
      /\ UNCHANGED <<row, kind, wire, last, shown, from, cursor, batch>>
  BY DEF SkipInv, Woken, TimedOut, Resume, TypeInv, TypeOK
<1>2. Kept' = Kept /\ Published' = Published /\ Pending' = Pending
  BY <1>1, RowsFrame
<1>3. c \in Reading /\ c \in Reading'
  BY <1>1 DEF Reading
<1>4. Behind(c)' /\ Passed(c)' /\ ReadsOn(c)'
  BY <1>1, <1>2, <1>3 DEF ClientFits, Behind, Passed, ReadsOn
<1>5. WireFits(c)' /\ Ordered(c)'
  BY <1>1, <1>3 DEF ClientFits, WireFits, Ordered
<1>6. Complete(c)'
  <2>1. \A s : (Due(c, s)' <=> Due(c, s)) /\ (OnWire(c, s)' <=> OnWire(c, s))
    BY <1>1, <1>2 DEF Due, CertainFor, OnWire
  <2> QED
    BY <1>1, <1>2, <1>3, <2>1 DEF ClientFits, Complete
<1> QED
  BY <1>4, <1>5, <1>6 DEF ClientFits

LEMMA SendKeeps ==
  ASSUME SkipInv, NEW c \in Clients, Send(c)
  PROVE  ClientFits(c)'
<1> USE DEF table, broker
<1>1. /\ RowsInOrder /\ ClientFits(c) /\ TypeInv /\ at[c] = "send"
      /\ UNCHANGED <<row, kind, last, shown, from>>
  BY DEF SkipInv, Send
<1>2. PICK s, m : s = Min(batch[c]) /\ m = [id |-> s, is |-> "event"]
  OBVIOUS
<1>3. /\ at'[c] \in {"send", "read", "wait"} /\ cursor'[c] = s /\ batch'[c] = batch[c] \ {s}
      /\ s \in batch[c] /\ s \in Nat /\ \A r \in batch[c] : s <= r
  <2>1. s \in batch[c] /\ s \in Ids /\ \A r \in batch[c] : s <= r
    BY <1>1, <1>2, BatchRow
  <2>2. at'[c] \in {"send", "read", "wait"} /\ cursor'[c] = s /\ batch'[c] = batch[c] \ {s}
    BY <1>1, <1>2 DEF Send, TypeInv, TypeOK, Rest
  <2> QED
    BY <2>1, <2>2, RowSets
<1>4. /\ wire'[c] = (IF Visible(c, s) THEN Append(wire[c], m) ELSE wire[c])
      /\ m \in Messages /\ wire[c] \in Seq(Messages)
  BY <1>1, <1>2, SentFacts, ClientTypes
<1>5. Kept' = Kept /\ Published' = Published /\ Pending' = Pending
  BY <1>1, RowsFrame
<1>6. c \in Reading /\ c \in Reading'
  BY <1>1, <1>3 DEF Reading
<1>7. /\ cursor[c] \in Nat /\ batch[c] \subseteq Nat /\ Published \subseteq Nat
      /\ last[c] # None => last[c] \in Nat
  <2>1. cursor[c] \in Ids /\ batch[c] \subseteq Seqs /\ last[c] \in Ids \cup {None}
    BY <1>1, ClientTypes
  <2> QED
    BY <2>1, RowSets
<1>8. /\ batch[c] \subseteq Kept /\ s > cursor[c] /\ s \in Published
      /\ \A b \in batch[c], r \in Published : cursor[c] < r /\ r < b => r \in batch[c]
      /\ \A r \in Published : r > cursor[c] => r \in Kept
      /\ last[c] # None => last[c] <= cursor[c] /\ last[c] < s
  <2>1. /\ batch[c] \subseteq Kept /\ s > cursor[c]
        /\ \A b \in batch[c], r \in Published : cursor[c] < r /\ r < b => r \in batch[c]
    BY <1>1, <1>3 DEF ClientFits, ReadsOn
  <2>2. /\ \A r \in Published : r > cursor[c] => r \in Kept
        /\ last[c] # None => last[c] <= cursor[c]
    BY <1>1, <1>6 DEF ClientFits, Passed
  <2> QED
    BY <1>3, <1>7, <2>1, <2>2, RowSets
<1>9. Behind(c)'
  BY <1>1, <1>3, <1>5, <1>8 DEF ClientFits, Behind, RowsInOrder
<1>10. Passed(c)'
  <2>1. \A r \in Published : r > s => r \in Kept
    BY <1>3, <1>7, <1>8
  <2>2. last[c] # None => last[c] <= s
    BY <1>3, <1>7, <1>8
  <2> QED
    BY <1>1, <1>3, <1>5, <2>1, <2>2 DEF Passed
<1>11. ReadsOn(c)'
  <2>1. \A b \in batch[c] \ {s} : b > s
    BY <1>3, <1>7
  <2>2. ASSUME NEW b \in batch[c] \ {s}, NEW r \in Published, s < r, r < b
        PROVE  r \in batch[c] \ {s}
    <3>1. cursor[c] < r /\ r # s
      BY <1>3, <1>7, <1>8, <2>2
    <3> QED
      BY <1>8, <2>2, <3>1
  <2> QED
    BY <1>3, <1>5, <1>8, <2>1, <2>2 DEF ReadsOn
<1>12. CASE wire'[c] = Append(wire[c], m)
  <2>1. PICK q : q = wire'[c]
    OBVIOUS
  <2>2. /\ DOMAIN wire[c] = 1..Len(wire[c]) /\ Len(wire[c]) \in Nat
        /\ \A i \in DOMAIN wire[c] : i \in DOMAIN q /\ q[i] = wire[c][i] /\ i < Len(wire[c]) + 1
        /\ Len(wire[c]) + 1 \in DOMAIN q /\ q[Len(wire[c]) + 1] = m
        /\ \A i \in DOMAIN q : i \in DOMAIN wire[c] \/ i = Len(wire[c]) + 1
    BY <1>4, <1>12, <2>1, AppendFacts
  <2>3. m.id = s /\ m.is # "reset"
    BY <1>2
  <2>4. WireFits(c)'
    <3>1. \A i \in DOMAIN wire[c] : wire[c][i].is = "reset" => i = 1
      BY <1>1 DEF ClientFits, WireFits
    <3>2. \A i \in DOMAIN q : q[i].is = "reset" => i = 1
      BY <2>2, <2>3, <3>1
    <3> QED
      BY <1>3, <1>6, <2>1, <3>2 DEF WireFits
  <2>5. Ordered(c)'
    <3>1. ASSUME NEW i \in DOMAIN wire[c]
          PROVE  /\ last[c] # None => wire[c][i].id > last[c]
                 /\ wire[c][i].id <= cursor[c] /\ wire[c][i].id \in Nat
                 /\ \A j \in 1..(i - 1) : wire[c][j].id < wire[c][i].id
      <4>1. wire[c][i].id \in Ids
        BY <1>1, ClientTypes
      <4> QED
        BY <1>1, <4>1, RowSets DEF ClientFits, Ordered
    <3>2. ASSUME NEW i \in DOMAIN wire[c]
          PROVE  /\ last[c] # None => q[i].id > last[c]
                 /\ q[i].id <= s
                 /\ \A j \in 1..(i - 1) : q[j].id < q[i].id
      <4>1. q[i] = wire[c][i] /\ \A j \in 1..(i - 1) : j \in DOMAIN wire[c] /\ q[j] = wire[c][j]
        BY <2>2
      <4>2. wire[c][i].id <= s
        BY <1>3, <1>7, <1>8, <3>1
      <4> QED
        BY <3>1, <4>1, <4>2
    <3>3. ASSUME NEW i, i = Len(wire[c]) + 1
          PROVE  /\ last[c] # None => q[i].id > last[c]
                 /\ q[i].id <= s
                 /\ \A j \in 1..(i - 1) : q[j].id < q[i].id
      <4>1. q[i].id = s
        BY <2>2, <2>3, <3>3
      <4>2. \A j \in 1..(i - 1) : j \in DOMAIN wire[c] /\ q[j] = wire[c][j]
        BY <2>2, <3>3
      <4>3. \A j \in DOMAIN wire[c] : wire[c][j].id < s
        BY <1>3, <1>7, <1>8, <3>1
      <4>4. \A j \in 1..(i - 1) : q[j].id < q[i].id
        BY <4>1, <4>2, <4>3
      <4> QED
        BY <1>3, <1>7, <1>8, <4>1, <4>4
    <3> QED
      BY <1>1, <1>3, <2>1, <2>2, <3>2, <3>3 DEF Ordered
  <2>6. \A r : (Due(c, r)' <=> Due(c, r)) /\ (OnWire(c, r) => OnWire(c, r)')
    BY <1>1, <1>5, <2>1, <2>2 DEF Due, CertainFor, OnWire
  <2>7. OnWire(c, s)'
    BY <2>1, <2>2, <2>3 DEF OnWire
  <2>8. Complete(c)'
    <3>1. ASSUME NEW r \in Published, Due(c, r), r <= s, r \notin shown[c]
          PROVE  OnWire(c, r)'
      <4>1. CASE r <= cursor[c]
        BY <1>1, <1>6, <2>6, <3>1, <4>1 DEF ClientFits, Complete
      <4>2. CASE ~(r <= cursor[c])
        <5>1. r = s \/ (cursor[c] < r /\ r < s)
          BY <1>3, <1>7, <3>1, <4>2
        <5>2. ~(cursor[c] < r /\ r < s)
          BY <1>3, <1>7, <1>8
        <5> QED
          BY <2>7, <5>1, <5>2
      <4> QED
        BY <4>1, <4>2
    <3> QED
      BY <1>1, <1>3, <1>5, <2>6, <3>1 DEF ClientFits, Complete
  <2> QED
    BY <1>9, <1>10, <1>11, <2>4, <2>5, <2>8 DEF ClientFits
<1>13. CASE wire'[c] # Append(wire[c], m)
  <2>1. wire'[c] = wire[c] /\ ~Visible(c, s)
    BY <1>4, <1>13
  <2>2. ~CertainFor(c, s)
    BY <2>1 DEF Visible, CertainFor
  <2>3. WireFits(c)'
    BY <1>1, <1>3, <1>6, <2>1 DEF ClientFits, WireFits
  <2>4. Ordered(c)'
    <3>1. ASSUME NEW i \in DOMAIN wire[c]
          PROVE  wire[c][i].id <= s
      <4>1. wire[c][i].id \in Ids
        BY <1>1, ClientTypes
      <4>2. wire[c][i].id \in Nat /\ wire[c][i].id <= cursor[c]
        BY <1>1, <4>1, RowSets DEF ClientFits, Ordered
      <4> QED
        BY <1>3, <1>7, <1>8, <4>2
    <3> QED
      BY <1>1, <1>3, <2>1, <3>1 DEF ClientFits, Ordered
  <2>5. \A r : (Due(c, r)' <=> Due(c, r)) /\ (OnWire(c, r)' <=> OnWire(c, r))
    BY <1>1, <1>5, <2>1 DEF Due, CertainFor, OnWire
  <2>6. Complete(c)'
    <3>1. ASSUME NEW r \in Published, Due(c, r), r <= s
          PROVE  r <= cursor[c]
      <4>1. r # s
        BY <2>2, <3>1 DEF Due
      <4>2. ~(cursor[c] < r /\ r < s)
        BY <1>3, <1>7, <1>8
      <4> QED
        BY <1>3, <1>7, <3>1, <4>1, <4>2
    <3> QED
      BY <1>1, <1>3, <1>5, <1>6, <2>5, <3>1 DEF ClientFits, Complete
  <2> QED
    BY <1>9, <1>10, <1>11, <2>3, <2>4, <2>6 DEF ClientFits
<1> QED
  BY <1>12, <1>13

LEMMA ReceiveKeeps ==
  ASSUME SkipInv, NEW c \in Clients, Receive(c)
  PROVE  ClientFits(c)'
<1> USE DEF table, broker, stream, access
<1>1. /\ RowsInOrder /\ ClientFits(c) /\ TypeInv /\ wire[c] # << >>
      /\ UNCHANGED <<row, kind, at, cursor, batch, from>>
  BY DEF SkipInv, Receive
<1>2. PICK h, q : h = wire[c][1] /\ q = Tail(wire[c])
  OBVIOUS
<1>3. wire[c] \in Seq(Messages)
  BY <1>1, ClientTypes
<1>4. /\ 1 \in DOMAIN wire[c] /\ Head(wire[c]) = h /\ DOMAIN wire[c] = 1..Len(wire[c])
      /\ Len(wire[c]) \in Nat
      /\ \A i \in DOMAIN q : i \in Nat \ {0} /\ i + 1 \in DOMAIN wire[c] /\ q[i] = wire[c][i + 1]
      /\ \A i \in DOMAIN wire[c] :
           i = 1 \/ (i \in Nat /\ i > 1 /\ i - 1 \in DOMAIN q /\ q[i - 1] = wire[c][i])
  BY <1>1, <1>2, <1>3, TailFacts
<1>5. wire'[c] = q /\ last'[c] = h.id /\ shown'[c] = Refetched(c, h)
  BY <1>1, <1>2, <1>4 DEF Receive, TypeInv, TypeOK
<1>6. Kept' = Kept /\ Published' = Published /\ Pending' = Pending
  BY <1>1, RowsFrame
<1>7. c \in Reading /\ c \in Reading'
  BY <1>1 DEF ClientFits, WireFits, Reading
<1>8. /\ h.id \in Nat /\ cursor[c] \in Nat /\ h.id <= cursor[c]
      /\ last[c] # None => last[c] \in Nat /\ last[c] < h.id
      /\ \A i \in DOMAIN wire[c] : wire[c][i].id \in Nat /\ i \in Nat
      /\ h.is \in {"event", "reset"}
  <2>1. /\ cursor[c] \in Ids /\ last[c] \in Ids \cup {None}
        /\ \A i \in DOMAIN wire[c] : wire[c][i].id \in Ids /\ wire[c][i].is \in {"event", "reset"}
    BY <1>1, ClientTypes
  <2>2. h.id \in Nat /\ cursor[c] \in Nat /\ (last[c] # None => last[c] \in Nat)
    BY <1>2, <1>4, <2>1, RowSets
  <2>3. h.id <= cursor[c] /\ (last[c] # None => h.id > last[c])
    BY <1>1, <1>2, <1>4 DEF ClientFits, Ordered
  <2>4. \A i \in DOMAIN wire[c] : wire[c][i].id \in Nat
    BY <2>1, RowSets
  <2>5. \A i \in DOMAIN wire[c] : i \in Nat
    BY <1>4
  <2> QED
    BY <1>2, <1>4, <2>1, <2>2, <2>3, <2>4, <2>5
<1>9. Behind(c)'
  <2>1. \A s \in Pending : s \in Nat /\ cursor[c] < s
    BY <1>1, RowSets DEF ClientFits, Behind
  <2>2. \A s \in Pending : h.id < s
    BY <1>8, <2>1
  <2> QED
    BY <1>1, <1>5, <1>6, <2>1, <2>2 DEF Behind
<1>10. Passed(c)' /\ ReadsOn(c)'
  BY <1>1, <1>5, <1>6, <1>7, <1>8 DEF ClientFits, Passed, ReadsOn
<1>11. WireFits(c)'
  <2>1. \A i \in DOMAIN wire[c] : wire[c][i].is = "reset" => i = 1
    BY <1>1 DEF ClientFits, WireFits
  <2>2. ASSUME NEW i \in DOMAIN q
        PROVE  q[i].is # "reset"
    <3>1. i \in Nat \ {0} /\ i + 1 # 1
      BY <1>4
    <3> QED
      BY <1>4, <2>1, <3>1
  <2> QED
    BY <1>1, <1>5, <1>7, <2>2 DEF WireFits, Reading
<1>12. ASSUME NEW i \in DOMAIN q
       PROVE  q[i].id > h.id /\ q[i].id <= cursor[c] /\ \A j \in 1..(i - 1) : q[j].id < q[i].id
  <2>1. i \in Nat \ {0} /\ i + 1 \in DOMAIN wire[c] /\ q[i] = wire[c][i + 1]
    BY <1>4
  <2>2. q[i].id <= cursor[c] /\ \A j \in 1..((i + 1) - 1) : wire[c][j].id < q[i].id
    BY <1>1, <2>1 DEF ClientFits, Ordered
  <2>3. q[i].id \in Nat /\ h.id < q[i].id
    BY <1>2, <1>8, <2>1, <2>2
  <2>4. ASSUME NEW j \in 1..(i - 1)
        PROVE  q[j].id < q[i].id
    <3>1. j + 1 \in DOMAIN wire[c] /\ j + 1 \in 1..((i + 1) - 1) /\ j + 1 # 1 /\ (j + 1) - 1 = j
      BY <1>4, <2>1
    <3>2. q[j] = wire[c][j + 1]
      BY <1>4, <3>1
    <3> QED
      BY <2>2, <3>1, <3>2
  <2> QED
    BY <1>8, <2>2, <2>3, <2>4
<1>13. Ordered(c)'
  BY <1>1, <1>5, <1>12 DEF Ordered
<1>14. Complete(c)'
  <2>1. \A s : Due(c, s)' <=> Due(c, s)
    BY <1>1, <1>6 DEF Due, CertainFor
  <2>2. CASE h.is = "reset"
    <3>1. shown'[c] = Published
      BY <1>5, <2>2 DEF Refetched
    <3> QED
      BY <1>6, <3>1 DEF Complete
  <2>3. CASE h.is # "reset"
    <3>1. shown'[c] = shown[c] \cup {h.id}
      BY <1>5, <2>3 DEF Refetched
    <3>2. \A i \in DOMAIN wire[c] : wire[c][i].is # "reset"
      BY <1>1, <1>2, <2>3 DEF ClientFits, WireFits
    <3>3. ASSUME NEW s \in Published, Due(c, s), s <= cursor[c], s \notin shown'[c]
          PROVE  OnWire(c, s)' /\ \E i \in DOMAIN q : q[i].id = s
      <4>1. OnWire(c, s)
        BY <1>1, <1>7, <3>1, <3>3 DEF ClientFits, Complete
      <4>2. PICK i \in DOMAIN wire[c] : wire[c][i].id = s
        BY <3>2, <4>1 DEF OnWire
      <4>3. i # 1
        BY <1>2, <3>1, <3>3, <4>2
      <4>4. i - 1 \in DOMAIN q /\ q[i - 1].id = s
        BY <1>4, <4>2, <4>3
      <4> QED
        BY <1>5, <4>4 DEF OnWire
    <3>4. ASSUME NEW s \in Published, Due(c, s), s <= h.id
          PROVE  s \in shown'[c]
      <4>1. s \in Nat
        BY RowSets
      <4>2. s <= cursor[c]
        BY <1>8, <3>4, <4>1
      <4>3. \A i \in DOMAIN q : q[i].id # s
        <5>1. \A i \in DOMAIN q : q[i].id \in Nat
          BY <1>4, <1>8
        <5> QED
          BY <1>8, <1>12, <3>4, <4>1, <5>1
      <4> QED
        BY <3>3, <3>4, <4>2, <4>3
    <3> QED
      BY <1>1, <1>5, <1>6, <2>1, <3>3, <3>4 DEF Complete
  <2> QED
    BY <2>2, <2>3
<1> QED
  BY <1>9, <1>10, <1>11, <1>13, <1>14 DEF ClientFits

\* A stream that is not reading: opened, refused, broken or restarted.
LEMMA IdleKeeps ==
  ASSUME SkipInv, Restart \/ \E c \in Clients : Connect(c) \/ Refuse(c) \/ Drop(c)
  PROVE  \A d \in Clients : ClientFits(d)'
<1> USE DEF table, broker, stream, access, browser
<1> SUFFICES ASSUME NEW d \in Clients
             PROVE  ClientFits(d)'
  OBVIOUS
<1>1. /\ ClientFits(d) /\ TypeInv /\ UNCHANGED <<row, kind, last, shown, from>>
  BY DEF SkipInv, Restart, Connect, Refuse, Drop, Lose
<1>2. CASE Restart \/ \E c \in Clients : Drop(c)
  <2>1. PICK C : Lose(C) /\ C \in {Live} \cup {{c} : c \in Clients}
    BY <1>2 DEF Restart, Drop
  <2>2. CASE d \in C
    BY <1>1, <2>1, <2>2, ClientIdle DEF Lose, Reset
  <2>3. CASE d \notin C
    BY <1>1, <2>1, <2>3, ClientFrame DEF Lose, Reset
  <2> QED
    BY <2>2, <2>3
<1>3. CASE \E c \in Clients : Connect(c) \/ Refuse(c)
  <2>1. PICK c \in Clients : Connect(c) \/ Refuse(c)
    BY <1>3
  <2>2. UNCHANGED <<cursor, batch, wire>>
    BY <2>1 DEF Connect, Refuse
  <2>3. CASE d = c
    <3>1. at[d] = "off" /\ at'[d] \in {"open", "closed"}
      BY <1>1, <2>1, <2>3 DEF Connect, Refuse, TypeInv, TypeOK
    <3>2. wire'[d] = << >>
      BY <1>1, <2>2, <3>1 DEF ClientFits, WireFits, Reading
    <3> QED
      BY <1>1, <2>2, <3>1, <3>2, ClientIdle
  <2>4. CASE d # c
    <3>1. at'[d] = at[d]
      BY <1>1, <2>1, <2>4 DEF Connect, Refuse, TypeInv, TypeOK
    <3> QED
      BY <1>1, <2>2, <3>1, ClientFrame
  <2> QED
    BY <2>3, <2>4
<1> QED
  BY <1>2, <1>3

\* A step of a stream or its browser is no step of another.
LEMMA StreamKeeps ==
  ASSUME SkipInv, NEW c \in Clients,
         \/ StartCold(c) \/ StartFrom(c) \/ SendReset(c) \/ Fetch(c) \/ Send(c)
         \/ Woken(c) \/ TimedOut(c) \/ Receive(c)
  PROVE  \A d \in Clients : ClientFits(d)'
<1> USE DEF table, broker, stream, access, browser
<1>1. ClientFits(c)'
  BY StartColdKeeps, StartFromKeeps, SendResetKeeps, FetchKeeps, SendKeeps, ResumeKeeps, ReceiveKeeps
<1>2. ASSUME NEW d \in Clients, d # c
      PROVE  ClientFits(d)'
  <2>1. TypeInv /\ ClientFits(d)
    BY DEF SkipInv
  <2>2. UNCHANGED <<row, kind>>
    BY DEF StartCold, StartFrom, SendReset, Fetch, Send, Woken, TimedOut, Resume, Receive
  <2>3. UNCHANGED <<at[d], cursor[d], batch[d], wire[d], last[d], shown[d], from[d]>>
    <3> USE DEF TypeInv, TypeOK
    <3>1. CASE StartCold(c)
      BY <1>2, <2>1, <3>1 DEF StartCold
    <3>2. CASE StartFrom(c) \/ SendReset(c)
      BY <1>2, <2>1, <3>2 DEF StartFrom, SendReset
    <3>3. CASE Fetch(c)
      BY <1>2, <2>1, <3>3 DEF Fetch
    <3>4. CASE Send(c)
      BY <1>2, <2>1, <3>4 DEF Send
    <3>5. CASE Woken(c) \/ TimedOut(c)
      BY <1>2, <2>1, <3>5 DEF Woken, TimedOut, Resume
    <3>6. CASE Receive(c)
      BY <1>2, <2>1, <3>6 DEF Receive
    <3> QED
      BY <3>1, <3>2, <3>3, <3>4, <3>5, <3>6
  <2> QED
    BY <2>1, <2>2, <2>3, ClientFrame
<1> QED
  BY <1>1, <1>2

LEMMA SkipStep == ~MayEmpty /\ SkipInv /\ [Next]_vars => SkipInv'
<1> SUFFICES ASSUME ~MayEmpty, SkipInv, [Next]_vars
             PROVE  SkipInv'
  OBVIOUS
<1> USE DEF table, broker, stream, access, browser
<1>1. TypeInv' /\ RowsInOrder /\ \A d \in Clients : ClientFits(d)
  BY TypeStep DEF SkipInv
<1>2. CASE RowsInOrder' /\ \A d \in Clients : ClientFits(d)'
  BY <1>1, <1>2 DEF SkipInv
<1>3. CASE (\E k \in Kinds : Publish(k)) \/ \E s \in Seqs : Commit(s) \/ Rollback(s) \/ Prune(s)
  BY <1>2, <1>3, OpenKeeps, CommitKeeps, PruneKeeps
<1>4. CASE UNCHANGED <<row, kind, at, cursor, batch, wire, last, shown, from>>
  BY <1>1, <1>2, <1>4, RowsFrame, ClientFrame
<1>5. CASE ConnectListener \/ ListenerFails \/ ListenerDies \/ OnNotify \/ Tick
  BY <1>4, <1>5 DEF ConnectListener, ListenerFails, ListenerDies, OnNotify, Tick
<1>6. CASE \E c \in Clients : Join(c) \/ Leave(c)
  BY <1>4, <1>6 DEF Join, Leave
<1>7. CASE Restart \/ \E c \in Clients : Connect(c) \/ Refuse(c) \/ Drop(c)
  <2>1. UNCHANGED row
    BY <1>7 DEF Restart, Connect, Refuse, Drop, Lose
  <2> QED
    BY <1>1, <1>2, <1>7, <2>1, RowsFrame, IdleKeeps
<1>8. CASE \E c \in Clients :
              \/ StartCold(c) \/ StartFrom(c) \/ SendReset(c) \/ Fetch(c) \/ Send(c)
              \/ Woken(c) \/ TimedOut(c) \/ Receive(c)
  <2>1. UNCHANGED row
    BY <1>8 DEF StartCold, StartFrom, SendReset, Fetch, Send, Woken, TimedOut, Resume, Receive
  <2> QED
    BY <1>1, <1>2, <1>8, <2>1, RowsFrame, StreamKeeps
<1>9. CASE UNCHANGED vars
  BY <1>4, <1>9 DEF vars
<1> QED
  BY <1>3, <1>5, <1>6, <1>7, <1>8, <1>9 DEF Next

LEMMA SkipStart == Init => SkipInv
<1> SUFFICES ASSUME Init
             PROVE  SkipInv
  OBVIOUS
<1>1. TypeInv
  BY InitType
<1>2. Kept = {} /\ Published = {} /\ \A s \in Seqs : row[s] = "none" /\ 0 < s
  BY DEF Init, Kept, Published, Seqs
<1>3. RowsInOrder
  BY <1>2 DEF RowsInOrder, Pending
<1>4. ASSUME NEW c \in Clients
      PROVE  ClientFits(c)
  <2>1. c \notin Reading /\ at[c] = "off" /\ wire[c] = << >> /\ last[c] = None /\ cursor[c] = 0
    BY DEF Init, Reading
  <2> QED
    BY <1>2, <2>1 DEF ClientFits, Behind, Passed, ReadsOn, WireFits, Ordered, Complete, Pending
<1> QED
  BY <1>1, <1>3, <1>4 DEF SkipInv

\* NothingSkipped: while retention leaves the newest row of the table, no row a
\* client is sure to be entitled to is lost or delivered twice: what a cursor has
\* passed is in the browser or on its way, in order, and what the Last-Event-ID
\* has passed is in the browser, over commits that come late, rollbacks, pruning,
\* full batches, breaks, restarts, replays and resets.
THEOREM NothingIsSkipped == ASSUME ~MayEmpty PROVE Spec => []NothingSkipped
<1>1. SkipInv => NothingSkipped
  BY DEF SkipInv, ClientFits, Ordered, Complete, NothingSkipped, InOrder, Due
<1> QED
  BY SkipStart, SkipStep, <1>1, PTL DEF Spec
=============================================================================

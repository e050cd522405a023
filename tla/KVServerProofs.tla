--------------------------- MODULE KVServerProofs ---------------------------
(***************************************************************************)
(* Proofs about the key-value servers, for any set of servers, requests,   *)
(* elections and any bound: the answer of a Put is the truth, and, when no *)
(* key has a colon in it, every store replays the chosen entries and a     *)
(* client reads its own writes.                                            *)
(***************************************************************************)
EXTENDS KVServer, SequenceTheorems, TLAPS

-----------------------------------------------------------------------------
(* The wire format *)

Alphabet == Part \cup {"put", "noop"}

\* What Start submits for a Put.
Command(p) == encodeCommand(Request[p].key, Request[p].value)

\* No key has a colon in it.
PlainKeys == \A p \in Puts : Len(Request[p].key) = 1

\* A request is made of parts.
LEMMA RequestParts ==
    ASSUME NEW p \in Puts
    PROVE  /\ Request[p].key \in Seq(Part) /\ Request[p].value \in Seq(Part)
           /\ Len(Request[p].key) \in Nat \ {0} /\ Len(Request[p].value) \in Nat \ {0}
           /\ Request[p].addr \in Node
<1>1. /\ Request[p].key \in Seq(Range(Request[p].key))
      /\ Request[p].value \in Seq(Range(Request[p].value))
      /\ Request[p].key # << >> /\ Request[p].value # << >> /\ Request[p].addr \in Node
  BY KVAssumption
<1>2. Range(Request[p].key) \subseteq Part /\ Range(Request[p].value) \subseteq Part
  BY DEF Part
<1>3. Request[p].key \in Seq(Part) /\ Request[p].value \in Seq(Part)
  BY <1>1, <1>2, SeqMonotonic
<1> QED
  BY <1>1, <1>3, EmptySeq

\* What encodeCommand writes: "put", the parts of the key, those of the value.
LEMMA CommandIs ==
    ASSUME NEW p \in Puts
    PROVE  LET k == Request[p].key
               v == Request[p].value
           IN  /\ Command(p) \in Seq(Alphabet)
               /\ Len(Command(p)) = 1 + Len(k) + Len(v)
               /\ Command(p)[1] = "put"
               /\ \A i \in 1..Len(k) : Command(p)[1 + i] = k[i]
               /\ \A i \in 1..Len(v) : Command(p)[1 + Len(k) + i] = v[i]
<1> DEFINE k == Request[p].key
           v == Request[p].value
           w == << "put" >> \o k
<1>1. /\ k \in Seq(Part) /\ v \in Seq(Part) /\ Len(k) \in Nat \ {0} /\ Len(v) \in Nat \ {0}
  BY RequestParts
<1>2. k \in Seq(Alphabet) /\ v \in Seq(Alphabet)
  BY <1>1, SeqMonotonic DEF Alphabet
<1>3. << "put" >> \in Seq(Alphabet) /\ Len(<< "put" >>) = 1 /\ << "put" >>[1] = "put"
  BY DEF Alphabet
<1> HIDE DEF k, v
<1>4. /\ w \in Seq(Alphabet) /\ Len(w) = 1 + Len(k)
      /\ \A i \in 1 .. 1 + Len(k) : w[i] = IF i <= 1 THEN << "put" >>[i] ELSE k[i - 1]
  BY <1>2, <1>3, ConcatProperties
<1> HIDE DEF w
<1>5. /\ w \o v \in Seq(Alphabet) /\ Len(w \o v) = 1 + Len(k) + Len(v)
      /\ \A i \in 1 .. 1 + Len(k) + Len(v) :
            (w \o v)[i] = IF i <= 1 + Len(k) THEN w[i] ELSE v[i - (1 + Len(k))]
  <2>1. /\ w \o v \in Seq(Alphabet) /\ Len(w \o v) = Len(w) + Len(v)
        /\ \A i \in 1 .. Len(w) + Len(v) :
              (w \o v)[i] = IF i <= Len(w) THEN w[i] ELSE v[i - Len(w)]
    BY <1>2, <1>4, ConcatProperties
  <2>2. Len(w) = 1 + Len(k)
    BY <1>4
  <2> QED
    BY <2>1, <2>2
<1>6. Command(p) = w \o v
  BY DEF Command, encodeCommand, w, k, v
<1>7. (w \o v)[1] = "put"
  BY <1>1, <1>3, <1>4, <1>5
<1>8. ASSUME NEW i \in 1..Len(k) PROVE (w \o v)[1 + i] = k[i]
  BY <1>1, <1>4, <1>5
<1>9. ASSUME NEW i \in 1..Len(v) PROVE (w \o v)[1 + Len(k) + i] = v[i]
  BY <1>1, <1>5
<1> QED
  BY <1>5, <1>6, <1>7, <1>8, <1>9 DEF k, v

\* decodeCommand gives a put back, with a key and a value made of parts; with
\* a plain key they are the ones that were encoded.
LEMMA DecodePut ==
    ASSUME NEW p \in Puts
    PROVE  LET d == decodeCommand(Command(p)) IN
           /\ d.op = "put" /\ d.key \in Seq(Part) /\ d.value \in Seq(Part)
           /\ Len(Request[p].key) = 1 =>
                d.key = Request[p].key /\ d.value = Request[p].value
<1> DEFINE k == Request[p].key
           v == Request[p].value
           c == Command(p)
           s == SubSeq(c, 3, Len(c))
<1>1. /\ k \in Seq(Part) /\ v \in Seq(Part) /\ Len(k) \in Nat \ {0} /\ Len(v) \in Nat \ {0}
  BY RequestParts
<1>2. /\ c \in Seq(Alphabet) /\ Len(c) = 1 + Len(k) + Len(v) /\ c[1] = "put"
      /\ \A i \in 1..Len(k) : c[1 + i] = k[i]
      /\ \A i \in 1..Len(v) : c[1 + Len(k) + i] = v[i]
  BY CommandIs
<1> HIDE DEF k, v, c
<1>3. \A i \in 1..Len(k) : k[i] \in Part
  BY <1>1, ElementOfSeq
<1>4. \A i \in 1..Len(v) : v[i] \in Part
  BY <1>1, ElementOfSeq
<1>5. ASSUME NEW i \in 2..Len(c) PROVE c[i] \in Part
  <2>1. CASE i <= 1 + Len(k)
    <3>1. i - 1 \in 1..Len(k) /\ 1 + (i - 1) = i
      BY <1>1, <2>1
    <3> QED
      BY <1>2, <1>3, <3>1
  <2>2. CASE i > 1 + Len(k)
    <3>1. i - 1 - Len(k) \in 1..Len(v) /\ 1 + Len(k) + (i - 1 - Len(k)) = i
      BY <1>1, <1>2, <2>2
    <3> QED
      BY <1>2, <1>4, <3>1
  <2> QED
    BY <1>1, <1>2, <2>1, <2>2
<1>6. Len(c) \in Nat /\ Len(c) >= 3
  BY <1>1, <1>2
<1>7. /\ s \in Seq(Part) /\ Len(s) = Len(c) - 2
      /\ \A i \in 1 .. Len(c) - 2 : s[i] = c[i + 2]
  <2>1. \A i \in 3..Len(c) : c[i] \in Part
    BY <1>5, <1>6
  <2>2. /\ s \in Seq(Part) /\ Len(s) = IF 3 <= Len(c) THEN Len(c) - 3 + 1 ELSE 0
        /\ \A i \in 1 .. Len(c) - 3 + 1 : s[i] = c[3 + i - 1]
    BY <1>6, <2>1, SubSeqProperties
  <2> QED
    BY <1>6, <2>2
<1> HIDE DEF s
<1>8. decodeCommand(c) = [op |-> c[1], key |-> << c[2] >>, value |-> s]
  <2>1. ~(Len(c) < 2)
    BY <1>6
  <2> QED
    BY <2>1, Zenon DEF decodeCommand, s
<1>9. c[2] \in Part /\ << c[2] >> \in Seq(Part) /\ Len(<< c[2] >>) = 1 /\ << c[2] >>[1] = c[2]
  BY <1>5, <1>6
<1>10. ASSUME Len(k) = 1 PROVE << c[2] >> = k /\ s = v
  <2>1. c[2] = k[1]
    BY <1>2, <1>10
  <2>2. << c[2] >> = k
    BY <1>1, <1>9, <1>10, <2>1, SeqEqual
  <2>3. Len(s) = Len(v)
    BY <1>1, <1>2, <1>7, <1>10
  <2>4. \A i \in 1..Len(s) : s[i] = v[i]
    <3> TAKE i \in 1..Len(s)
    <3>1. i \in 1..Len(v) /\ i \in 1 .. Len(c) - 2 /\ 1 + Len(k) + i = i + 2
      BY <1>1, <1>7, <1>10, <2>3
    <3> QED
      BY <1>2, <1>7, <3>1
  <2> QED
    BY <1>1, <1>7, <2>2, <2>3, <2>4, SeqEqual
<1> QED
  BY <1>2, <1>7, <1>8, <1>9, <1>10 DEF c, k, v

\* An entry a new leader makes stores nothing, and no Put makes such a one.
LEMMA DecodeNoop ==
    /\ << "noop" >> \in Seq(Alphabet)
    /\ decodeCommand(<< "noop" >>).op # "put"
    /\ \A p \in Puts : Command(p) # << "noop" >>
<1>1. << "noop" >> \in Seq(Alphabet) /\ Len(<< "noop" >>) = 1
  BY DEF Alphabet
<1>2. decodeCommand(<< "noop" >>).op # "put"
  BY <1>1 DEF decodeCommand
<1>3. ASSUME NEW p \in Puts PROVE Command(p) # << "noop" >>
  <2>1. Len(Command(p)) = 1 + Len(Request[p].key) + Len(Request[p].value)
    BY CommandIs
  <2>2. Len(Request[p].key) \in Nat \ {0} /\ Len(Request[p].value) \in Nat \ {0}
    BY RequestParts
  <2>3. ASSUME NEW j \in Nat \ {0}, NEW k \in Nat \ {0} PROVE 1 + j + k # 1
    OBVIOUS
  <2>4. Len(Command(p)) # 1
    BY <2>1, <2>2, <2>3, Zenon
  <2> QED
    BY <1>1, <2>4
<1> QED
  BY <1>1, <1>2, <1>3

-----------------------------------------------------------------------------
(***************************************************************************)
(* The core.  Holds(i, e): some log, or the sequence of chosen entries,    *)
(* has e at position i.  Owned(i, t): a position with an entry of term t   *)
(* is within the log of the leader of that term, while it leads, so that   *)
(* what the leader appends is new.                                         *)
(***************************************************************************)
Holds(i, e) ==
    \/ \E n \in Node : i \in 1..Len(log[n]) /\ log[n][i] = e
    \/ i \in 1..Len(chosen) /\ chosen[i] = e

Owned(i, t) ==
    /\ \E p \in Node : t <= currentTerm[p]
    /\ \A n \in Node : leads[n] /\ currentTerm[n] = t => i <= Len(log[n])

\* An entry is a new leader's, or that of the Put whose ticket names it.
EntryTrue(i, e) ==
    /\ e.index = i /\ Owned(i, e.term)
    /\ \/ e.command = << "noop" >>
       \/ \E p \in Puts : /\ ticket[p] = [index |-> i, term |-> e.term]
                          /\ e.command = Command(p)
    /\ \A p \in Puts : ticket[p] = [index |-> i, term |-> e.term] => e.command = Command(p)

EntriesTrue == \A i \in Nat, e \in EntryType : Holds(i, e) => EntryTrue(i, e)

TicketsOwned ==
    \A p \in Puts : ticket[p].index # 0 => Owned(ticket[p].index, ticket[p].term)

OneLeader ==
    /\ \A n \in Node : leads[n] => currentTerm[n] \in Term
    /\ \A n, l \in Node : leads[n] /\ leads[l] /\ currentTerm[n] = currentTerm[l] => n = l

LogsBounded == \A n \in Node : Len(log[n]) <= MaxLog

\* The newest leader has all that is chosen; any leader, and the node itself,
\* have all that a node of its term or an older one knows to be chosen.
LeaderHolds ==
    \A n \in Node : leads[n] /\ Newest(n) => SamePrefix(chosen, log[n], Len(chosen))

LeaderKnows ==
    \A n, l \in Node : leads[l] /\ currentTerm[n] <= currentTerm[l]
                         => SamePrefix(chosen, log[l], commitIndex[n])

NodeKnows == \A n \in Node : SamePrefix(chosen, log[n], commitIndex[n])

CoreInv ==
    /\ EntriesTrue /\ TicketsOwned /\ OneLeader /\ LogsBounded
    /\ LeaderHolds /\ LeaderKnows /\ NodeKnows

(***************************************************************************)
(* The servers.  The channel holds the chosen entries between what is      *)
(* stored and what was sent; a waiting handler is registered under its own *)
(* index at its own server; and the term it is woken with is that of the   *)
(* entry chosen there, which is stored by then.                            *)
(***************************************************************************)
Registered(p) == pc[p] \in {"waiting", "ok", "aborted", "timedout"}

Channel ==
    \A n \in Node :
        /\ Len(commitCh[n]) <= lastApplied[n] /\ lastApplied[n] <= commitIndex[n]
        /\ \A j \in 1..Len(commitCh[n]) : commitCh[n][j] = chosen[Stored(n) + j]

InHand ==
    \A n \in Node : applying[n] # Nil => Stored(n) >= 1 /\ applying[n] = chosen[Stored(n)]

NoTicket ==
    \A p \in Puts : /\ pc[p] \in {"new", "refused", "redirected", "failed"} => ticket[p].index = 0
                    /\ pc[p] \in {"started"} \/ Registered(p) => ticket[p].index # 0

PendingTrue ==
    \A n \in Node, i \in 1..MaxLog :
        LET p == pending[n][i] IN
        p # Nil => Registered(p) /\ at[p] = n /\ ticket[p].index = i

SignalsTrue ==
    \A p \in Puts : signal[p] # 0 =>
        /\ Registered(p) /\ ticket[p].index <= Stored(at[p])
        /\ ticket[p].index \in 1..Len(chosen)
        /\ chosen[ticket[p].index].term = signal[p]

Answers ==
    \A p \in Puts :
        /\ pc[p] = "ok" => signal[p] # 0 /\ signal[p] = ticket[p].term
        /\ pc[p] = "aborted" => signal[p] # 0 /\ signal[p] # ticket[p].term

StoresAreMaps == \E S : store \in [Node -> S]

ServerInv ==
    /\ StoresAreMaps /\ Channel /\ InHand /\ NoTicket
    /\ PendingTrue /\ SignalsTrue /\ Answers

KVInv == TypeOK /\ CoreInv /\ ServerInv

-----------------------------------------------------------------------------
(* Common prefixes and types *)

\* A log that grows at its end still agrees with what it agreed with.
LEMMA SamePrefixChain ==
    ASSUME NEW r, NEW s, NEW u, NEW j \in Nat, NEW k \in Nat, j <= k,
           Len(u) \in Int, SamePrefix(r, s, j), SamePrefix(s, u, k)
    PROVE  SamePrefix(r, u, j)
<1>1. j <= Len(r) /\ j <= Len(s) /\ \A i \in 1..j : r[i] = s[i]
  BY DEF SamePrefix
<1>2. k <= Len(u) /\ \A i \in 1..k : s[i] = u[i]
  BY DEF SamePrefix
<1>3. \A i \in 1..j : i \in 1..k
  OBVIOUS
<1>4. j <= Len(u)
  BY <1>2
<1> QED
  BY <1>1, <1>2, <1>3, <1>4 DEF SamePrefix

\* Logs that agree on a prefix agree on a shorter one.
LEMMA SamePrefixLess ==
    ASSUME NEW r, NEW s, NEW j \in Nat, NEW k \in Nat, j <= k,
           Len(r) \in Int, Len(s) \in Int, SamePrefix(r, s, k)
    PROVE  SamePrefix(r, s, j)
<1>1. \A i \in 1..j : i \in 1..k
  OBVIOUS
<1> QED
  BY <1>1 DEF SamePrefix

\* Agreeing is mutual.
LEMMA SamePrefixSym ==
    ASSUME NEW r, NEW s, NEW k, SamePrefix(r, s, k)
    PROVE  SamePrefix(s, r, k)
  BY DEF SamePrefix

\* Appending keeps what was there and adds one entry.
LEMMA AppendGrows ==
    ASSUME NEW S, NEW s \in Seq(S), NEW e \in S
    PROVE  /\ Append(s, e) \in Seq(S) /\ Len(s) \in Nat
           /\ Len(Append(s, e)) = Len(s) + 1 /\ Append(s, e)[Len(s) + 1] = e
           /\ \A i \in 1..Len(s) : Append(s, e)[i] = s[i]
           /\ SamePrefix(s, Append(s, e), Len(s))
<1>1. Len(s) \in Nat
  BY LenProperties
<1>2. /\ Append(s, e) \in Seq(S)
      /\ Len(Append(s, e)) = Len(s) + 1
      /\ \A i \in 1..Len(s) : Append(s, e)[i] = s[i]
      /\ Append(s, e)[Len(s) + 1] = e
  BY AppendProperties
<1> QED
  BY <1>1, <1>2 DEF SamePrefix

\* Terms are numbers.
LEMMA TermIsNat == Term \subseteq Nat
  BY KVAssumption DEF Term

\* What the types say of the numbers of the core.
LEMMA CoreNumbers ==
    ASSUME TypeOK, NEW n \in Node
    PROVE  /\ currentTerm[n] \in Nat /\ log[n] \in Seq(EntryType) /\ Len(log[n]) \in Nat
           /\ chosen \in Seq(EntryType) /\ Len(chosen) \in Nat /\ commitIndex[n] \in Nat
           /\ leads[n] \in BOOLEAN
<1>1. currentTerm[n] \in Term \cup {0} /\ log[n] \in Seq(EntryType)
  BY DEF TypeOK
<1>2. chosen \in Seq(EntryType) /\ commitIndex[n] \in Nat /\ leads[n] \in BOOLEAN
  BY DEF TypeOK
<1>3. currentTerm[n] \in Nat
  BY <1>1, TermIsNat
<1> QED
  BY <1>1, <1>2, <1>3, LenProperties

\* An entry in a log is an entry.
LEMMA HeldIsEntry ==
    ASSUME TypeOK, NEW i, NEW e, Holds(i, e)
    PROVE  i \in Nat \ {0} /\ e \in EntryType /\ e.term \in Nat
<1>1. PICK s \in Seq(EntryType) : i \in 1..Len(s) /\ s[i] = e
  <2>1. chosen \in Seq(EntryType) /\ \A n \in Node : log[n] \in Seq(EntryType)
    BY DEF TypeOK
  <2> QED
    BY <2>1 DEF Holds
<1>2. Len(s) \in Nat /\ e \in EntryType
  BY <1>1, LenProperties, ElementOfSeq
<1>3. e.term \in Nat
  BY <1>2, TermIsNat DEF EntryType
<1>4. i \in Nat \ {0}
  BY <1>1, <1>2
<1> QED
  BY <1>2, <1>3, <1>4

\* A ticket is a pair of numbers.
LEMMA TicketNumbers ==
    ASSUME TypeOK, NEW p \in Puts
    PROVE  /\ ticket[p].index \in Nat /\ ticket[p].term \in Nat
           /\ ticket[p] = [index |-> ticket[p].index, term |-> ticket[p].term]
<1>1. ticket[p] \in [index : 0..MaxLog, term : Term \cup {0}]
  BY DEF TypeOK
<1>2. ticket[p].index \in 0..MaxLog /\ ticket[p].term \in Term \cup {0}
  BY <1>1
<1>3. ticket[p].index \in Nat
  BY <1>2, KVAssumption
<1>4. ticket[p].term \in Nat
  <2>1. \A t \in Term \cup {0} : t \in Nat
    BY TermIsNat
  <2> QED
    BY <1>2, <2>1
<1>5. ticket[p] = [index |-> ticket[p].index, term |-> ticket[p].term]
  BY <1>1
<1> QED
  BY <1>3, <1>4, <1>5

\* A chosen entry is true to the Puts.
LEMMA ChosenTrue ==
    ASSUME TypeOK, CoreInv, NEW i \in 1..Len(chosen)
    PROVE  chosen[i] \in EntryType /\ EntryTrue(i, chosen[i])
<1>1. Holds(i, chosen[i])
  BY DEF Holds
<1> QED
  BY <1>1, HeldIsEntry DEF CoreInv, EntriesTrue

-----------------------------------------------------------------------------
(* The steps of the core *)

\* A leader that appends adds one entry, after its last.
LEMMA AppendedHolds ==
    ASSUME TypeOK, NEW n \in Node, NEW x \in EntryType,
           log' = [log EXCEPT ![n] = Append(@, x)], chosen' = chosen,
           NEW i, NEW e, Holds(i, e)'
    PROVE  Holds(i, e) \/ (i = Len(log[n]) + 1 /\ e = x)
<1>1. CASE i \in 1..Len(chosen) /\ chosen[i] = e
  BY <1>1 DEF Holds
<1>2. ASSUME NEW q \in Node, i \in 1..Len(log'[q]), log'[q][i] = e
      PROVE  Holds(i, e) \/ (i = Len(log[n]) + 1 /\ e = x)
  <2>1. CASE q # n
    <3>1. log'[q] = log[q]
      BY <2>1 DEF TypeOK
    <3> QED
      BY <1>2, <3>1 DEF Holds
  <2>2. CASE q = n
    <3>1. log'[n] = Append(log[n], x) /\ log[n] \in Seq(EntryType)
      BY DEF TypeOK
    <3>2. /\ Len(log[n]) \in Nat /\ Len(log'[n]) = Len(log[n]) + 1
          /\ log'[n][Len(log[n]) + 1] = x
          /\ \A j \in 1..Len(log[n]) : log'[n][j] = log[n][j]
      BY <3>1, AppendGrows
    <3>3. i \in 1..Len(log[n]) \/ i = Len(log[n]) + 1
      BY <1>2, <2>2, <3>2
    <3> QED
      BY <1>2, <2>2, <3>2, <3>3 DEF Holds
  <2> QED
    BY <2>1, <2>2
<1> QED
  BY <1>1, <1>2 DEF Holds

\* What the log of one node becomes when it appends, and that of the others.
LEMMA AppendedLogs ==
    ASSUME TypeOK, NEW n \in Node, NEW x \in EntryType,
           log' = [log EXCEPT ![n] = Append(@, x)]
    PROVE  /\ Len(log'[n]) = Len(log[n]) + 1
           /\ SamePrefix(log[n], log'[n], Len(log[n]))
           /\ \A q \in Node : /\ Len(log[q]) \in Nat /\ Len(log'[q]) \in Nat
                              /\ Len(log[q]) <= Len(log'[q])
                              /\ q # n => log'[q] = log[q]
<1>1. log'[n] = Append(log[n], x) /\ \A q \in Node : q # n => log'[q] = log[q]
  BY DEF TypeOK
<1>2. \A q \in Node : log[q] \in Seq(EntryType) /\ Len(log[q]) \in Nat
  BY CoreNumbers
<1>3. Len(log'[n]) = Len(log[n]) + 1 /\ SamePrefix(log[n], log'[n], Len(log[n]))
  BY <1>1, <1>2, AppendGrows
<1>4. \A q \in Node : Len(log'[q]) \in Nat /\ Len(log[q]) <= Len(log'[q])
  BY <1>1, <1>2, <1>3
<1> QED
  BY <1>1, <1>2, <1>3, <1>4

\* A position stays its leader's when terms only grow and a leader only goes
\* on leading, with a longer log.
LEMMA OwnedKept ==
    ASSUME NEW i \in Nat, NEW t \in Nat, Owned(i, t),
           \A q \in Node : /\ currentTerm[q] \in Nat /\ currentTerm'[q] \in Nat
                           /\ Len(log[q]) \in Nat /\ Len(log'[q]) \in Nat
                           /\ currentTerm[q] <= currentTerm'[q],
           \A q \in Node : leads'[q] /\ currentTerm'[q] = t =>
              leads[q] /\ currentTerm[q] = t /\ Len(log[q]) <= Len(log'[q])
    PROVE  Owned(i, t)'
<1>1. PICK p \in Node : t <= currentTerm[p]
  BY DEF Owned
<1>2. t <= currentTerm'[p]
  BY <1>1
<1>3. ASSUME NEW q \in Node, leads'[q], currentTerm'[q] = t PROVE i <= Len(log'[q])
  <2>1. i <= Len(log[q]) /\ Len(log[q]) <= Len(log'[q])
    BY <1>3 DEF Owned
  <2> QED
    BY <2>1
<1> QED
  BY <1>2, <1>3 DEF Owned

\* The entry of a new leader is new: no log and no ticket has its term yet.
LEMMA ElectKeepsCore ==
    ASSUME TypeOK, CoreInv, TypeOK', NEW n \in Node, NEW t \in Term, Elect(n, t)
    PROVE  CoreInv'
<1> DEFINE x == Entry(Len(log[n]) + 1, t, << "noop" >>)
<1>1. /\ \A q \in Node : /\ currentTerm[q] \in Nat /\ Len(log[q]) \in Nat
                         /\ commitIndex[q] \in Nat
      /\ Len(chosen) \in Nat /\ t \in Nat
      /\ log \in [Node -> Seq(EntryType)] /\ chosen \in Seq(EntryType)
  BY CoreNumbers, TermIsNat DEF TypeOK
<1>2. /\ \A q \in Node : currentTerm[q] < t
      /\ IsPrefix(chosen, log[n]) /\ Len(log[n]) < MaxLog /\ ~leads[n]
      /\ log' = [log EXCEPT ![n] = Append(@, x)]
      /\ UNCHANGED << chosen, commitIndex, ticket >>
  BY DEF Elect, handler
<1>3. x \in EntryType
  <2>1. << "noop" >> \in Seq(Alphabet) /\ Len(log[n]) + 1 \in 1..MaxLog
    BY <1>1, <1>2, DecodeNoop, KVAssumption
  <2> QED
    BY <2>1 DEF Entry, EntryType, Alphabet
<1>4. /\ currentTerm'[n] = t /\ leads'[n]
      /\ \A q \in Node : q # n => currentTerm'[q] = currentTerm[q] /\ leads'[q] = leads[q]
  BY DEF Elect, TypeOK
<1> HIDE DEF x
<1>5. /\ Len(log'[n]) = Len(log[n]) + 1
      /\ SamePrefix(log[n], log'[n], Len(log[n]))
      /\ \A q \in Node : /\ Len(log'[q]) \in Nat /\ Len(log[q]) <= Len(log'[q])
                         /\ q # n => log'[q] = log[q]
  BY <1>2, <1>3, AppendedLogs
<1>6. \A q \in Node : currentTerm'[q] \in Nat /\ currentTerm[q] <= currentTerm'[q]
  BY <1>1, <1>2, <1>4
<1>7. ASSUME NEW i \in Nat, NEW s \in Nat, Owned(i, s) PROVE s # t /\ Owned(i, s)'
  <2>1. s # t
    <3>1. PICK p \in Node : s <= currentTerm[p]
      BY <1>7 DEF Owned
    <3> QED
      BY <1>1, <1>2, <3>1
  <2>2. \A q \in Node : leads'[q] /\ currentTerm'[q] = s =>
              leads[q] /\ currentTerm[q] = s /\ Len(log[q]) <= Len(log'[q])
    BY <1>4, <1>5, <2>1
  <2> QED
    BY <1>1, <1>5, <1>6, <1>7, <2>1, <2>2, OwnedKept
<1>8. \A p \in Puts : ticket[p].index \in Nat /\ ticket[p].term \in Nat
  BY TicketNumbers
<1>9. TicketsOwned'
  BY <1>2, <1>7, <1>8 DEF CoreInv, TicketsOwned
<1>10. ASSUME NEW i \in Nat, NEW e \in EntryType, Holds(i, e)' PROVE EntryTrue(i, e)'
  <2>1. CASE Holds(i, e)
    <3>1. EntryTrue(i, e) /\ e.term \in Nat
      BY <2>1, HeldIsEntry DEF CoreInv, EntriesTrue
    <3>2. Owned(i, e.term)'
      BY <1>7, <3>1 DEF EntryTrue
    <3> QED
      BY <1>2, <3>1, <3>2 DEF EntryTrue
  <2>2. CASE i = Len(log[n]) + 1 /\ e = x
    <3>1. e.index = i /\ e.term = t /\ e.command = << "noop" >>
      BY <2>2 DEF x, Entry
    <3>2. Owned(i, t)'
      <4>1. t <= currentTerm'[n]
        BY <1>1, <1>4
      <4>2. ASSUME NEW q \in Node, leads'[q], currentTerm'[q] = t PROVE i <= Len(log'[q])
        BY <1>1, <1>2, <1>4, <1>5, <2>2, <4>2
      <4> QED
        BY <4>1, <4>2 DEF Owned
    <3>3. ASSUME NEW p \in Puts, ticket[p] = [index |-> i, term |-> t] PROVE FALSE
      <4>1. Owned(ticket[p].index, ticket[p].term) /\ ticket[p].term = t
        BY <1>1, <2>2, <3>3 DEF CoreInv, TicketsOwned
      <4> QED
        BY <1>7, <1>8, <4>1
    <3> QED
      BY <1>2, <3>1, <3>2, <3>3 DEF EntryTrue
  <2> QED
    BY <1>2, <1>3, <1>10, <2>1, <2>2, AppendedHolds
<1>11. OneLeader'
  <2>1. ASSUME NEW q \in Node, NEW l \in Node, leads'[q], leads'[l],
               currentTerm'[q] = currentTerm'[l], q # l
        PROVE  FALSE
    <3>1. q # n /\ l # n
      BY <1>1, <1>2, <1>4, <2>1
    <3>2. leads[q] /\ leads[l]
      BY <1>4, <2>1, <3>1, Zenon
    <3>3. currentTerm[q] = currentTerm[l]
      BY <1>4, <2>1, <3>1
    <3> QED
      BY <2>1, <3>2, <3>3 DEF CoreInv, OneLeader
  <2>2. ASSUME NEW q \in Node, leads'[q] PROVE currentTerm'[q] \in Term
    <3>1. CASE q = n
      BY <1>4, <3>1
    <3>2. CASE q # n
      <4>1. leads[q]
        BY <1>4, <2>2, <3>2, Zenon
      <4> QED
        BY <1>4, <3>2, <4>1 DEF CoreInv, OneLeader
    <3> QED
      BY <3>1, <3>2
  <2> QED
    BY <2>1, <2>2 DEF OneLeader
<1>12. LogsBounded'
  BY <1>1, <1>2, <1>5, KVAssumption DEF CoreInv, LogsBounded
<1>13. \A q \in Node : commitIndex[q] <= Len(chosen)
  BY DEF CoreInv, NodeKnows, SamePrefix
<1>14. SamePrefix(chosen, log'[n], Len(chosen)) /\ Len(chosen) <= Len(log[n])
  <2>1. SamePrefix(chosen, log[n], Len(chosen)) /\ Len(chosen) <= Len(log[n])
    <3>1. Len(chosen) <= Len(log[n]) /\ SubSeq(chosen, 1, Len(chosen)) = SubSeq(log[n], 1, Len(chosen))
      BY <1>2 DEF IsPrefix
    <3>2. \A i \in 1..Len(chosen) : chosen[i] \in EntryType
      BY <1>1, ElementOfSeq
    <3>3. \A i \in 1..Len(chosen) : log[n][i] \in EntryType
      BY <1>1, <3>1, ElementOfSeq
    <3>4. \A i \in 1 .. Len(chosen) - 1 + 1 : SubSeq(chosen, 1, Len(chosen))[i] = chosen[1 + i - 1]
      BY <1>1, <3>2, SubSeqProperties
    <3>5. \A i \in 1 .. Len(chosen) - 1 + 1 : SubSeq(log[n], 1, Len(chosen))[i] = log[n][1 + i - 1]
      BY <1>1, <3>3, SubSeqProperties
    <3>6. \A i \in 1..Len(chosen) : chosen[i] = log[n][i]
      BY <1>1, <3>1, <3>4, <3>5
    <3> QED
      BY <1>1, <3>1, <3>6 DEF SamePrefix
  <2> QED
    BY <1>1, <1>5, <2>1, SamePrefixChain
<1>15. \A q \in Node : SamePrefix(chosen, log'[n], commitIndex[q])
  BY <1>1, <1>5, <1>13, <1>14, SamePrefixLess
<1>16. LeaderHolds'
  <2>1. ASSUME NEW q \in Node, Newest(q)' PROVE q = n
    BY <1>1, <1>2, <1>4, <2>1 DEF Newest
  <2> QED
    BY <1>2, <1>14, <2>1 DEF LeaderHolds
<1>17. LeaderKnows'
  <2>1. ASSUME NEW q \in Node, NEW l \in Node, leads'[l], currentTerm'[q] <= currentTerm'[l]
        PROVE  SamePrefix(chosen, log'[l], commitIndex[q])
    <3>1. CASE l = n
      BY <1>15, <3>1
    <3>2. CASE l # n
      <4>1. leads[l] /\ log'[l] = log[l]
        BY <1>4, <1>5, <2>1, <3>2, Zenon
      <4>2. currentTerm'[l] = currentTerm[l] /\ currentTerm[l] < t
        BY <1>2, <1>4, <3>2
      <4>3. q # n
        BY <1>1, <1>4, <2>1, <4>2
      <4>4. currentTerm[q] <= currentTerm[l]
        BY <1>4, <2>1, <4>2, <4>3
      <4> QED
        BY <4>1, <4>4 DEF CoreInv, LeaderKnows
    <3> QED
      BY <3>1, <3>2
  <2> QED
    BY <1>2, <2>1 DEF LeaderKnows
<1>18. NodeKnows'
  BY <1>2, <1>5, <1>15 DEF CoreInv, NodeKnows
<1> QED
  BY <1>9, <1>10, <1>11, <1>12, <1>16, <1>17, <1>18 DEF CoreInv, EntriesTrue

\* The newest leader extends what is chosen, by entries of its own log.
LEMMA ChooseExtends ==
    ASSUME TypeOK, CoreInv, NEW n \in Node, Choose(n)
    PROVE  \E k \in Len(chosen) + 1 .. Len(log[n]) :
              /\ chosen' \in Seq(EntryType) /\ Len(chosen') = k
              /\ SamePrefix(chosen, chosen', Len(chosen)) /\ SamePrefix(chosen', log[n], k)
              /\ commitIndex' = [commitIndex EXCEPT ![n] = k]
<1>1. PICK k \in Len(chosen) + 1 .. Len(log[n]) :
        chosen' = Prefix(log[n], k) /\ commitIndex' = [commitIndex EXCEPT ![n] = k]
  BY DEF Choose
<1>2. /\ log[n] \in Seq(EntryType) /\ Len(log[n]) \in Nat
      /\ chosen \in Seq(EntryType) /\ Len(chosen) \in Nat
  BY CoreNumbers
<1>3. k \in Nat /\ Len(chosen) < k /\ k <= Len(log[n])
  BY <1>2
<1>4. \A i \in 1..k : log[n][i] \in EntryType
  BY <1>2, <1>3, ElementOfSeq
<1>5. /\ SubSeq(log[n], 1, k) \in Seq(EntryType)
      /\ Len(SubSeq(log[n], 1, k)) = IF 1 <= k THEN k - 1 + 1 ELSE 0
      /\ \A i \in 1 .. k - 1 + 1 : SubSeq(log[n], 1, k)[i] = log[n][1 + i - 1]
  BY <1>3, <1>4, SubSeqProperties
<1>6. chosen' = SubSeq(log[n], 1, k)
  BY <1>1 DEF Prefix
<1>7. Len(chosen') = k /\ \A i \in 1..k : chosen'[i] = log[n][i]
  BY <1>2, <1>3, <1>5, <1>6
<1>8. SamePrefix(chosen', log[n], k)
  BY <1>3, <1>7 DEF SamePrefix
<1>9. SamePrefix(chosen, log[n], Len(chosen))
  BY DEF Choose, CoreInv, LeaderHolds
<1>10. SamePrefix(chosen, chosen', Len(chosen))
  BY <1>2, <1>3, <1>7, <1>8, <1>9, SamePrefixChain, SamePrefixSym
<1> QED
  BY <1>1, <1>5, <1>6, <1>7, <1>8, <1>10

\* Choosing adds no entry, and only the newest leader and its log know of it.
LEMMA ChooseKeepsCore ==
    ASSUME TypeOK, CoreInv, TypeOK', NEW n \in Node, Choose(n)
    PROVE  CoreInv'
<1>1. PICK k \in Len(chosen) + 1 .. Len(log[n]) :
              /\ chosen' \in Seq(EntryType) /\ Len(chosen') = k
              /\ SamePrefix(chosen, chosen', Len(chosen)) /\ SamePrefix(chosen', log[n], k)
              /\ commitIndex' = [commitIndex EXCEPT ![n] = k]
  BY ChooseExtends
<1>2. /\ \A q \in Node : /\ currentTerm[q] \in Nat /\ Len(log[q]) \in Nat
                         /\ commitIndex[q] \in Nat
      /\ Len(chosen) \in Nat
  BY CoreNumbers
<1>3. k \in Nat /\ Len(chosen) < k /\ k <= Len(log[n])
  BY <1>2
<1>4. leads[n] /\ Newest(n) /\ UNCHANGED << currentTerm, leads, log, ticket >>
  BY DEF Choose, handler
<1>5. ASSUME NEW i \in Nat, NEW e \in EntryType, Holds(i, e)' PROVE Holds(i, e)
  <2>1. CASE \E q \in Node : i \in 1..Len(log[q]) /\ log[q][i] = e
    BY <2>1 DEF Holds
  <2>2. CASE i \in 1..Len(chosen') /\ chosen'[i] = e
    <3>1. i \in 1..k /\ log[n][i] = e
      BY <1>1, <2>2 DEF SamePrefix
    <3>2. i \in 1..Len(log[n])
      BY <1>2, <1>3, <3>1
    <3> QED
      BY <3>1, <3>2 DEF Holds
  <2> QED
    BY <1>4, <1>5, <2>1, <2>2 DEF Holds
<1>6. EntriesTrue' /\ TicketsOwned' /\ OneLeader' /\ LogsBounded'
  <2>1. \A i \in Nat, e \in EntryType : EntryTrue(i, e) => EntryTrue(i, e)'
    BY <1>4 DEF EntryTrue, Owned
  <2>2. EntriesTrue'
    BY <1>5, <2>1 DEF CoreInv, EntriesTrue
  <2> QED
    BY <1>4, <2>2 DEF CoreInv, TicketsOwned, Owned, OneLeader, LogsBounded
<1>7. \A q \in Node : commitIndex[q] <= Len(chosen)
  BY DEF CoreInv, NodeKnows, SamePrefix
<1>8. \A l \in Node, q \in Node : SamePrefix(chosen, log[l], commitIndex[q])
                                    => SamePrefix(chosen', log[l], commitIndex[q])
  <2> TAKE l \in Node, q \in Node
  <2> HAVE SamePrefix(chosen, log[l], commitIndex[q])
  <2>1. SamePrefix(chosen, chosen', commitIndex[q])
    BY <1>1, <1>2, <1>3, <1>7, SamePrefixLess
  <2>2. SamePrefix(chosen', chosen, commitIndex[q])
    BY <2>1, SamePrefixSym
  <2> QED
    BY <1>2, <2>2, SamePrefixChain
<1>9. commitIndex'[n] = k /\ \A q \in Node : q # n => commitIndex'[q] = commitIndex[q]
  BY <1>1 DEF TypeOK
<1>10. \A l \in Node : leads[l] /\ currentTerm[n] <= currentTerm[l] => l = n
  <2> TAKE l \in Node
  <2> HAVE leads[l] /\ currentTerm[n] <= currentTerm[l]
  <2>1. currentTerm[l] = currentTerm[n]
    BY <1>2, <1>4 DEF Newest
  <2> QED
    BY <1>4, <2>1 DEF CoreInv, OneLeader
<1>11. LeaderHolds'
  <2>1. ASSUME NEW q \in Node, leads'[q], Newest(q)' PROVE q = n
    <3>1. leads[q] /\ currentTerm[n] <= currentTerm[q]
      BY <1>4, <2>1 DEF Newest
    <3> QED
      BY <1>10, <3>1
  <2>2. SamePrefix(chosen', log'[n], Len(chosen'))
    BY <1>1, <1>4
  <2> QED
    BY <2>1, <2>2 DEF LeaderHolds
<1>12. LeaderKnows'
  <2>1. ASSUME NEW q \in Node, NEW l \in Node, leads[l], currentTerm[q] <= currentTerm[l]
        PROVE  SamePrefix(chosen', log[l], commitIndex'[q])
    <3>1. CASE q = n
      BY <1>1, <1>9, <1>10, <2>1, <3>1
    <3>2. CASE q # n
      BY <1>8, <1>9, <2>1, <3>2 DEF CoreInv, LeaderKnows
    <3> QED
      BY <3>1, <3>2
  <2> QED
    BY <1>4, <2>1 DEF LeaderKnows
<1>13. NodeKnows'
  BY <1>1, <1>4, <1>8, <1>9 DEF CoreInv, NodeKnows
<1> QED
  BY <1>6, <1>11, <1>12, <1>13 DEF CoreInv

\* A node that takes a leader's log and commit index takes nothing back.
LEMMA AppendEntriesKeepsCore ==
    ASSUME TypeOK, CoreInv, TypeOK', NEW n \in Node, NEW l \in Node, AppendEntries(n, l)
    PROVE  /\ CoreInv'
           /\ \A q \in Node : commitIndex[q] <= commitIndex'[q]
<1>1. /\ \A q \in Node : /\ currentTerm[q] \in Nat /\ Len(log[q]) \in Nat
                         /\ commitIndex[q] \in Nat /\ currentTerm'[q] \in Nat
                         /\ Len(log'[q]) \in Nat
      /\ Len(chosen) \in Nat
  <2>1. \A q \in Node : currentTerm'[q] \in Term \cup {0} /\ log'[q] \in Seq(EntryType)
    BY DEF TypeOK
  <2>2. \A q \in Node : currentTerm'[q] \in Nat /\ Len(log'[q]) \in Nat
    <3>1. \A t \in Term \cup {0} : t \in Nat
      BY TermIsNat
    <3>2. \A q \in Node : Len(log'[q]) \in Nat
      BY <2>1, LenProperties
    <3> QED
      BY <2>1, <3>1, <3>2
  <2>3. \A q \in Node : currentTerm[q] \in Nat /\ Len(log[q]) \in Nat /\ commitIndex[q] \in Nat
    BY CoreNumbers
  <2>4. Len(chosen) \in Nat
    BY CoreNumbers
  <2> QED
    BY <2>2, <2>3, <2>4
<1>2. n # l /\ leads[l] /\ currentTerm[n] <= currentTerm[l]
  BY <1>1 DEF AppendEntries
<1>3. UNCHANGED << chosen, ticket >>
  BY DEF AppendEntries, handler
<1>4. /\ currentTerm'[n] = currentTerm[l] /\ ~leads'[n] /\ log'[n] = log[l]
      /\ commitIndex'[n] = commitIndex[l] \/ commitIndex'[n] = commitIndex[n]
      /\ commitIndex[n] <= commitIndex'[n]
  BY <1>1 DEF AppendEntries, TypeOK
<1>5. \A q \in Node : q # n => /\ currentTerm'[q] = currentTerm[q] /\ leads'[q] = leads[q]
                               /\ log'[q] = log[q] /\ commitIndex'[q] = commitIndex[q]
  BY DEF AppendEntries, TypeOK
<1>6. \A q \in Node : currentTerm[q] <= currentTerm'[q] /\ commitIndex[q] <= commitIndex'[q]
  BY <1>1, <1>2, <1>4, <1>5
<1>7. \A q \in Node : leads'[q] => /\ q # n /\ leads[q] /\ log'[q] = log[q]
                                   /\ currentTerm'[q] = currentTerm[q]
  BY <1>4, <1>5, Zenon
<1>8. ASSUME NEW i \in Nat, NEW t \in Nat, Owned(i, t) PROVE Owned(i, t)'
  <2>1. \A q \in Node : leads'[q] /\ currentTerm'[q] = t =>
              leads[q] /\ currentTerm[q] = t /\ Len(log[q]) <= Len(log'[q])
    BY <1>1, <1>7
  <2> QED
    BY <1>1, <1>6, <1>8, <2>1, OwnedKept
<1>9. ASSUME NEW i \in Nat, NEW e \in EntryType, Holds(i, e)' PROVE EntryTrue(i, e)'
  <2>1. Holds(i, e)
    BY <1>3, <1>4, <1>5, <1>9 DEF Holds
  <2>2. EntryTrue(i, e) /\ e.term \in Nat
    BY <2>1, HeldIsEntry DEF CoreInv, EntriesTrue
  <2>3. Owned(i, e.term)'
    BY <1>8, <2>2 DEF EntryTrue
  <2> QED
    BY <1>3, <2>2, <2>3 DEF EntryTrue
<1>10. TicketsOwned'
  BY <1>3, <1>8, TicketNumbers DEF CoreInv, TicketsOwned
<1>11. OneLeader'
  BY <1>7 DEF CoreInv, OneLeader
<1>12. LogsBounded'
  BY <1>4, <1>5 DEF CoreInv, LogsBounded
<1>13. LeaderHolds'
  <2>1. ASSUME NEW q \in Node, leads'[q], Newest(q)' PROVE Newest(q) /\ leads[q]
    <3>1. \A p \in Node : currentTerm'[p] <= currentTerm[q]
      BY <1>7, <2>1 DEF Newest
    <3>2. \A p \in Node : currentTerm[p] <= currentTerm[q]
      BY <1>1, <1>6, <3>1
    <3> QED
      BY <1>7, <2>1, <3>2 DEF Newest
  <2> QED
    BY <1>3, <1>7, <2>1 DEF CoreInv, LeaderHolds
<1>14. LeaderKnows'
  <2>1. ASSUME NEW q \in Node, NEW r \in Node, leads'[r], currentTerm'[q] <= currentTerm'[r]
        PROVE  SamePrefix(chosen, log'[r], commitIndex'[q])
    <3>1. leads[r] /\ log'[r] = log[r] /\ currentTerm'[r] = currentTerm[r]
      BY <1>7, <2>1
    <3>2. CASE q = n
      <4>1. currentTerm[n] <= currentTerm[r] /\ currentTerm[l] <= currentTerm[r]
        BY <1>1, <1>2, <1>4, <2>1, <3>1, <3>2
      <4>2. /\ SamePrefix(chosen, log[r], commitIndex[n])
            /\ SamePrefix(chosen, log[r], commitIndex[l])
        BY <3>1, <4>1 DEF CoreInv, LeaderKnows
      <4> QED
        BY <1>4, <3>1, <3>2, <4>2
    <3>3. CASE q # n
      <4>1. currentTerm[q] <= currentTerm[r] /\ commitIndex'[q] = commitIndex[q]
        BY <1>5, <2>1, <3>1, <3>3
      <4> QED
        BY <3>1, <4>1 DEF CoreInv, LeaderKnows
    <3> QED
      BY <3>2, <3>3
  <2> QED
    BY <1>3, <2>1 DEF LeaderKnows
<1>15. NodeKnows'
  <2>1. SamePrefix(chosen, log[l], commitIndex[n]) /\ SamePrefix(chosen, log[l], commitIndex[l])
    BY <1>1, <1>2 DEF CoreInv, LeaderKnows
  <2> QED
    BY <1>3, <1>4, <1>5, <2>1 DEF CoreInv, NodeKnows
<1> QED
  BY <1>6, <1>9, <1>10, <1>11, <1>12, <1>13, <1>14, <1>15 DEF CoreInv, EntriesTrue

\* The entry Start makes is new: no log has one of the leader's term there,
\* and no other Put has its ticket.
LEMMA StartKeepsCore ==
    ASSUME TypeOK, CoreInv, NoTicket, TypeOK', NEW p \in Puts, NEW n \in Node, Start(p, n)
    PROVE  CoreInv'
<1>1. /\ \A q \in Node : /\ currentTerm[q] \in Nat /\ Len(log[q]) \in Nat
                         /\ commitIndex[q] \in Nat
  BY CoreNumbers
<1>2. Len(chosen) \in Nat
  BY CoreNumbers
<1>3. PICK x \in EntryType :
        /\ x = Entry(Len(log[n]) + 1, currentTerm[n], Command(p))
        /\ log' = [log EXCEPT ![n] = Append(@, x)]
        /\ ticket' = [ticket EXCEPT ![p] = [index |-> x.index, term |-> x.term]]
  <2>1. Command(p) \in Seq(Alphabet)
    BY CommandIs
  <2>2. Len(log[n]) + 1 \in 1..MaxLog
    BY <1>1, KVAssumption DEF Start
  <2>3. currentTerm[n] \in Term
    BY DEF Start, CoreInv, OneLeader
  <2>4. Entry(Len(log[n]) + 1, currentTerm[n], Command(p)) \in EntryType
    BY <2>1, <2>2, <2>3 DEF Entry, EntryType, Alphabet
  <2> QED
    BY <2>4 DEF Start, Command
<1>4. /\ leads[n] /\ Len(log[n]) < MaxLog /\ pc[p] \in {"new", "redirected"}
      /\ UNCHANGED << currentTerm, leads, chosen, commitIndex >>
  BY DEF Start, Addressed
<1>5. /\ Len(log'[n]) = Len(log[n]) + 1
      /\ SamePrefix(log[n], log'[n], Len(log[n]))
      /\ \A q \in Node : /\ Len(log'[q]) \in Nat /\ Len(log[q]) <= Len(log'[q])
                         /\ q # n => log'[q] = log[q]
  BY <1>3, AppendedLogs
<1>6. x.index = Len(log[n]) + 1 /\ x.term = currentTerm[n] /\ x.command = Command(p)
  BY <1>3 DEF Entry
<1>7. /\ ticket'[p] = [index |-> x.index, term |-> x.term]
      /\ \A r \in Puts : r # p => ticket'[r] = ticket[r]
  BY <1>3 DEF TypeOK
<1>8. ticket[p].index = 0
  BY <1>4 DEF NoTicket
<1>9. ASSUME NEW i \in Nat, NEW t \in Nat, Owned(i, t) PROVE Owned(i, t)'
  BY <1>1, <1>4, <1>5, <1>9, OwnedKept
<1>10. Owned(x.index, x.term)'
  <2>1. x.index <= Len(log'[n])
    BY <1>1, <1>5, <1>6
  <2>2. ASSUME NEW q \in Node, leads[q], currentTerm[q] = x.term PROVE q = n
    BY <1>4, <1>6, <2>2 DEF CoreInv, OneLeader
  <2>3. x.term <= currentTerm[n]
    BY <1>1, <1>6
  <2> QED
    BY <1>4, <2>1, <2>2, <2>3 DEF Owned
<1>11. TicketsOwned'
  <2>1. ASSUME NEW r \in Puts, ticket'[r].index # 0
        PROVE  Owned(ticket[r].index, ticket[r].term)'
    <3>1. PICK i, t : i = ticket'[r].index /\ t = ticket'[r].term
      OBVIOUS
    <3>2. CASE r = p
      <4>1. i = x.index /\ t = x.term
        BY <1>7, <3>1, <3>2
      <4>2. Owned(i, t)'
        BY <1>10, <4>1
      <4> QED
        BY <3>1, <4>2
    <3>3. CASE r # p
      <4>1. i = ticket[r].index /\ t = ticket[r].term /\ i # 0
        BY <1>7, <2>1, <3>1, <3>3
      <4>2. i \in Nat /\ t \in Nat
        BY <4>1, TicketNumbers
      <4>3. Owned(i, t)
        BY <4>1 DEF CoreInv, TicketsOwned
      <4>4. Owned(i, t)'
        BY <1>9, <4>2, <4>3
      <4> QED
        BY <3>1, <4>4
    <3> QED
      BY <3>2, <3>3
  <2> QED
    BY <2>1 DEF TicketsOwned
<1>12. ~Owned(x.index, x.term)
  <2>1. ~(x.index <= Len(log[n]))
    BY <1>1, <1>6
  <2> QED
    BY <1>4, <1>6, <2>1 DEF Owned
<1>13. ASSUME NEW i \in Nat, NEW e \in EntryType, Holds(i, e)' PROVE EntryTrue(i, e)'
  <2>1. CASE Holds(i, e)
    <3>1. EntryTrue(i, e) /\ e.term \in Nat /\ i # 0
      BY <2>1, HeldIsEntry DEF CoreInv, EntriesTrue
    <3>2. e.index = i /\ Owned(i, e.term)'
      BY <1>9, <3>1 DEF EntryTrue
    <3>3. \/ e.command = << "noop" >>
          \/ \E r \in Puts : /\ ticket'[r] = [index |-> i, term |-> e.term]
                             /\ e.command = Command(r)
      <4>1. CASE e.command = << "noop" >>
        BY <4>1
      <4>2. ASSUME NEW r \in Puts, ticket[r] = [index |-> i, term |-> e.term],
                   e.command = Command(r)
            PROVE  ticket'[r] = [index |-> i, term |-> e.term]
        <5>1. r # p
          BY <1>8, <3>1, <4>2
        <5> QED
          BY <1>7, <4>2, <5>1
      <4> QED
        BY <3>1, <4>1, <4>2 DEF EntryTrue
    <3>4. ASSUME NEW r \in Puts, ticket'[r] = [index |-> i, term |-> e.term]
          PROVE  e.command = Command(r)
      <4>1. r # p
        <5>1. CASE r = p
          <6>1. x.index = i /\ x.term = e.term
            BY <1>7, <3>4, <5>1
          <6> QED
            BY <1>12, <3>1, <6>1 DEF EntryTrue
        <5> QED
          BY <5>1
      <4> QED
        BY <1>7, <3>1, <3>4, <4>1 DEF EntryTrue
    <3> QED
      BY <3>2, <3>3, <3>4 DEF EntryTrue
  <2>2. CASE i = Len(log[n]) + 1 /\ e = x
    <3>1. ASSUME NEW r \in Puts, ticket'[r] = [index |-> i, term |-> e.term] PROVE r = p
      <4> SUFFICES ASSUME r # p PROVE FALSE
        OBVIOUS
      <4>1. ticket[r].index = x.index /\ ticket[r].term = x.term /\ x.index # 0
        BY <1>1, <1>6, <1>7, <2>2, <3>1
      <4> QED
        BY <1>12, <4>1 DEF CoreInv, TicketsOwned
    <3>2. ticket'[p] = [index |-> i, term |-> e.term] /\ e.command = Command(p)
      BY <1>6, <1>7, <2>2
    <3>3. e.index = i /\ Owned(i, e.term)'
      <4>1. i = x.index /\ e = x
        BY <1>6, <2>2
      <4> QED
        BY <1>10, <4>1
    <3> QED
      BY <3>1, <3>2, <3>3 DEF EntryTrue
  <2>3. log' = [log EXCEPT ![n] = Append(@, x)] /\ chosen' = chosen
    BY <1>3, <1>4
  <2>4. Holds(i, e) \/ (i = Len(log[n]) + 1 /\ e = x)
    BY <1>13, <2>3, AppendedHolds
  <2> QED
    BY <2>1, <2>2, <2>4
<1>14. OneLeader' /\ LogsBounded'
  BY <1>1, <1>4, <1>5, KVAssumption DEF CoreInv, OneLeader, LogsBounded
<1>15. \A q \in Node, k \in Nat : SamePrefix(chosen, log[q], k) => SamePrefix(chosen, log'[q], k)
  <2> TAKE q \in Node, k \in Nat
  <2> HAVE SamePrefix(chosen, log[q], k)
  <2>1. CASE q # n
    BY <1>5, <2>1
  <2>2. CASE q = n
    <3>1. k <= Len(log[n])
      BY <2>2 DEF SamePrefix
    <3> QED
      BY <1>1, <1>5, <2>2, <3>1, SamePrefixChain
  <2> QED
    BY <2>1, <2>2
<1>16. LeaderHolds' /\ LeaderKnows' /\ NodeKnows'
  BY <1>1, <1>2, <1>4, <1>15 DEF CoreInv, LeaderHolds, LeaderKnows, NodeKnows, Newest
<1> QED
  BY <1>11, <1>13, <1>14, <1>16 DEF CoreInv, EntriesTrue

\* The servers leave the core alone.
LEMMA UnchangedCore ==
    ASSUME CoreInv, UNCHANGED << core, ticket >>
    PROVE  CoreInv'
<1>1. /\ currentTerm' = currentTerm /\ leads' = leads /\ log' = log /\ chosen' = chosen
      /\ commitIndex' = commitIndex /\ ticket' = ticket
  BY DEF core
<1>2. \A i, e : Holds(i, e)' => Holds(i, e)
  BY <1>1 DEF Holds
<1>3. \A i, e : EntryTrue(i, e) => EntryTrue(i, e)'
  BY <1>1 DEF EntryTrue, Owned
<1>4. EntriesTrue' /\ TicketsOwned'
  BY <1>1, <1>2, <1>3 DEF CoreInv, EntriesTrue, TicketsOwned, Owned
<1>5. OneLeader' /\ LogsBounded' /\ LeaderHolds' /\ LeaderKnows' /\ NodeKnows'
  BY <1>1 DEF CoreInv, OneLeader, LogsBounded, LeaderHolds, LeaderKnows, NodeKnows, Newest
<1> QED
  BY <1>4, <1>5 DEF CoreInv

-----------------------------------------------------------------------------
(* Types *)

\* The first states have their types.
LEMMA InitTypeOK == Init => TypeOK
<1> SUFFICES ASSUME Init PROVE TypeOK
  OBVIOUS
<1>1. << >> \in Seq(EntryType) /\ DOMAIN << >> = {} /\ 0 \in 0..MaxLog
  BY KVAssumption, EmptySeq
<1>2. \A n \in Node : DOMAIN store[n] = {}
  BY <1>1 DEF Init
<1>3. /\ log \in [Node -> Seq(EntryType)] /\ chosen \in Seq(EntryType)
      /\ commitCh \in [Node -> Seq(EntryType)]
  BY <1>1 DEF Init, NewLog
<1>4. ticket \in [Puts -> [index : 0..MaxLog, term : Term \cup {0}]]
  BY <1>1 DEF Init
<1>5. pending \in [Node -> [1..MaxLog -> Puts \cup {Nil}]]
  BY DEF Init
<1>6. /\ commitIndex \in [Node -> 0..MaxLog] /\ lastApplied \in [Node -> 0..MaxLog]
  BY <1>1 DEF Init
<1> QED
  BY <1>2, <1>3, <1>4, <1>5, <1>6 DEF Init, TypeOK

\* The steps of the core leave the types as they are.
LEMMA CoreKeepsTypes ==
    ASSUME KVInv, NEW n \in Node, NEW l \in Node, NEW t,
           \/ Choose(n) \/ AppendEntries(n, l) \/ LearnLeader(n, l)
           \/ t \in Term /\ Elect(n, t)
    PROVE  TypeOK'
<1> USE DEF server, hints, handler, core
<1>1. TypeOK /\ CoreInv
  BY DEF KVInv
<1>2. Len(log[n]) \in Nat /\ log[n] \in Seq(EntryType)
  BY <1>1, CoreNumbers
<1>3. CASE Choose(n)
  <2>1. PICK k \in Len(chosen) + 1 .. Len(log[n]) :
              /\ chosen' \in Seq(EntryType)
              /\ commitIndex' = [commitIndex EXCEPT ![n] = k]
    BY <1>1, <1>3, ChooseExtends
  <2>2. Len(chosen) \in Nat /\ Len(log[n]) <= MaxLog
    BY <1>1, CoreNumbers DEF CoreInv, LogsBounded
  <2>3. k \in 0..MaxLog
    BY <1>2, <2>2, KVAssumption
  <2>4. commitIndex' \in [Node -> 0..MaxLog]
    BY <1>1, <2>1, <2>3 DEF TypeOK
  <2>5. UNCHANGED << currentTerm, leads, log, server, pending, hints, handler >>
    BY <1>3 DEF Choose
  <2> QED
    BY <1>1, <2>1, <2>4, <2>5 DEF TypeOK
<1>4. CASE AppendEntries(n, l)
  <2>1. commitIndex' \in [Node -> 0..MaxLog]
    BY <1>1, <1>4 DEF AppendEntries, TypeOK
  <2>2. currentTerm' \in [Node -> Term \cup {0}] /\ leads' \in [Node -> BOOLEAN]
    BY <1>1, <1>4 DEF AppendEntries, TypeOK
  <2>3. log' \in [Node -> Seq(EntryType)]
    BY <1>1, <1>4 DEF AppendEntries, TypeOK
  <2>4. accepted' \subseteq Node \X Node
    BY <1>1, <1>4 DEF AppendEntries, TypeOK
  <2>5. UNCHANGED << chosen, server, pending, leaderID, handler >>
    BY <1>4 DEF AppendEntries
  <2> QED
    BY <1>1, <2>1, <2>2, <2>3, <2>4, <2>5 DEF TypeOK
<1>5. CASE LearnLeader(n, l)
  <2>1. leaderID' \in [Node -> Node \cup {Nil}] /\ accepted' \subseteq Node \X Node
    BY <1>1, <1>5 DEF LearnLeader, TypeOK
  <2>2. UNCHANGED << core, server, pending, handler >>
    BY <1>5 DEF LearnLeader
  <2> QED
    BY <1>1, <2>1, <2>2 DEF TypeOK
<1>6. CASE t \in Term /\ Elect(n, t)
  <2> DEFINE x == Entry(Len(log[n]) + 1, t, << "noop" >>)
  <2>1. x \in EntryType
    <3>1. << "noop" >> \in Seq(Alphabet) /\ Len(log[n]) + 1 \in 1..MaxLog
      BY <1>2, <1>6, DecodeNoop, KVAssumption DEF Elect
    <3> QED
      BY <1>6, <3>1 DEF Entry, EntryType, Alphabet
  <2>2. log' = [log EXCEPT ![n] = Append(@, x)]
    BY <1>6 DEF Elect
  <2> HIDE DEF x
  <2>3. log' \in [Node -> Seq(EntryType)]
    BY <1>1, <2>1, <2>2 DEF TypeOK
  <2>4. currentTerm' \in [Node -> Term \cup {0}] /\ leads' \in [Node -> BOOLEAN]
    BY <1>1, <1>6 DEF Elect, TypeOK
  <2>5. UNCHANGED << chosen, commitIndex, server, pending, hints, handler >>
    BY <1>6 DEF Elect
  <2> QED
    BY <1>1, <2>3, <2>4, <2>5 DEF TypeOK
<1> QED
  BY <1>3, <1>4, <1>5, <1>6

\* What the head of the channel is: the next chosen entry.
LEMMA HeadIsNext ==
    ASSUME KVInv, NEW n \in Node, commitCh[n] # << >>
    PROVE  /\ Stored(n) \in Nat /\ Stored(n) + 1 \in 1..Len(chosen)
           /\ Head(commitCh[n]) = chosen[Stored(n) + 1]
           /\ Head(commitCh[n]) \in EntryType
           /\ EntryTrue(Stored(n) + 1, Head(commitCh[n]))
<1>1. /\ lastApplied[n] \in Nat /\ commitCh[n] \in Seq(EntryType)
      /\ Len(chosen) \in Nat /\ commitIndex[n] \in Nat
  BY CoreNumbers, KVAssumption DEF KVInv, TypeOK
<1>2. Len(commitCh[n]) \in Nat \ {0} /\ Head(commitCh[n]) = commitCh[n][1]
  BY <1>1, EmptySeq
<1>3. /\ Len(commitCh[n]) <= lastApplied[n] /\ lastApplied[n] <= commitIndex[n]
      /\ commitCh[n][1] = chosen[Stored(n) + 1]
  BY <1>2 DEF KVInv, ServerInv, Channel
<1>4. commitIndex[n] <= Len(chosen)
  BY DEF KVInv, CoreInv, NodeKnows, SamePrefix
<1>5. Stored(n) \in Nat /\ Stored(n) + 1 \in 1..Len(chosen)
  BY <1>1, <1>2, <1>3, <1>4 DEF Stored
<1>6. PICK i \in 1..Len(chosen) : i = Stored(n) + 1
  BY <1>5
<1>7. chosen[i] \in EntryType /\ EntryTrue(i, chosen[i])
  BY ChosenTrue DEF KVInv
<1> QED
  BY <1>2, <1>3, <1>5, <1>6, <1>7

\* The apply loops leave the types as they are: what is stored was put.
LEMMA ApplyKeepsTypes ==
    ASSUME KVInv, NEW n \in Node, SendApplied(n) \/ ApplyStore(n) \/ ApplyWake(n)
    PROVE  TypeOK'
<1> USE DEF server, hints, handler, core
<1>1. TypeOK /\ CoreInv /\ ServerInv
  BY DEF KVInv
<1>2. CASE SendApplied(n)
  <2>1. PICK i : /\ i = lastApplied[n] + 1 /\ i <= commitIndex[n]
                 /\ lastApplied' = [lastApplied EXCEPT ![n] = i]
                 /\ commitCh' = [commitCh EXCEPT ![n] = Append(@, log[n][i])]
    BY <1>2 DEF SendApplied
  <2>2. /\ lastApplied[n] \in 0..MaxLog /\ commitIndex[n] \in 0..MaxLog
        /\ log[n] \in Seq(EntryType) /\ Len(log[n]) \in Nat
    BY <1>1, CoreNumbers DEF TypeOK
  <2>3. commitIndex[n] <= Len(log[n])
    BY <1>1 DEF CoreInv, NodeKnows, SamePrefix
  <2>4. i \in 0..MaxLog /\ i \in 1..Len(log[n])
    BY <2>1, <2>2, <2>3, KVAssumption
  <2>5. log[n][i] \in EntryType
    BY <2>2, <2>4, ElementOfSeq
  <2>6. lastApplied' \in [Node -> 0..MaxLog]
    BY <1>1, <2>1, <2>4 DEF TypeOK
  <2>7. commitCh' \in [Node -> Seq(EntryType)]
    BY <1>1, <2>1, <2>5 DEF TypeOK
  <2>8. UNCHANGED << core, applying, store, pending, hints, handler >>
    BY <1>2 DEF SendApplied
  <2> QED
    BY <1>1, <2>6, <2>7, <2>8 DEF TypeOK
<1>3. CASE ApplyStore(n)
  <2>1. PICK m \in EntryType : m = Head(commitCh[n])
    BY <1>3, HeadIsNext DEF ApplyStore
  <2>2. commitCh[n] # << >> /\ commitCh \in [Node -> Seq(EntryType)]
    BY <1>1, <1>3 DEF ApplyStore, TypeOK
  <2>3. commitCh' \in [Node -> Seq(EntryType)]
    BY <1>3, <2>2, HeadTailProperties DEF ApplyStore
  <2>4. applying' \in [Node -> EntryType \cup {Nil}]
    BY <1>1, <1>3, <2>1 DEF ApplyStore, TypeOK
  <2>5. \A q \in Node : \A k \in DOMAIN store'[q] : k \in Seq(Part) /\ store'[q][k] \in Seq(Part)
    <3>1. PICK S : store \in [Node -> S]
      BY <1>1 DEF ServerInv, StoresAreMaps
    <3>2. PICK d : d = decodeCommand(m.command)
      OBVIOUS
    <3>3. CASE d.op = "put"
      <4>1. PICK p \in Puts : m.command = Command(p)
        <5>1. m.command = << "noop" >> \/ \E p \in Puts : m.command = Command(p)
          BY <1>3, <2>1, <2>2, HeadIsNext DEF EntryTrue
        <5> QED
          BY <3>2, <3>3, <5>1, DecodeNoop
      <4>2. d.key \in Seq(Part) /\ d.value \in Seq(Part)
        BY <3>2, <4>1, DecodePut
      <4>3. store' = [store EXCEPT ![n] = StorePut(@, d.key, d.value)]
        BY <1>3, <2>1, <3>2, <3>3 DEF ApplyStore
      <4>4. store'[n] = StorePut(store[n], d.key, d.value)
            /\ \A q \in Node : q # n => store'[q] = store[q]
        BY <3>1, <4>3
      <4>5. \A k \in DOMAIN store'[n] : k \in Seq(Part) /\ store'[n][k] \in Seq(Part)
        <5>1. DOMAIN store'[n] = DOMAIN store[n] \cup {d.key}
          BY <4>4 DEF StorePut
        <5>2. \A k \in DOMAIN store[n] \cup {d.key} :
                store'[n][k] = IF k = d.key THEN d.value ELSE store[n][k]
          BY <4>4 DEF StorePut
        <5>3. \A k \in DOMAIN store[n] : k \in Seq(Part) /\ store[n][k] \in Seq(Part)
          BY <1>1 DEF TypeOK
        <5> QED
          BY <4>2, <5>1, <5>2, <5>3
      <4>6. \A q \in Node : \A k \in DOMAIN store[q] : k \in Seq(Part) /\ store[q][k] \in Seq(Part)
        BY <1>1 DEF TypeOK
      <4> QED
        BY <4>4, <4>5, <4>6
    <3>4. CASE d.op # "put"
      <4>1. store' = store
        BY <1>3, <2>1, <3>2, <3>4 DEF ApplyStore
      <4> QED
        BY <1>1, <4>1 DEF TypeOK
    <3> QED
      BY <3>3, <3>4
  <2>6. UNCHANGED << core, lastApplied, pending, hints, handler >>
    BY <1>3 DEF ApplyStore
  <2> QED
    BY <1>1, <2>3, <2>4, <2>5, <2>6 DEF TypeOK
<1>4. CASE ApplyWake(n)
  <2>1. applying[n] \in EntryType
    BY <1>1, <1>4 DEF ApplyWake, TypeOK
  <2>2. applying[n].index \in 1..MaxLog /\ applying[n].term \in Term
    BY <2>1 DEF EntryType
  <2>3. applying' \in [Node -> EntryType \cup {Nil}]
    BY <1>1, <1>4 DEF ApplyWake, TypeOK
  <2>4. pending' \in [Node -> [1..MaxLog -> Puts \cup {Nil}]]
    BY <1>1, <1>4 DEF ApplyWake, TypeOK
  <2>5. signal' \in [Puts -> Term \cup {0}]
    <3>1. \/ signal' = signal
          \/ \E p : signal' = [signal EXCEPT ![p] = applying[n].term]
      BY <1>4 DEF ApplyWake, CommittedTerm
    <3> QED
      BY <1>1, <2>2, <3>1 DEF TypeOK
  <2>6. UNCHANGED << core, lastApplied, commitCh, store, hints, pc, at, ticket >>
    BY <1>4 DEF ApplyWake
  <2> QED
    BY <1>1, <2>3, <2>4, <2>5, <2>6 DEF TypeOK
<1> QED
  BY <1>2, <1>3, <1>4

\* The handlers of Put leave the types as they are.
LEMMA HandlersKeepTypes ==
    ASSUME KVInv, NEW p \in Puts, NEW n \in Node,
           Start(p, n) \/ Refused(p, n) \/ Redirect(p, n) \/ Register(p) \/ Woken(p) \/ PutTimeout(p)
    PROVE  TypeOK'
<1> USE DEF server, hints, handler, core
<1>1. TypeOK /\ CoreInv /\ ServerInv
  BY DEF KVInv
<1>2. CASE Start(p, n)
  <2> DEFINE x == Entry(Len(log[n]) + 1, currentTerm[n], Command(p))
  <2>1. /\ log' = [log EXCEPT ![n] = Append(@, x)]
        /\ ticket' = [ticket EXCEPT ![p] = [index |-> x.index, term |-> x.term]]
    BY <1>2 DEF Start, Command
  <2>2. Len(log[n]) + 1 \in 1..MaxLog /\ currentTerm[n] \in Term /\ Command(p) \in Seq(Alphabet)
    <3>1. Len(log[n]) \in Nat /\ Len(log[n]) < MaxLog
      BY <1>1, <1>2, CoreNumbers DEF Start
    <3>2. currentTerm[n] \in Term
      BY <1>1, <1>2 DEF Start, CoreInv, OneLeader
    <3>3. Len(log[n]) + 1 \in 1..MaxLog
      BY <3>1, KVAssumption
    <3>4. Command(p) \in Seq(Alphabet)
      BY CommandIs
    <3> QED
      BY <3>2, <3>3, <3>4
  <2>3. x \in EntryType /\ x.index \in 1..MaxLog /\ x.term \in Term
    BY <2>2 DEF Entry, EntryType, Alphabet
  <2> HIDE DEF x
  <2>4. log' \in [Node -> Seq(EntryType)]
    BY <1>1, <2>1, <2>3 DEF TypeOK
  <2>5. ticket' \in [Puts -> [index : 0..MaxLog, term : Term \cup {0}]]
    BY <1>1, <2>1, <2>3 DEF TypeOK
  <2>6. /\ pc' \in [Puts -> {"new", "refused", "redirected", "started", "waiting", "ok",
                             "aborted", "timedout", "failed"}]
        /\ at' \in [Puts -> Node \cup {Nil}]
        /\ \A r \in Puts : pc'[r] \in {"new", "failed"} \/ at'[r] \in Node
    BY <1>1, <1>2 DEF Start, TypeOK
  <2>7. UNCHANGED << currentTerm, leads, chosen, commitIndex, server, pending, hints, signal >>
    BY <1>2 DEF Start
  <2> QED
    BY <1>1, <2>4, <2>5, <2>6, <2>7 DEF TypeOK
<1>3. CASE Refused(p, n) \/ Redirect(p, n)
  <2>1. leaderID[n] \in Node \cup {Nil}
    BY <1>1 DEF TypeOK
  <2>2. /\ pc' \in [Puts -> {"new", "refused", "redirected", "started", "waiting", "ok",
                             "aborted", "timedout", "failed"}]
        /\ at' \in [Puts -> Node \cup {Nil}]
        /\ \A r \in Puts : pc'[r] \in {"new", "failed"} \/ at'[r] \in Node
    <3>1. CASE Refused(p, n)
      <4>1. PICK c \in {"refused", "failed"} : pc' = [pc EXCEPT ![p] = c]
        BY <3>1 DEF Refused
      <4>2. at' = [at EXCEPT ![p] = n]
        BY <3>1 DEF Refused
      <4> QED
        BY <1>1, <4>1, <4>2 DEF TypeOK
    <3>2. CASE Redirect(p, n) /\ currentLeaderAddr(n) # Nil
      <4>1. pc' = [pc EXCEPT ![p] = "redirected"] /\ at' = [at EXCEPT ![p] = leaderID[n]]
        BY <3>2 DEF Redirect, currentLeaderAddr
      <4> QED
        BY <1>1, <2>1, <3>2, <4>1 DEF TypeOK, currentLeaderAddr
    <3>3. CASE Redirect(p, n) /\ currentLeaderAddr(n) = Nil
      <4>1. pc' = [pc EXCEPT ![p] = "failed"] /\ at' = at
        BY <3>3 DEF Redirect
      <4> QED
        BY <1>1, <4>1 DEF TypeOK
    <3> QED
      BY <1>3, <3>1, <3>2, <3>3
  <2>3. UNCHANGED << core, server, pending, hints, ticket, signal >>
    BY <1>3 DEF Refused, Redirect
  <2> QED
    BY <1>1, <2>2, <2>3 DEF TypeOK
<1>4. CASE Register(p) \/ PutTimeout(p)
  <2>1. PICK v \in Puts \cup {Nil} :
          pending' = [pending EXCEPT ![at[p]][ticket[p].index] = v]
    BY <1>4 DEF Register, PutTimeout
  <2>2. pending' \in [Node -> [1..MaxLog -> Puts \cup {Nil}]]
    BY <1>1, <2>1 DEF TypeOK
  <2>3. pc[p] \in {"started", "waiting"}
        /\ (pc' = [pc EXCEPT ![p] = "waiting"] \/ pc' = [pc EXCEPT ![p] = "timedout"])
    BY <1>4 DEF Register, PutTimeout
  <2>4. /\ pc' \in [Puts -> {"new", "refused", "redirected", "started", "waiting", "ok",
                             "aborted", "timedout", "failed"}]
        /\ \A r \in Puts : pc'[r] \in {"new", "failed"} \/ at[r] \in Node
    BY <1>1, <2>3 DEF TypeOK
  <2>5. UNCHANGED << core, server, hints, at, ticket, signal >>
    BY <1>4 DEF Register, PutTimeout
  <2> QED
    BY <1>1, <2>2, <2>4, <2>5 DEF TypeOK
<1>5. CASE Woken(p)
  <2>1. pc[p] = "waiting"
        /\ (pc' = [pc EXCEPT ![p] = "ok"] \/ pc' = [pc EXCEPT ![p] = "aborted"])
    BY <1>5 DEF Woken
  <2>2. /\ pc' \in [Puts -> {"new", "refused", "redirected", "started", "waiting", "ok",
                             "aborted", "timedout", "failed"}]
        /\ \A r \in Puts : pc'[r] \in {"new", "failed"} \/ at[r] \in Node
    BY <1>1, <2>1 DEF TypeOK
  <2>3. UNCHANGED << core, server, pending, hints, at, ticket, signal >>
    BY <1>5 DEF Woken
  <2> QED
    BY <1>1, <2>2, <2>3 DEF TypeOK
<1> QED
  BY <1>2, <1>3, <1>4, <1>5

-----------------------------------------------------------------------------
(* The steps of the servers *)

\* What the types say of the numbers of a server.
LEMMA ServerNumbers ==
    ASSUME KVInv, NEW n \in Node
    PROVE  /\ lastApplied[n] \in Nat /\ commitIndex[n] \in Nat
           /\ commitCh[n] \in Seq(EntryType) /\ Len(commitCh[n]) \in Nat
           /\ Len(chosen) \in Nat /\ Stored(n) \in Nat
           /\ Stored(n) <= lastApplied[n] /\ lastApplied[n] <= commitIndex[n]
           /\ commitIndex[n] <= Len(chosen) /\ commitIndex[n] <= Len(log[n])
<1>1. lastApplied[n] \in Nat /\ commitIndex[n] \in Nat /\ commitCh[n] \in Seq(EntryType)
  BY KVAssumption DEF KVInv, TypeOK
<1>2. Len(commitCh[n]) \in Nat
  BY <1>1, LenProperties
<1>3. Len(chosen) \in Nat
  BY CoreNumbers DEF KVInv
<1>4. Len(commitCh[n]) <= lastApplied[n] /\ lastApplied[n] <= commitIndex[n]
  BY DEF KVInv, ServerInv, Channel
<1>5. commitIndex[n] <= Len(chosen) /\ commitIndex[n] <= Len(log[n])
  BY DEF KVInv, CoreInv, NodeKnows, SamePrefix
<1>6. Stored(n) \in Nat /\ Stored(n) <= lastApplied[n]
  BY <1>1, <1>2, <1>4 DEF Stored
<1> QED
  BY <1>1, <1>2, <1>3, <1>4, <1>5, <1>6

\* When more is chosen and more of it known, the servers need not notice.
LEMMA CoreKeepsServers ==
    ASSUME KVInv, UNCHANGED << server, pending, handler >>,
           Len(chosen') \in Nat, SamePrefix(chosen, chosen', Len(chosen)),
           \A q \in Node : commitIndex'[q] \in Nat /\ commitIndex[q] <= commitIndex'[q]
    PROVE  ServerInv'
<1>1. UNCHANGED << lastApplied, commitCh, applying, store, pending, pc, at, ticket, signal >>
  BY DEF server, handler
<1>2. Len(chosen) <= Len(chosen') /\ \A i \in 1..Len(chosen) : chosen'[i] = chosen[i]
  BY DEF SamePrefix
<1>3. \A q \in Node : Stored(q)' = Stored(q)
  BY <1>1 DEF Stored
<1>4. \A p \in Puts : Registered(p)' <=> Registered(p)
  BY <1>1 DEF Registered
<1>5. Channel'
  <2> SUFFICES ASSUME NEW q \in Node
               PROVE  /\ Len(commitCh[q]) <= lastApplied[q] /\ lastApplied[q] <= commitIndex'[q]
                      /\ \A j \in 1..Len(commitCh[q]) : commitCh[q][j] = chosen'[Stored(q) + j]
    BY <1>1, <1>3 DEF Channel
  <2>1. Len(commitCh[q]) <= lastApplied[q] /\ lastApplied[q] <= commitIndex'[q]
    <3>1. commitIndex[q] <= commitIndex'[q] /\ commitIndex'[q] \in Nat
      OBVIOUS
    <3>2. lastApplied[q] \in Nat /\ commitIndex[q] \in Nat /\ lastApplied[q] <= commitIndex[q]
      BY ServerNumbers
    <3>3. Len(commitCh[q]) <= lastApplied[q]
      BY DEF KVInv, ServerInv, Channel
    <3> QED
      BY <3>1, <3>2, <3>3
  <2>2. ASSUME NEW j \in 1..Len(commitCh[q]) PROVE commitCh[q][j] = chosen'[Stored(q) + j]
    <3>1. commitCh[q][j] = chosen[Stored(q) + j]
      BY DEF KVInv, ServerInv, Channel
    <3>2. /\ lastApplied[q] \in Nat /\ commitIndex[q] \in Nat /\ Len(commitCh[q]) \in Nat
          /\ Len(chosen) \in Nat /\ Stored(q) \in Nat
          /\ lastApplied[q] <= commitIndex[q] /\ commitIndex[q] <= Len(chosen)
      BY ServerNumbers
    <3>3. Stored(q) + j \in 1..Len(chosen)
      BY <3>2 DEF Stored
    <3> QED
      BY <1>2, <3>1, <3>3
  <2> QED
    BY <2>1, <2>2
<1>6. InHand'
  <2>1. ASSUME NEW q \in Node, applying[q] # Nil
        PROVE  Stored(q) >= 1 /\ applying[q] = chosen'[Stored(q)]
    <3>1. Stored(q) >= 1 /\ applying[q] = chosen[Stored(q)]
      BY <2>1 DEF KVInv, ServerInv, InHand
    <3>2. /\ Stored(q) \in Nat /\ Len(chosen) \in Nat /\ lastApplied[q] \in Nat
          /\ commitIndex[q] \in Nat /\ Stored(q) <= lastApplied[q]
          /\ lastApplied[q] <= commitIndex[q] /\ commitIndex[q] <= Len(chosen)
      BY ServerNumbers
    <3>3. Stored(q) \in 1..Len(chosen)
      BY <3>1, <3>2
    <3> QED
      BY <1>2, <3>1, <3>3
  <2> QED
    BY <1>1, <1>3, <2>1 DEF InHand
<1>7. NoTicket' /\ Answers' /\ StoresAreMaps'
  BY <1>1, <1>4 DEF KVInv, ServerInv, NoTicket, Answers, StoresAreMaps
<1>8. PendingTrue'
  BY <1>1 DEF KVInv, ServerInv, PendingTrue, Registered
<1>9. SignalsTrue'
  <2>1. ASSUME NEW p \in Puts, signal[p] # 0
        PROVE  /\ Registered(p) /\ ticket[p].index <= Stored(at[p])
               /\ ticket[p].index \in 1..Len(chosen')
               /\ chosen'[ticket[p].index].term = signal[p]
    <3>1. /\ Registered(p) /\ ticket[p].index <= Stored(at[p])
          /\ ticket[p].index \in 1..Len(chosen)
          /\ chosen[ticket[p].index].term = signal[p]
      BY <2>1 DEF KVInv, ServerInv, SignalsTrue
    <3>2. Len(chosen) \in Nat
      BY LenProperties DEF KVInv, TypeOK
    <3>3. ticket[p].index \in 1..Len(chosen')
      BY <1>2, <3>1, <3>2
    <3> QED
      BY <1>2, <3>1, <3>3
  <2>2. \A p \in Puts : Stored(at[p])' = Stored(at[p])
    BY <1>1 DEF Stored
  <2> QED
    BY <1>1, <1>4, <2>1, <2>2 DEF SignalsTrue
<1> QED
  BY <1>5, <1>6, <1>7, <1>8, <1>9 DEF ServerInv

\* Sending an entry stores nothing.
LEMMA SendAppliedKeepsStored ==
    ASSUME KVInv, NEW n \in Node, SendApplied(n), NEW q \in Node
    PROVE  Stored(q)' = Stored(q)
<1>1. PICK i : /\ i = lastApplied[n] + 1
               /\ lastApplied' = [lastApplied EXCEPT ![n] = i]
               /\ commitCh' = [commitCh EXCEPT ![n] = Append(@, log[n][i])]
               /\ i <= commitIndex[n]
  BY DEF SendApplied
<1>2. /\ lastApplied[n] \in Nat /\ commitIndex[n] \in Nat /\ commitCh[n] \in Seq(EntryType)
      /\ Len(commitCh[n]) \in Nat /\ commitIndex[n] <= Len(log[n])
  BY ServerNumbers
<1>3. Len(log[n]) \in Nat /\ log[n] \in Seq(EntryType)
  BY CoreNumbers DEF KVInv
<1>4. i \in 1..Len(log[n])
  BY <1>1, <1>2, <1>3
<1>5. log[n][i] \in EntryType
  BY <1>3, <1>4, ElementOfSeq
<1>6. lastApplied'[n] = i /\ commitCh'[n] = Append(commitCh[n], log[n][i])
  BY <1>1 DEF KVInv, TypeOK
<1>7. Len(commitCh'[n]) = Len(commitCh[n]) + 1
  BY <1>2, <1>5, <1>6, AppendProperties
<1>8. CASE q = n
  BY <1>1, <1>2, <1>6, <1>7, <1>8 DEF Stored
<1>9. CASE q # n
  <2>1. lastApplied'[q] = lastApplied[q] /\ commitCh'[q] = commitCh[q]
    BY <1>1, <1>9 DEF KVInv, TypeOK
  <2> QED
    BY <2>1 DEF Stored
<1> QED
  BY <1>8, <1>9

\* The core's apply loop sends the next chosen entry.
LEMMA SendAppliedKeepsServers ==
    ASSUME KVInv, TypeOK', NEW n \in Node, SendApplied(n)
    PROVE  ServerInv'
<1>1. PICK i : /\ i = lastApplied[n] + 1 /\ i <= commitIndex[n]
               /\ lastApplied' = [lastApplied EXCEPT ![n] = i]
               /\ commitCh' = [commitCh EXCEPT ![n] = Append(@, log[n][i])]
  BY DEF SendApplied
<1>2. /\ lastApplied[n] \in Nat /\ commitIndex[n] \in Nat /\ commitCh[n] \in Seq(EntryType)
      /\ Len(commitCh[n]) \in Nat /\ Stored(n) \in Nat
      /\ commitIndex[n] <= Len(log[n])
  BY ServerNumbers
<1>3. Len(log[n]) \in Nat /\ log[n] \in Seq(EntryType)
  BY CoreNumbers DEF KVInv
<1>4. i \in 1..commitIndex[n] /\ i \in 1..Len(log[n])
  BY <1>1, <1>2, <1>3
<1>5. log[n][i] = chosen[i] /\ log[n][i] \in EntryType
  BY <1>3, <1>4, ElementOfSeq DEF KVInv, CoreInv, NodeKnows, SamePrefix
<1>6. lastApplied'[n] = i /\ commitCh'[n] = Append(commitCh[n], log[n][i])
  BY <1>1 DEF KVInv, TypeOK
<1>7. \A q \in Node : q # n => lastApplied'[q] = lastApplied[q] /\ commitCh'[q] = commitCh[q]
  BY <1>1 DEF KVInv, TypeOK
<1>8. /\ Len(commitCh'[n]) = Len(commitCh[n]) + 1
      /\ commitCh'[n][Len(commitCh[n]) + 1] = log[n][i]
      /\ \A j \in 1..Len(commitCh[n]) : commitCh'[n][j] = commitCh[n][j]
  BY <1>2, <1>5, <1>6, AppendProperties
<1>10. \A q \in Node : Stored(q)' = Stored(q)
  BY SendAppliedKeepsStored
<1>11. UNCHANGED << core, applying, store, pending, pc, at, ticket, signal >>
  BY DEF SendApplied, handler
<1>12. chosen' = chosen /\ commitIndex' = commitIndex
  BY <1>11 DEF core
<1>13. Channel'
  <2>1. ASSUME NEW q \in Node
        PROVE  /\ Len(commitCh'[q]) <= lastApplied'[q] /\ lastApplied'[q] <= commitIndex[q]
               /\ \A j \in 1..Len(commitCh'[q]) : commitCh'[q][j] = chosen[Stored(q) + j]
    <3>1. CASE q # n
      BY <1>7, <3>1 DEF KVInv, ServerInv, Channel
    <3>2. CASE q = n
      <4>1. Len(commitCh[n]) <= lastApplied[n]
        BY DEF KVInv, ServerInv, Channel
      <4>2. Len(commitCh'[n]) <= lastApplied'[n] /\ lastApplied'[n] <= commitIndex[n]
        BY <1>1, <1>2, <1>6, <1>8, <4>1
      <4>3. ASSUME NEW j \in 1..Len(commitCh'[n]) PROVE commitCh'[n][j] = chosen[Stored(n) + j]
        <5>1. CASE j \in 1..Len(commitCh[n])
          BY <1>8, <5>1 DEF KVInv, ServerInv, Channel
        <5>2. CASE j = Len(commitCh[n]) + 1
          <6>1. Stored(n) + j = i
            BY <1>1, <1>2, <5>2 DEF Stored
          <6> QED
            BY <1>5, <1>8, <5>2, <6>1
        <5> QED
          BY <1>2, <1>8, <5>1, <5>2
      <4> QED
        BY <3>2, <4>2, <4>3
    <3> QED
      BY <3>1, <3>2
  <2> QED
    BY <1>10, <1>12, <2>1 DEF Channel
<1>14. InHand'
  BY <1>10, <1>11, <1>12 DEF KVInv, ServerInv, InHand
<1>15. \A p \in Puts : Registered(p)' <=> Registered(p)
  BY <1>11 DEF Registered
<1>16. NoTicket' /\ Answers' /\ StoresAreMaps'
  BY <1>11, <1>15 DEF KVInv, ServerInv, NoTicket, Answers, StoresAreMaps
<1>17. PendingTrue'
  BY <1>11 DEF KVInv, ServerInv, PendingTrue, Registered
<1>18. SignalsTrue'
  <2>1. ASSUME NEW p \in Puts, signal[p] # 0 PROVE Stored(at[p])' = Stored(at[p])
    <3>1. Registered(p)
      BY <2>1 DEF KVInv, ServerInv, SignalsTrue
    <3>2. at[p] \in Node
      BY <3>1 DEF Registered, KVInv, TypeOK
    <3>3. PICK q \in Node : q = at[p]
      BY <3>2
    <3> QED
      BY <1>10, <1>11, <3>3
  <2> QED
    BY <1>11, <1>12, <1>15, <2>1 DEF KVInv, ServerInv, SignalsTrue
<1> QED
  BY <1>13, <1>14, <1>16, <1>17, <1>18 DEF ServerInv

\* Taking the head of the channel, a server stores one more chosen entry.
LEMMA ApplyStoreAdvances ==
    ASSUME KVInv, NEW n \in Node, ApplyStore(n)
    PROVE  /\ Len(commitCh[n]) \in Nat \ {0} /\ Len(commitCh'[n]) = Len(commitCh[n]) - 1
           /\ \A j \in 1..Len(commitCh'[n]) : commitCh'[n][j] = commitCh[n][j + 1]
           /\ Stored(n)' = Stored(n) + 1
           /\ \A q \in Node : q # n => commitCh'[q] = commitCh[q] /\ Stored(q)' = Stored(q)
<1>1. /\ lastApplied[n] \in Nat /\ commitCh[n] \in Seq(EntryType)
      /\ Len(commitCh[n]) \in Nat /\ Stored(n) \in Nat
  BY ServerNumbers
<1>2. commitCh[n] # << >> /\ lastApplied' = lastApplied
  BY DEF ApplyStore
<1>3. commitCh'[n] = Tail(commitCh[n]) /\ \A q \in Node : q # n => commitCh'[q] = commitCh[q]
  BY DEF ApplyStore, KVInv, TypeOK
<1>4. Len(commitCh[n]) \in Nat \ {0}
  BY <1>1, <1>2, EmptySeq
<1>5. /\ Len(Tail(commitCh[n])) = Len(commitCh[n]) - 1
      /\ \A j \in 1..Len(Tail(commitCh[n])) : Tail(commitCh[n])[j] = commitCh[n][j + 1]
  BY <1>1, <1>2, HeadTailProperties
<1>6. Stored(n)' = Stored(n) + 1
  BY <1>1, <1>2, <1>3, <1>5 DEF Stored
<1>7. ASSUME NEW q \in Node, q # n PROVE Stored(q)' = Stored(q)
  BY <1>2, <1>3, <1>7 DEF Stored
<1> QED
  BY <1>3, <1>4, <1>5, <1>6, <1>7

\* The server's apply loop stores the next chosen entry.
LEMMA ApplyStoreKeepsServers ==
    ASSUME KVInv, TypeOK', NEW n \in Node, ApplyStore(n)
    PROVE  ServerInv'
<1>1. /\ Len(commitCh[n]) \in Nat \ {0} /\ Len(commitCh'[n]) = Len(commitCh[n]) - 1
      /\ \A j \in 1..Len(commitCh'[n]) : commitCh'[n][j] = commitCh[n][j + 1]
      /\ Stored(n)' = Stored(n) + 1
      /\ \A q \in Node : q # n => commitCh'[q] = commitCh[q] /\ Stored(q)' = Stored(q)
  BY ApplyStoreAdvances
<1>2. UNCHANGED << core, lastApplied, pending, pc, at, ticket, signal >>
  BY DEF ApplyStore, handler
<1>3. chosen' = chosen /\ commitIndex' = commitIndex
  BY <1>2 DEF core
<1>4. \A q \in Node : Stored(q) \in Nat /\ lastApplied[q] \in Nat
  BY ServerNumbers
<1>5. applying' = [applying EXCEPT ![n] = Head(commitCh[n])] /\ commitCh[n] # << >>
  BY DEF ApplyStore
<1>6. Channel'
  <2>1. ASSUME NEW q \in Node
        PROVE  /\ Len(commitCh'[q]) <= lastApplied[q] /\ lastApplied[q] <= commitIndex[q]
               /\ \A j \in 1..Len(commitCh'[q]) : commitCh'[q][j] = chosen[Stored(q)' + j]
    <3>1. CASE q # n
      BY <1>1, <3>1 DEF KVInv, ServerInv, Channel
    <3>2. CASE q = n
      <4>1. Len(commitCh[n]) <= lastApplied[n] /\ lastApplied[n] <= commitIndex[n]
        BY DEF KVInv, ServerInv, Channel
      <4>2. Len(commitCh'[n]) <= lastApplied[n]
        BY <1>1, <1>4, <4>1
      <4>3. ASSUME NEW j \in 1..Len(commitCh'[n]) PROVE commitCh'[n][j] = chosen[Stored(n)' + j]
        <5>1. j + 1 \in 1..Len(commitCh[n])
          BY <1>1
        <5>2. commitCh[n][j + 1] = chosen[Stored(n) + (j + 1)]
          BY <5>1 DEF KVInv, ServerInv, Channel
        <5>3. Stored(n)' + j = Stored(n) + (j + 1)
          BY <1>1, <1>4
        <5> QED
          BY <1>1, <5>2, <5>3
      <4> QED
        BY <3>2, <4>1, <4>2, <4>3
    <3> QED
      BY <3>1, <3>2
  <2> QED
    BY <1>2, <1>3, <2>1 DEF Channel
<1>7. InHand'
  <2>1. ASSUME NEW q \in Node, applying'[q] # Nil
        PROVE  Stored(q)' >= 1 /\ applying'[q] = chosen[Stored(q)']
    <3>1. CASE q # n
      <4>1. applying'[q] = applying[q]
        BY <1>5, <3>1 DEF KVInv, TypeOK
      <4> QED
        BY <1>1, <2>1, <3>1, <4>1 DEF KVInv, ServerInv, InHand
    <3>2. CASE q = n
      <4>1. applying'[n] = Head(commitCh[n])
        BY <1>5 DEF KVInv, TypeOK
      <4>2. Head(commitCh[n]) = chosen[Stored(n) + 1]
        BY <1>5, HeadIsNext
      <4>3. Stored(n)' >= 1
        BY <1>1, <1>4
      <4> QED
        BY <1>1, <3>2, <4>1, <4>2, <4>3
    <3> QED
      BY <3>1, <3>2
  <2> QED
    BY <1>3, <2>1 DEF InHand
<1>8. \A p \in Puts : Registered(p)' <=> Registered(p)
  BY <1>2 DEF Registered
<1>9. NoTicket' /\ Answers'
  BY <1>2, <1>8 DEF KVInv, ServerInv, NoTicket, Answers
<1>10. StoresAreMaps'
  <2>1. PICK S : store \in [Node -> S]
    BY DEF KVInv, ServerInv, StoresAreMaps
  <2>2. PICK v : store' = store \/ store' = [store EXCEPT ![n] = v]
    BY DEF ApplyStore
  <2>3. store' \in [Node -> S \cup {v}]
    BY <2>1, <2>2
  <2> QED
    BY <2>3 DEF StoresAreMaps
<1>11. PendingTrue'
  BY <1>2 DEF KVInv, ServerInv, PendingTrue, Registered
<1>12. SignalsTrue'
  <2>1. ASSUME NEW p \in Puts, signal[p] # 0 PROVE ticket[p].index <= Stored(at[p])'
    <3>1. Registered(p) /\ ticket[p].index <= Stored(at[p])
      BY <2>1 DEF KVInv, ServerInv, SignalsTrue
    <3>2. at[p] \in Node
      BY <3>1 DEF Registered, KVInv, TypeOK
    <3>3. PICK q \in Node : q = at[p]
      BY <3>2
    <3>4. Stored(q) <= Stored(q)' /\ Stored(q)' \in Nat
      BY <1>1, <1>4
    <3>5. ticket[p].index \in Nat
      BY TicketNumbers DEF KVInv
    <3>6. ticket[p].index <= Stored(q)
      BY <3>1, <3>3
    <3>7. ticket[p].index <= Stored(q)'
      BY <1>4, <3>4, <3>5, <3>6
    <3> QED
      BY <1>2, <3>3, <3>7
  <2> QED
    BY <1>2, <1>3, <1>8, <2>1 DEF KVInv, ServerInv, SignalsTrue
<1> QED
  BY <1>6, <1>7, <1>9, <1>10, <1>11, <1>12 DEF ServerInv

\* The Put that is woken waits at the index of the entry just stored, and the
\* term it is woken with is that of the entry.
LEMMA ApplyWakeKeepsServers ==
    ASSUME KVInv, TypeOK', NEW n \in Node, ApplyWake(n)
    PROVE  ServerInv'
<1>1. PICK m : m = applying[n]
  OBVIOUS
<1>2. m # Nil /\ m \in EntryType /\ Stored(n) >= 1 /\ m = chosen[Stored(n)]
  BY <1>1 DEF ApplyWake, KVInv, TypeOK, ServerInv, InHand
<1>3. /\ Stored(n) \in Nat /\ Len(chosen) \in Nat /\ lastApplied[n] \in Nat
      /\ commitIndex[n] \in Nat /\ Stored(n) <= lastApplied[n]
      /\ lastApplied[n] <= commitIndex[n] /\ commitIndex[n] <= Len(chosen)
  BY ServerNumbers
<1>4. Stored(n) \in 1..Len(chosen)
  BY <1>2, <1>3
<1>5. m.index = Stored(n)
  BY <1>2, <1>4, ChosenTrue DEF KVInv, EntryTrue
<1>6. m.index \in 1..MaxLog /\ m.term \in Term
  BY <1>2 DEF EntryType
<1>7. PICK p : p = pending[n][m.index]
  OBVIOUS
<1>8. /\ applying' = [applying EXCEPT ![n] = Nil]
      /\ pending' = [pending EXCEPT ![n][m.index] = Nil]
      /\ signal' = IF p = Nil THEN signal ELSE [signal EXCEPT ![p] = m.term]
  BY <1>1, <1>7 DEF ApplyWake, CommittedTerm
<1>9. UNCHANGED << core, lastApplied, commitCh, store, pc, at, ticket >>
  BY DEF ApplyWake
<1>10. chosen' = chosen /\ commitIndex' = commitIndex
  BY <1>9 DEF core
<1>11. \A q \in Node : Stored(q)' = Stored(q)
  BY <1>9 DEF Stored
<1>12. \A r : Registered(r)' <=> Registered(r)
  BY <1>9 DEF Registered
<1>13. Channel' /\ StoresAreMaps'
  BY <1>9, <1>10, <1>11 DEF KVInv, ServerInv, Channel, StoresAreMaps
<1>14. InHand'
  <2>1. \A q \in Node : applying'[q] # Nil => applying'[q] = applying[q]
    BY <1>8 DEF KVInv, TypeOK
  <2> QED
    BY <1>10, <1>11, <2>1 DEF KVInv, ServerInv, InHand
<1>15. NoTicket'
  BY <1>9, <1>12 DEF KVInv, ServerInv, NoTicket
<1>16. PendingTrue'
  <2>1. ASSUME NEW q \in Node, NEW i \in 1..MaxLog, pending'[q][i] # Nil
        PROVE  pending'[q][i] = pending[q][i]
    <3>1. pending \in [Node -> [1..MaxLog -> Puts \cup {Nil}]]
      BY DEF KVInv, TypeOK
    <3>2. pending' = [pending EXCEPT ![n] = [pending[n] EXCEPT ![m.index] = Nil]]
      BY <1>8
    <3>3. CASE q = n
      <4>1. pending'[q] = [pending[n] EXCEPT ![m.index] = Nil]
        BY <3>1, <3>2, <3>3
      <4> QED
        BY <2>1, <3>1, <3>3, <4>1
    <3>4. CASE q # n
      BY <3>1, <3>2, <3>4
    <3> QED
      BY <3>3, <3>4
  <2> QED
    BY <1>9, <2>1 DEF KVInv, ServerInv, PendingTrue, Registered
<1>17. p # Nil => p \in Puts /\ Registered(p) /\ at[p] = n /\ ticket[p].index = m.index
  <2>1. PICK i \in 1..MaxLog : i = m.index
    BY <1>6
  <2>2. pending[n][i] \in Puts \cup {Nil}
    <3>1. pending \in [Node -> [1..MaxLog -> Puts \cup {Nil}]]
      BY DEF KVInv, TypeOK
    <3> QED
      BY <3>1
  <2>3. pending[n][i] # Nil => /\ Registered(pending[n][i]) /\ at[pending[n][i]] = n
                               /\ ticket[pending[n][i]].index = i
    BY DEF KVInv, ServerInv, PendingTrue
  <2> QED
    BY <1>7, <2>1, <2>2, <2>3
<1>18. \A r \in Puts : signal'[r] = signal[r] \/ (p # Nil /\ r = p /\ signal'[r] = m.term)
  <2>1. CASE p = Nil
    BY <1>8, <2>1
  <2>2. CASE p # Nil
    BY <1>8, <1>17, <2>2 DEF KVInv, TypeOK
  <2> QED
    BY <2>1, <2>2
<1>19. SignalsTrue'
  <2>1. ASSUME NEW r \in Puts, signal'[r] # 0
        PROVE  /\ Registered(r) /\ ticket[r].index <= Stored(at[r])
               /\ ticket[r].index \in 1..Len(chosen)
               /\ chosen[ticket[r].index].term = signal'[r]
    <3>1. CASE signal'[r] = signal[r]
      BY <2>1, <3>1 DEF KVInv, ServerInv, SignalsTrue
    <3>2. CASE p # Nil /\ r = p /\ signal'[r] = m.term
      <4>1. Registered(r) /\ at[r] = n /\ ticket[r].index = Stored(n)
        BY <1>5, <1>17, <3>2
      <4>2. Stored(at[r]) = Stored(n)
        BY <4>1
      <4>3. ticket[r].index <= Stored(at[r])
        BY <1>3, <4>1, <4>2
      <4> QED
        BY <1>2, <1>4, <3>2, <4>1, <4>3
    <3> QED
      BY <1>18, <3>1, <3>2
  <2>2. \A r \in Puts : Stored(at[r])' = Stored(at[r])
    BY <1>9 DEF Stored
  <2> QED
    BY <1>9, <1>10, <1>12, <2>1, <2>2 DEF SignalsTrue
<1>20. Answers'
  <2>1. ASSUME NEW r \in Puts, pc[r] \in {"ok", "aborted"} PROVE signal'[r] = signal[r]
    <3>1. signal[r] # 0 /\ ticket[r].index \in 1..Len(chosen)
          /\ chosen[ticket[r].index].term = signal[r]
      BY <2>1 DEF KVInv, ServerInv, Answers, SignalsTrue
    <3>2. CASE p # Nil /\ r = p /\ signal'[r] = m.term
      BY <1>2, <1>5, <1>17, <3>1, <3>2
    <3> QED
      BY <1>18, <3>2
  <2> QED
    BY <1>9, <2>1 DEF KVInv, ServerInv, Answers
<1> QED
  BY <1>13, <1>14, <1>15, <1>16, <1>19, <1>20 DEF ServerInv

\* A step that leaves the channel and the store alone leaves what is known of
\* them.
LEMMA StoresStay ==
    ASSUME KVInv, UNCHANGED << chosen, commitIndex, server >>
    PROVE  /\ Channel' /\ InHand' /\ StoresAreMaps' /\ \A x : Stored(x)' = Stored(x)
<1>1. lastApplied' = lastApplied /\ commitCh' = commitCh /\ applying' = applying /\ store' = store
  BY DEF server
<1>2. \A x : Stored(x)' = Stored(x)
  BY <1>1 DEF Stored
<1>3. Channel'
  BY <1>1, <1>2 DEF KVInv, ServerInv, Channel
<1>4. InHand' /\ StoresAreMaps'
  BY <1>1, <1>2 DEF KVInv, ServerInv, InHand, StoresAreMaps
<1> QED
  BY <1>2, <1>3, <1>4

\* A Put that has not registered yet may move as it likes: nobody waits for it
\* and nobody has signalled it.
LEMMA UnregisteredMoves ==
    ASSUME KVInv, NEW p \in Puts, ~Registered(p), ~Registered(p)',
           UNCHANGED << chosen, commitIndex, server, pending, signal >>,
           \A r \in Puts \ {p} : pc'[r] = pc[r] /\ at'[r] = at[r] /\ ticket'[r] = ticket[r],
           pc'[p] = "started" => ticket'[p].index # 0,
           pc'[p] # "started" => ticket'[p].index = 0
    PROVE  ServerInv'
<1>1. Channel' /\ InHand' /\ StoresAreMaps' /\ \A x : Stored(x)' = Stored(x)
  BY StoresStay
<1>2. \A r \in Puts \ {p} : Registered(r)' <=> Registered(r)
  BY DEF Registered
<1>3. pending' = pending /\ signal' = signal /\ chosen' = chosen
  OBVIOUS
<1>4. NoTicket'
  <2> SUFFICES ASSUME NEW r \in Puts
               PROVE  /\ pc'[r] \in {"new", "refused", "redirected", "failed"} => ticket'[r].index = 0
                      /\ pc'[r] = "started" \/ Registered(r)' => ticket'[r].index # 0
    BY DEF NoTicket
  <2>1. CASE r = p
    BY <2>1
  <2>2. CASE r # p
    BY <1>2, <2>2 DEF KVInv, ServerInv, NoTicket
  <2> QED
    BY <2>1, <2>2
<1>5. PendingTrue'
  <2> SUFFICES ASSUME NEW n \in Node, NEW i \in 1..MaxLog, NEW r, r = pending[n][i], r # Nil
               PROVE  Registered(r)' /\ at'[r] = n /\ ticket'[r].index = i
    BY <1>3 DEF PendingTrue, Registered
  <2>1. pending \in [Node -> [1..MaxLog -> Puts \cup {Nil}]]
    BY DEF KVInv, TypeOK
  <2>2. r \in Puts
    BY <2>1
  <2>3. Registered(r) /\ at[r] = n /\ ticket[r].index = i
    BY DEF KVInv, ServerInv, PendingTrue
  <2>4. r # p
    BY <2>3
  <2> QED
    BY <1>2, <2>2, <2>3, <2>4
<1>6. SignalsTrue'
  <2> SUFFICES ASSUME NEW r \in Puts, signal[r] # 0
               PROVE  /\ Registered(r)' /\ ticket'[r].index <= Stored(at[r])'
                      /\ ticket'[r].index \in 1..Len(chosen)
                      /\ chosen[ticket'[r].index].term = signal[r]
    BY <1>3 DEF SignalsTrue
  <2>1. /\ Registered(r) /\ ticket[r].index <= Stored(at[r])
        /\ ticket[r].index \in 1..Len(chosen)
        /\ chosen[ticket[r].index].term = signal[r]
    BY DEF KVInv, ServerInv, SignalsTrue
  <2>2. r # p
    BY <2>1
  <2>3. pc'[r] = pc[r] /\ at'[r] = at[r] /\ ticket'[r] = ticket[r]
    BY <2>2
  <2>4. Stored(at[r])' = Stored(at[r])
    BY <2>3 DEF Stored, server
  <2> QED
    BY <1>2, <2>1, <2>2, <2>3, <2>4
<1>7. Answers'
  <2> SUFFICES ASSUME NEW r \in Puts
               PROVE  /\ pc'[r] = "ok" => signal[r] # 0 /\ signal[r] = ticket'[r].term
                      /\ pc'[r] = "aborted" => signal[r] # 0 /\ signal[r] # ticket'[r].term
    BY <1>3 DEF Answers
  <2>1. CASE r = p
    BY <2>1 DEF Registered
  <2>2. CASE r # p
    BY <2>2 DEF KVInv, ServerInv, Answers
  <2> QED
    BY <2>1, <2>2
<1> QED
  BY <1>1, <1>4, <1>5, <1>6, <1>7 DEF ServerInv

\* Start gives a Put its ticket; a redirect leaves it without one.
LEMMA StartKeepsServers ==
    ASSUME KVInv, TypeOK', NEW p \in Puts, NEW n \in Node,
           Start(p, n) \/ Refused(p, n) \/ Redirect(p, n)
    PROVE  ServerInv'
<1>1. pc[p] \in {"new", "refused", "redirected"}
  BY DEF Start, Refused, Redirect, Addressed
<1>2. /\ pc \in [Puts -> {"new", "refused", "redirected", "started", "waiting", "ok",
                          "aborted", "timedout", "failed"}]
      /\ at \in [Puts -> Node \cup {Nil}]
      /\ ticket \in [Puts -> [index : 0..MaxLog, term : Term \cup {0}]]
  BY DEF KVInv, TypeOK
<1>3. ~Registered(p) /\ ticket[p].index = 0
  BY <1>1 DEF Registered, KVInv, ServerInv, NoTicket
<1>4. UNCHANGED << chosen, commitIndex, server, pending, signal >>
  BY DEF Start, Refused, Redirect, core
<1>5. CASE Start(p, n)
  <2>1. /\ pc' = [pc EXCEPT ![p] = "started"] /\ at' = [at EXCEPT ![p] = n]
        /\ ticket' = [ticket EXCEPT ![p] = [index |-> Len(log[n]) + 1, term |-> currentTerm[n]]]
    BY <1>5 DEF Start, Entry
  <2>2. Len(log[n]) \in Nat
    BY CoreNumbers DEF KVInv
  <2>3. pc'[p] = "started" /\ ticket'[p].index # 0
    BY <1>2, <2>1, <2>2
  <2>4. \A r \in Puts \ {p} : pc'[r] = pc[r] /\ at'[r] = at[r] /\ ticket'[r] = ticket[r]
    BY <1>2, <2>1
  <2>5. ~Registered(p)'
    BY <2>3 DEF Registered
  <2> QED
    BY <1>3, <1>4, <2>3, <2>4, <2>5, UnregisteredMoves
<1>6. CASE Refused(p, n) \/ Redirect(p, n)
  <2>1. PICK c \in {"refused", "redirected", "failed"} : pc' = [pc EXCEPT ![p] = c]
    BY <1>6 DEF Refused, Redirect
  <2>2. PICK a : at' = [at EXCEPT ![p] = a]
    BY <1>2, <1>6 DEF Refused, Redirect
  <2>3. ticket' = ticket
    BY <1>6 DEF Refused, Redirect
  <2>4. pc'[p] # "started" /\ ~Registered(p)'
    BY <1>2, <2>1 DEF Registered
  <2>5. \A r \in Puts \ {p} : pc'[r] = pc[r] /\ at'[r] = at[r] /\ ticket'[r] = ticket[r]
    BY <1>2, <2>1, <2>2, <2>3
  <2> QED
    BY <1>3, <1>4, <2>3, <2>4, <2>5, UnregisteredMoves
<1> QED
  BY <1>5, <1>6

\* A handler registers under its own index, is woken with the term of the
\* entry chosen there, and leaves nothing of its own behind when it gives up.
LEMMA WaitKeepsServers ==
    ASSUME KVInv, TypeOK', NEW p \in Puts, Register(p) \/ Woken(p) \/ PutTimeout(p)
    PROVE  ServerInv'
<1>1. PICK c \in {"waiting", "ok", "aborted", "timedout"} : pc' = [pc EXCEPT ![p] = c]
  BY DEF Register, Woken, PutTimeout
<1>2. /\ pc \in [Puts -> {"new", "refused", "redirected", "started", "waiting", "ok",
                          "aborted", "timedout", "failed"}]
      /\ pending \in [Node -> [1..MaxLog -> Puts \cup {Nil}]]
  BY DEF KVInv, TypeOK
<1>3. pc[p] \in {"started", "waiting"} /\ ticket[p].index # 0
  BY DEF Register, Woken, PutTimeout, KVInv, ServerInv, NoTicket, Registered
<1>4. UNCHANGED << chosen, commitIndex, server >> /\ at' = at /\ ticket' = ticket
      /\ signal' = signal
  BY DEF Register, Woken, PutTimeout, core
<1>5. Channel' /\ InHand' /\ StoresAreMaps' /\ \A x : Stored(x)' = Stored(x)
  BY <1>4, StoresStay
<1>6. pc'[p] = c /\ \A r \in Puts \ {p} : pc'[r] = pc[r]
  BY <1>1, <1>2
<1>7. Registered(p)' /\ \A r \in Puts : Registered(r) => Registered(r)'
  BY <1>6 DEF Registered
<1>8. NoTicket'
  <2> SUFFICES ASSUME NEW r \in Puts
               PROVE  /\ pc'[r] \in {"new", "refused", "redirected", "failed"} => ticket[r].index = 0
                      /\ pc'[r] = "started" \/ Registered(r)' => ticket[r].index # 0
    BY <1>4 DEF NoTicket
  <2>1. CASE r = p
    BY <1>3, <1>6, <2>1
  <2>2. CASE r # p
    BY <1>6, <2>2 DEF KVInv, ServerInv, NoTicket, Registered
  <2> QED
    BY <2>1, <2>2
<1>9. PendingTrue'
  <2> SUFFICES ASSUME NEW n \in Node, NEW i \in 1..MaxLog, NEW r, r = pending'[n][i], r # Nil
               PROVE  Registered(r)' /\ at[r] = n /\ ticket[r].index = i
    BY <1>4 DEF PendingTrue, Registered
  <2>1. r = pending[n][i] \/ (r = p /\ at[p] = n /\ ticket[p].index = i)
    <3>1. PICK v \in {p, Nil} : \/ pending' = pending
                                \/ pending' = [pending EXCEPT ![at[p]][ticket[p].index] = v]
      BY DEF Register, Woken, PutTimeout
    <3>2. CASE pending' = pending
      BY <3>2
    <3>3. CASE pending' = [pending EXCEPT ![at[p]] = [pending[at[p]] EXCEPT ![ticket[p].index] = v]]
      <4>1. CASE n # at[p]
        BY <1>2, <3>3, <4>1
      <4>2. CASE n = at[p]
        <5>1. pending'[n] = [pending[n] EXCEPT ![ticket[p].index] = v]
          BY <1>2, <3>3, <4>2
        <5>2. CASE i # ticket[p].index
          BY <1>2, <5>1, <5>2
        <5>3. CASE i = ticket[p].index
          <6>1. pending'[n][i] = v
            BY <1>2, <5>1, <5>3
          <6> QED
            BY <4>2, <5>3, <6>1
        <5> QED
          BY <5>2, <5>3
      <4> QED
        BY <4>1, <4>2
    <3> QED
      BY <3>1, <3>2, <3>3
  <2>2. CASE r = pending[n][i]
    <3>1. r \in Puts
      BY <1>2, <2>2
    <3>2. Registered(r) /\ at[r] = n /\ ticket[r].index = i
      BY <2>2 DEF KVInv, ServerInv, PendingTrue
    <3> QED
      BY <1>7, <3>1, <3>2
  <2>3. CASE r = p /\ at[p] = n /\ ticket[p].index = i
    BY <1>7, <2>3
  <2> QED
    BY <2>1, <2>2, <2>3
<1>10. SignalsTrue'
  <2>1. \A r : Stored(at[r])' = Stored(at[r])
    BY <1>4 DEF Stored, server
  <2> QED
    BY <1>4, <1>7, <2>1 DEF KVInv, ServerInv, SignalsTrue
<1>11. Answers'
  <2> SUFFICES ASSUME NEW r \in Puts
               PROVE  /\ pc'[r] = "ok" => signal[r] # 0 /\ signal[r] = ticket[r].term
                      /\ pc'[r] = "aborted" => signal[r] # 0 /\ signal[r] # ticket[r].term
    BY <1>4 DEF Answers
  <2>1. CASE r # p
    BY <1>6, <2>1 DEF KVInv, ServerInv, Answers
  <2>2. CASE r = p /\ Woken(p)
    <3>1. /\ signal[p] # 0
          /\ pc' = [pc EXCEPT ![p] = IF signal[p] = ticket[p].term THEN "ok" ELSE "aborted"]
      BY <2>2 DEF Woken
    <3>2. pc'[p] = IF signal[p] = ticket[p].term THEN "ok" ELSE "aborted"
      BY <1>2, <3>1
    <3> QED
      BY <2>2, <3>1, <3>2
  <2>3. CASE r = p /\ ~Woken(p)
    <3>1. pc'[p] \in {"waiting", "timedout"}
      BY <1>2, <2>3 DEF Register, PutTimeout
    <3> QED
      BY <2>3, <3>1
  <2> QED
    BY <2>1, <2>2, <2>3
<1> QED
  BY <1>5, <1>8, <1>9, <1>10, <1>11 DEF ServerInv

-----------------------------------------------------------------------------
(* The invariant *)

\* Nothing is held, sent, stored or asked for at first.
LEMMA InitKVInv == Init => KVInv
<1> SUFFICES ASSUME Init PROVE KVInv
  OBVIOUS
<1>1. TypeOK
  BY InitTypeOK
<1>2. Len(chosen) = 0 /\ \A n \in Node : Len(log[n]) = 0
  BY DEF Init, NewLog
<1>3. \A i, e : ~Holds(i, e)
  BY <1>2 DEF Holds
<1>4. /\ \A n \in Node : commitIndex[n] = 0 /\ lastApplied[n] = 0 /\ commitCh[n] = << >>
      /\ \A n \in Node : applying[n] = Nil /\ leads[n] = FALSE
      /\ \A n \in Node, i \in 1..MaxLog : pending[n][i] = Nil
  BY DEF Init
<1>5. \A p \in Puts : pc[p] = "new" /\ ticket[p].index = 0 /\ signal[p] = 0
  BY DEF Init
<1>6. EntriesTrue /\ TicketsOwned /\ OneLeader
  BY <1>3, <1>4, <1>5 DEF EntriesTrue, TicketsOwned, OneLeader
<1>7. LogsBounded /\ LeaderHolds /\ LeaderKnows /\ NodeKnows
  BY <1>2, <1>4, KVAssumption
  DEF LogsBounded, LeaderHolds, LeaderKnows, NodeKnows, SamePrefix
<1>8. Channel /\ InHand
  BY <1>2, <1>4 DEF Channel, InHand
<1>9. NoTicket /\ PendingTrue /\ SignalsTrue /\ Answers
  BY <1>4, <1>5 DEF NoTicket, PendingTrue, SignalsTrue, Answers, Registered
<1>10. StoresAreMaps
  <2>1. store \in [Node -> {<< >>}]
    BY DEF Init
  <2> QED
    BY <2>1 DEF StoresAreMaps
<1> QED
  BY <1>1, <1>6, <1>7, <1>8, <1>9, <1>10 DEF KVInv, CoreInv, ServerInv

\* More is chosen or as much, and no node knows less of it.
ChosenGrows ==
    /\ Len(chosen') \in Nat /\ SamePrefix(chosen, chosen', Len(chosen))
    /\ \A q \in Node : commitIndex'[q] \in Nat /\ commitIndex[q] <= commitIndex'[q]

\* No step of the core takes back what is chosen or known to be.
LEMMA CoreGrows ==
    ASSUME KVInv, NEW n \in Node, NEW l \in Node, NEW t,
           \/ Choose(n) \/ AppendEntries(n, l) \/ LearnLeader(n, l)
           \/ t \in Term /\ Elect(n, t)
    PROVE  TypeOK' /\ CoreInv' /\ ChosenGrows
<1>1. TypeOK /\ CoreInv /\ TypeOK'
  BY CoreKeepsTypes DEF KVInv
<1>2. /\ Len(chosen) \in Nat /\ \A q \in Node : commitIndex[q] \in Nat
  BY <1>1, CoreNumbers
<1>3. \A q \in Node : commitIndex'[q] \in Nat
  BY <1>1 DEF TypeOK
<1>4. ASSUME chosen' = chosen PROVE Len(chosen') \in Nat /\ SamePrefix(chosen, chosen', Len(chosen))
  BY <1>2, <1>4 DEF SamePrefix
<1>5. CASE Choose(n)
  <2>1. PICK k \in Len(chosen) + 1 .. Len(log[n]) :
              /\ Len(chosen') = k /\ SamePrefix(chosen, chosen', Len(chosen))
              /\ commitIndex' = [commitIndex EXCEPT ![n] = k]
    BY <1>1, <1>5, ChooseExtends
  <2>2. commitIndex[n] <= Len(chosen) /\ Len(log[n]) \in Nat
    BY <1>1, CoreNumbers DEF CoreInv, NodeKnows, SamePrefix
  <2>3. k \in Nat /\ commitIndex[n] <= k
    BY <1>2, <2>2
  <2>4. \A q \in Node : commitIndex[q] <= commitIndex'[q]
    <3>1. commitIndex'[n] = k /\ \A q \in Node : q # n => commitIndex'[q] = commitIndex[q]
      BY <1>1, <2>1 DEF TypeOK
    <3> QED
      BY <1>2, <2>3, <3>1
  <2>5. CoreInv'
    BY <1>1, <1>5, ChooseKeepsCore
  <2> QED
    BY <1>1, <1>3, <2>1, <2>3, <2>4, <2>5 DEF ChosenGrows
<1>6. CASE AppendEntries(n, l)
  <2>1. CoreInv' /\ \A q \in Node : commitIndex[q] <= commitIndex'[q]
    BY <1>1, <1>6, AppendEntriesKeepsCore
  <2>2. chosen' = chosen
    BY <1>6 DEF AppendEntries
  <2> QED
    BY <1>1, <1>3, <1>4, <2>1, <2>2 DEF ChosenGrows
<1>7. CASE LearnLeader(n, l)
  <2>1. UNCHANGED << core, ticket >>
    BY <1>7 DEF LearnLeader, handler
  <2>2. CoreInv' /\ chosen' = chosen /\ commitIndex' = commitIndex
    BY <1>1, <2>1, UnchangedCore DEF core
  <2> QED
    BY <1>1, <1>2, <1>4, <2>2 DEF ChosenGrows
<1>8. CASE t \in Term /\ Elect(n, t)
  <2>1. CoreInv'
    BY <1>1, <1>8, ElectKeepsCore
  <2>2. chosen' = chosen /\ commitIndex' = commitIndex
    BY <1>8 DEF Elect
  <2> QED
    BY <1>1, <1>2, <1>4, <2>1, <2>2 DEF ChosenGrows
<1> QED
  BY <1>5, <1>6, <1>7, <1>8

\* One case per action: the core's, the apply loops', the handlers'.
LEMMA NextKVInv == KVInv /\ [Next]_vars => KVInv'
<1> SUFFICES ASSUME KVInv, [Next]_vars PROVE KVInv'
  OBVIOUS
<1>1. ASSUME NEW n \in Node, NEW l \in Node, NEW t,
             \/ Choose(n) \/ AppendEntries(n, l) \/ LearnLeader(n, l)
             \/ t \in Term /\ Elect(n, t)
      PROVE  KVInv'
  <2>1. TypeOK' /\ CoreInv' /\ ChosenGrows
    BY <1>1, CoreGrows
  <2>2. UNCHANGED << server, pending, handler >>
    BY <1>1 DEF Choose, AppendEntries, LearnLeader, Elect
  <2>3. ServerInv'
    BY <2>1, <2>2, CoreKeepsServers DEF ChosenGrows
  <2> QED
    BY <2>1, <2>3 DEF KVInv
<1>2. ASSUME NEW n \in Node, SendApplied(n) \/ ApplyStore(n) \/ ApplyWake(n)
      PROVE  KVInv'
  <2>1. TypeOK'
    BY <1>2, ApplyKeepsTypes
  <2>2. UNCHANGED << core, ticket >>
    BY <1>2 DEF SendApplied, ApplyStore, ApplyWake, handler
  <2>3. CoreInv'
    BY <2>2, UnchangedCore DEF KVInv
  <2>4. ServerInv'
    BY <1>2, <2>1, SendAppliedKeepsServers, ApplyStoreKeepsServers, ApplyWakeKeepsServers
  <2> QED
    BY <2>1, <2>3, <2>4 DEF KVInv
<1>3. ASSUME NEW p \in Puts, NEW n \in Node,
           Start(p, n) \/ Refused(p, n) \/ Redirect(p, n)
      PROVE  KVInv'
  <2>1. TypeOK'
    BY <1>3, HandlersKeepTypes
  <2>2. ServerInv'
    BY <1>3, <2>1, StartKeepsServers
  <2>3. CASE Start(p, n)
    <3>1. CoreInv'
      BY <2>1, <2>3, StartKeepsCore DEF KVInv, ServerInv
    <3> QED
      BY <2>1, <2>2, <3>1 DEF KVInv
  <2>4. CASE Refused(p, n) \/ Redirect(p, n)
    <3>1. UNCHANGED << core, ticket >>
      BY <2>4 DEF Refused, Redirect
    <3>2. CoreInv'
      BY <3>1, UnchangedCore DEF KVInv
    <3> QED
      BY <2>1, <2>2, <3>2 DEF KVInv
  <2> QED
    BY <1>3, <2>3, <2>4
<1>4. ASSUME NEW p \in Puts, Register(p) \/ Woken(p) \/ PutTimeout(p)
      PROVE  KVInv'
  <2>1. TypeOK'
    <3>1. PICK n \in Node : TRUE
      BY RequestParts
    <3> QED
      BY <1>4, HandlersKeepTypes
  <2>2. ServerInv'
    BY <1>4, <2>1, WaitKeepsServers
  <2>3. UNCHANGED << core, ticket >>
    BY <1>4 DEF Register, Woken, PutTimeout
  <2>4. CoreInv'
    BY <2>3, UnchangedCore DEF KVInv
  <2> QED
    BY <2>1, <2>2, <2>4 DEF KVInv
<1>5. CASE UNCHANGED vars
  <2>1. UNCHANGED << core, ticket >> /\ UNCHANGED << server, pending, hints, handler >>
    BY <1>5 DEF vars, handler
  <2>2. TypeOK'
    BY <2>1 DEF KVInv, TypeOK, core, server, hints, handler
  <2>3. CoreInv'
    BY <2>1, UnchangedCore DEF KVInv
  <2>4. chosen' = chosen /\ commitIndex' = commitIndex
    BY <2>1 DEF core
  <2>5. Len(chosen) \in Nat /\ \A q \in Node : commitIndex[q] \in Nat
    BY CoreNumbers DEF KVInv
  <2>6. ChosenGrows
    BY <2>4, <2>5 DEF ChosenGrows, SamePrefix
  <2>7. ServerInv'
    BY <2>1, <2>6, CoreKeepsServers DEF ChosenGrows
  <2> QED
    BY <2>2, <2>3, <2>7 DEF KVInv
<1>6. CASE Next
  <2>1. ASSUME NEW n \in Node, NEW t \in Term, Elect(n, t) PROVE KVInv'
    BY <1>1, <2>1
  <2>2. ASSUME NEW n \in Node, Choose(n) PROVE KVInv'
    BY <1>1, <2>2
  <2>3. ASSUME NEW n \in Node, NEW l \in Node, AppendEntries(n, l) \/ LearnLeader(n, l)
        PROVE  KVInv'
    BY <1>1, <2>3
  <2> QED
    BY <1>2, <1>3, <1>4, <1>6, <2>1, <2>2, <2>3 DEF Next
<1> QED
  BY <1>5, <1>6

\* The invariant of the servers holds in every state.
LEMMA KVInvariant == Spec => []KVInv
<1> QED
  BY InitKVInv, NextKVInv, PTL DEF Spec

(***************************************************************************)
(* Every field of the servers and of the Put handlers has its type, and a  *)
(* request under way is at some server: so no handler registers at an      *)
(* index no log can have, and no store holds a key or a value with a part  *)
(* that no client sent.                                                    *)
(***************************************************************************)
THEOREM TypeCorrect == Spec => []TypeOK
<1>1. KVInv => TypeOK
  BY DEF KVInv
<1> QED
  BY <1>1, KVInvariant, PTL

(***************************************************************************)
(* The answer of a Put is the truth: OK means that its entry is committed, *)
(* "leadership changed" that another entry is committed in its place.  The *)
(* handler may register late, time out, be overwritten by another handler  *)
(* at its index, and see any number of leaders come and go.                *)
(***************************************************************************)
THEOREM AnswersAreTrue == Spec => []AnswerTrue
<1>1. KVInv => AnswerTrue
  <2> SUFFICES ASSUME KVInv, NEW p \in Puts
               PROVE  (pc[p] = "ok" => Kept(p)) /\ (pc[p] = "aborted" => Lost(p))
    BY DEF AnswerTrue
  <2>1. /\ pc[p] = "ok" => signal[p] # 0 /\ signal[p] = ticket[p].term
        /\ pc[p] = "aborted" => signal[p] # 0 /\ signal[p] # ticket[p].term
    BY DEF KVInv, ServerInv, Answers
  <2>2. signal[p] # 0 => /\ ticket[p].index \in 1..Len(chosen)
                         /\ chosen[ticket[p].index].term = signal[p]
    BY DEF KVInv, ServerInv, SignalsTrue
  <2> QED
    BY <2>1, <2>2 DEF Kept, Lost
<1> QED
  BY <1>1, KVInvariant, PTL

-----------------------------------------------------------------------------
(***************************************************************************)
(* The stores.  InStore(p, n): the entry of p is among the chosen entries  *)
(* that n has stored.                                                      *)
(***************************************************************************)
InStore(p, n) == Kept(p) /\ ticket[p].index <= Stored(n)

Replays(n) ==
    LET keys == {k \in {Request[p].key : p \in Puts} : Writes(k, Stored(n)) # {}} IN
    /\ DOMAIN store[n] = keys
    /\ \A k \in keys : \E p \in Writes(k, Stored(n)) :
          /\ store[n][k] = Request[p].value
          /\ \A q \in Writes(k, Stored(n)) : ticket[q].index <= ticket[p].index

\* The same, in terms of the Puts that are in the store.
LEMMA ReplaysIs ==
    ASSUME NEW n \in Node
    PROVE  Replays(n) <=>
             /\ \A k : k \in DOMAIN store[n]
                         <=> \E p \in Puts : Request[p].key = k /\ InStore(p, n)
             /\ \A k \in DOMAIN store[n] : \E p \in Puts :
                   /\ Request[p].key = k /\ InStore(p, n) /\ store[n][k] = Request[p].value
                   /\ \A q \in Puts : Request[q].key = k /\ InStore(q, n)
                                        => ticket[q].index <= ticket[p].index
<1> DEFINE keys == {k \in {Request[p].key : p \in Puts} : Writes(k, Stored(n)) # {}}
<1>1. \A k, p : p \in Writes(k, Stored(n)) <=> p \in Puts /\ Request[p].key = k /\ InStore(p, n)
  BY DEF Writes, InStore
<1>2. \A k : k \in keys <=> \E p \in Puts : Request[p].key = k /\ InStore(p, n)
  BY <1>1
<1>3. Replays(n) <=> /\ DOMAIN store[n] = keys
                     /\ \A k \in keys : \E p \in Writes(k, Stored(n)) :
                           /\ store[n][k] = Request[p].value
                           /\ \A q \in Writes(k, Stored(n)) : ticket[q].index <= ticket[p].index
  BY DEF Replays
<1> HIDE DEF keys
<1>4. DOMAIN store[n] = keys <=> \A k : k \in DOMAIN store[n]
                         <=> \E p \in Puts : Request[p].key = k /\ InStore(p, n)
  BY <1>2
<1> QED
  BY <1>1, <1>3, <1>4

\* A store that is left alone, with the same Puts in it, still replays.
LEMMA ReplaysStays ==
    ASSUME NEW n \in Node, Replays(n), store'[n] = store[n],
           \A p \in Puts : InStore(p, n)' <=> InStore(p, n),
           \A p \in Puts : InStore(p, n) => ticket'[p] = ticket[p]
    PROVE  Replays(n)'
<1>1. /\ \A k : k \in DOMAIN store[n]
                  <=> \E p \in Puts : Request[p].key = k /\ InStore(p, n)
      /\ \A k \in DOMAIN store[n] : \E p \in Puts :
            /\ Request[p].key = k /\ InStore(p, n) /\ store[n][k] = Request[p].value
            /\ \A q \in Puts : Request[q].key = k /\ InStore(q, n)
                                 => ticket[q].index <= ticket[p].index
  BY ReplaysIs
<1>2. /\ \A k : k \in DOMAIN store'[n]
                  <=> \E p \in Puts : Request[p].key = k /\ InStore(p, n)'
      /\ \A k \in DOMAIN store'[n] : \E p \in Puts :
            /\ Request[p].key = k /\ InStore(p, n)' /\ store'[n][k] = Request[p].value
            /\ \A q \in Puts : Request[q].key = k /\ InStore(q, n)'
                                 => ticket'[q].index <= ticket'[p].index
  BY <1>1
<1>3. (Replays(n) <=>
             /\ \A k : k \in DOMAIN store[n]
                         <=> \E p \in Puts : Request[p].key = k /\ InStore(p, n)
             /\ \A k \in DOMAIN store[n] : \E p \in Puts :
                   /\ Request[p].key = k /\ InStore(p, n) /\ store[n][k] = Request[p].value
                   /\ \A q \in Puts : Request[q].key = k /\ InStore(q, n)
                                        => ticket[q].index <= ticket[p].index)'
  BY ReplaysIs, PTL
<1> QED
  BY <1>2, <1>3

\* When more is chosen, no Put enters or leaves a store.
LEMMA GrowingKeepsStores ==
    ASSUME KVInv, NEW n \in Node, ChosenGrows, ticket' = ticket, Stored(n)' = Stored(n),
           NEW p \in Puts
    PROVE  InStore(p, n)' <=> InStore(p, n)
<1>1. /\ Stored(n) \in Nat /\ Len(chosen) \in Nat /\ lastApplied[n] \in Nat
      /\ commitIndex[n] \in Nat /\ Stored(n) <= lastApplied[n]
      /\ lastApplied[n] <= commitIndex[n] /\ commitIndex[n] <= Len(chosen)
  BY ServerNumbers
<1>2. Stored(n) <= Len(chosen)
  BY <1>1
<1>3. Len(chosen') \in Nat /\ Len(chosen) <= Len(chosen')
      /\ \A i \in 1..Len(chosen) : chosen'[i] = chosen[i]
  BY DEF ChosenGrows, SamePrefix
<1>4. PICK i \in Nat : i = ticket[p].index
  BY TicketNumbers DEF KVInv
<1>5. i <= Stored(n) => (i \in 1..Len(chosen') <=> i \in 1..Len(chosen))
  BY <1>1, <1>2, <1>3
<1>6. InStore(p, n) <=> /\ i \in 1..Len(chosen) /\ chosen[i].term = ticket[p].term
                        /\ i <= Stored(n)
  BY <1>4 DEF InStore, Kept
<1>7. InStore(p, n)' <=> /\ i \in 1..Len(chosen') /\ chosen'[i].term = ticket[p].term
                         /\ i <= Stored(n)
  BY <1>4 DEF InStore, Kept
<1> QED
  BY <1>3, <1>5, <1>6, <1>7

\* The ticket of a new entry is not that of a chosen one: its leader owns the
\* chosen entries of its term, and they are within its log.
LEMMA StartKeepsStores ==
    ASSUME KVInv, NEW p \in Puts, NEW n \in Node, Start(p, n), NEW q \in Node, NEW r \in Puts
    PROVE  /\ InStore(r, q)' <=> InStore(r, q)
           /\ InStore(r, q) => ticket'[r] = ticket[r]
<1>1. /\ ticket \in [Puts -> [index : 0..MaxLog, term : Term \cup {0}]]
      /\ ticket' = [ticket EXCEPT ![p] = [index |-> Len(log[n]) + 1, term |-> currentTerm[n]]]
  BY DEF KVInv, TypeOK, Start, Entry
<1>2. chosen' = chosen /\ Stored(q)' = Stored(q) /\ leads[n]
  BY DEF Start, server, Stored
<1>3. CASE r # p
  <2>1. ticket'[r] = ticket[r]
    BY <1>1, <1>3
  <2> QED
    BY <1>2, <2>1 DEF InStore, Kept
<1>4. CASE r = p
  <2>1. pc[p] \in {"new", "redirected"}
    BY DEF Start, Addressed
  <2>2. ticket[p].index = 0
    BY <2>1 DEF KVInv, ServerInv, NoTicket
  <2>3. Len(chosen) \in Nat /\ Len(log[n]) \in Nat
    BY CoreNumbers DEF KVInv
  <2>4. ~InStore(p, q)
    BY <2>2, <2>3 DEF InStore, Kept
  <2>5. ticket'[p].index = Len(log[n]) + 1 /\ ticket'[p].term = currentTerm[n]
    BY <1>1
  <2>6. ASSUME NEW i \in 1..Len(chosen), i = Len(log[n]) + 1, chosen[i].term = currentTerm[n]
        PROVE  FALSE
    <3>1. Owned(i, chosen[i].term)
      BY ChosenTrue DEF KVInv, EntryTrue
    <3>2. i <= Len(log[n])
      BY <1>2, <2>6, <3>1 DEF Owned
    <3> QED
      BY <2>3, <2>6, <3>2
  <2>7. ~InStore(p, q)'
    BY <1>2, <2>5, <2>6 DEF InStore, Kept
  <2> QED
    BY <1>4, <2>4, <2>7
<1> QED
  BY <1>3, <1>4

\* The Puts that storing one more entry brings in are those with its ticket.
LEMMA StoringAdds ==
    ASSUME KVInv, NEW n \in Node, ApplyStore(n), NEW m, m = Head(commitCh[n]),
           NEW p \in Puts
    PROVE  InStore(p, n)' <=> \/ InStore(p, n)
                              \/ ticket[p] = [index |-> Stored(n) + 1, term |-> m.term]
<1>1. /\ Stored(n) \in Nat /\ Stored(n) + 1 \in 1..Len(chosen) /\ m = chosen[Stored(n) + 1]
  BY HeadIsNext DEF ApplyStore
<1>2. Stored(n)' = Stored(n) + 1
  BY ApplyStoreAdvances
<1>3. chosen' = chosen /\ ticket' = ticket
  BY DEF ApplyStore, core, handler
<1>4. /\ ticket[p].index \in Nat /\ ticket[p].term \in Nat
      /\ ticket[p] = [index |-> ticket[p].index, term |-> ticket[p].term]
  BY TicketNumbers DEF KVInv
<1>5. PICK i \in Nat : i = ticket[p].index
  BY <1>4
<1>6. PICK s \in Nat : s = Stored(n)
  BY <1>1
<1>7. i <= s + 1 <=> i <= s \/ i = s + 1
  OBVIOUS
<1>8. InStore(p, n)' <=> Kept(p) /\ i <= s + 1
  BY <1>2, <1>3, <1>5, <1>6 DEF InStore, Kept
<1>9. InStore(p, n) <=> Kept(p) /\ i <= s
  BY <1>5, <1>6 DEF InStore
<1>10. i = s + 1 => (Kept(p) <=> m.term = ticket[p].term)
  BY <1>1, <1>5, <1>6 DEF Kept
<1>11. ticket[p] = [index |-> s + 1, term |-> m.term] <=> i = s + 1 /\ ticket[p].term = m.term
  BY <1>4, <1>5
<1> QED
  BY <1>6, <1>7, <1>8, <1>9, <1>10, <1>11

\* Storing the next entry: a new leader's entry changes nothing; that of a Put
\* writes its key, and every Put with that ticket wrote the same.
LEMMA ApplyStoreReplays ==
    ASSUME PlainKeys, KVInv, NEW n \in Node, ApplyStore(n), Replays(n)
    PROVE  Replays(n)'
<1>1. PICK m : m = Head(commitCh[n])
  OBVIOUS
<1>2. PICK i : i = Stored(n) + 1
  OBVIOUS
<1>3. EntryTrue(i, m) /\ i \in Nat
  BY <1>1, <1>2, HeadIsNext DEF ApplyStore
<1>4. ticket' = ticket
  BY DEF ApplyStore, handler
<1>5. \A p \in Puts : InStore(p, n)' <=> \/ InStore(p, n)
                                         \/ ticket[p] = [index |-> i, term |-> m.term]
  BY <1>1, <1>2, StoringAdds
<1>6. \A p \in Puts : ticket[p] = [index |-> i, term |-> m.term] => m.command = Command(p)
  BY <1>3 DEF EntryTrue
<1>7. CASE m.command = << "noop" >>
  <2>1. \A p \in Puts : ticket[p] # [index |-> i, term |-> m.term]
    BY <1>6, <1>7, DecodeNoop
  <2>2. decodeCommand(m.command).op # "put"
    BY <1>7, DecodeNoop
  <2>3. store' = store
    BY <1>1, <2>2 DEF ApplyStore
  <2> QED
    BY <1>4, <1>5, <2>1, <2>3, ReplaysStays
<1>8. ASSUME NEW w \in Puts, ticket[w] = [index |-> i, term |-> m.term], m.command = Command(w)
      PROVE  Replays(n)'
  <2>1. PICK key : key = Request[w].key
    OBVIOUS
  <2>2. PICK value : value = Request[w].value
    OBVIOUS
  <2>3. \A p \in Puts : LET d == decodeCommand(Command(p)) IN
          d.op = "put" /\ d.key = Request[p].key /\ d.value = Request[p].value
    BY DecodePut DEF PlainKeys
  <2>4. \A p \in Puts : ticket[p] = [index |-> i, term |-> m.term]
          => Request[p].key = key /\ Request[p].value = value
    BY <1>6, <1>8, <2>1, <2>2, <2>3
  <2>5. store' = [store EXCEPT ![n] = StorePut(@, key, value)]
    BY <1>1, <1>8, <2>1, <2>2, <2>3 DEF ApplyStore
  <2>6. store'[n] = StorePut(store[n], key, value)
    BY <2>5 DEF KVInv, ServerInv, StoresAreMaps
  <2>7. /\ DOMAIN store'[n] = DOMAIN store[n] \cup {key}
        /\ store'[n][key] = value
        /\ \A k \in DOMAIN store[n] : k # key => store'[n][k] = store[n][k]
    BY <2>6 DEF StorePut
  <2>8. /\ \A k : k \in DOMAIN store[n]
                    <=> \E p \in Puts : Request[p].key = k /\ InStore(p, n)
        /\ \A k \in DOMAIN store[n] : \E p \in Puts :
              /\ Request[p].key = k /\ InStore(p, n) /\ store[n][k] = Request[p].value
              /\ \A q \in Puts : Request[q].key = k /\ InStore(q, n)
                                   => ticket[q].index <= ticket[p].index
    BY ReplaysIs
  <2>9. \A p \in Puts : Request[p].key # key => (InStore(p, n)' <=> InStore(p, n))
    BY <1>5, <2>4
  <2>10. InStore(w, n)' /\ Request[w].key = key /\ Request[w].value = value
    BY <1>5, <1>8, <2>1, <2>2
  <2>11. \A k : k \in DOMAIN store'[n]
                  <=> \E p \in Puts : Request[p].key = k /\ InStore(p, n)'
    <3> TAKE k
    <3>1. CASE k = key
      BY <2>7, <2>10, <3>1
    <3>2. CASE k # key
      BY <2>7, <2>8, <2>9, <3>2
    <3> QED
      BY <3>1, <3>2
  <2>12. \A q \in Puts : InStore(q, n)' => ticket[q].index <= ticket[w].index
    <3> SUFFICES ASSUME NEW q \in Puts, InStore(q, n)' PROVE ticket[q].index <= ticket[w].index
      OBVIOUS
    <3>1. ticket[w].index = i /\ ticket[q].index \in Nat
      <4>1. ticket[w].index = i
        BY <1>8
      <4>2. ticket[q].index \in Nat
        BY TicketNumbers DEF KVInv
      <4> QED
        BY <4>1, <4>2
    <3>2. CASE ticket[q] = [index |-> i, term |-> m.term]
      BY <1>3, <3>1, <3>2
    <3>3. CASE InStore(q, n)
      <4>1. ticket[q].index <= Stored(n) /\ Stored(n) \in Nat
        BY <3>3, ServerNumbers DEF InStore
      <4>2. ticket[q].index <= i
        BY <1>2, <3>1, <4>1
      <4> QED
        BY <3>1, <4>2
    <3> QED
      BY <1>5, <3>2, <3>3
  <2>13. \A k \in DOMAIN store'[n] : \E p \in Puts :
              /\ Request[p].key = k /\ InStore(p, n)' /\ store'[n][k] = Request[p].value
              /\ \A q \in Puts : Request[q].key = k /\ InStore(q, n)'
                                   => ticket'[q].index <= ticket'[p].index
    <3> TAKE k \in DOMAIN store'[n]
    <3>1. CASE k = key
      BY <1>4, <2>7, <2>10, <2>12, <3>1
    <3>2. CASE k # key
      <4>1. k \in DOMAIN store[n] /\ store'[n][k] = store[n][k]
        BY <2>7, <3>2
      <4>2. PICK p \in Puts :
              /\ Request[p].key = k /\ InStore(p, n) /\ store[n][k] = Request[p].value
              /\ \A q \in Puts : Request[q].key = k /\ InStore(q, n)
                                   => ticket[q].index <= ticket[p].index
        BY <2>8, <4>1
      <4> QED
        BY <1>4, <2>9, <3>2, <4>1, <4>2
    <3> QED
      BY <3>1, <3>2
  <2>14. (Replays(n) <=>
             /\ \A k : k \in DOMAIN store[n]
                         <=> \E p \in Puts : Request[p].key = k /\ InStore(p, n)
             /\ \A k \in DOMAIN store[n] : \E p \in Puts :
                   /\ Request[p].key = k /\ InStore(p, n) /\ store[n][k] = Request[p].value
                   /\ \A q \in Puts : Request[q].key = k /\ InStore(q, n)
                                        => ticket[q].index <= ticket[p].index)'
    BY ReplaysIs, PTL
  <2> QED
    BY <2>11, <2>13, <2>14
<1> QED
  BY <1>3, <1>7, <1>8 DEF EntryTrue

\* Every step leaves every store a replay of what was chosen.
LEMMA NextReplays ==
    ASSUME PlainKeys
    PROVE  KVInv /\ StoreReplays /\ [Next]_vars => StoreReplays'
<1> SUFFICES ASSUME KVInv, StoreReplays, [Next]_vars, NEW q \in Node PROVE Replays(q)'
  BY DEF StoreReplays, Replays
<1>1. Replays(q)
  BY DEF StoreReplays, Replays
<1>2. ASSUME ChosenGrows, ticket' = ticket, Stored(q)' = Stored(q), store'[q] = store[q]
      PROVE  Replays(q)'
  <2>1. \A p \in Puts : InStore(p, q)' <=> InStore(p, q)
    BY <1>2, GrowingKeepsStores
  <2> QED
    BY <1>1, <1>2, <2>1, ReplaysStays
<1>3. ASSUME UNCHANGED << core, ticket >>, Stored(q)' = Stored(q), store'[q] = store[q]
      PROVE  Replays(q)'
  <2>1. chosen' = chosen /\ commitIndex' = commitIndex /\ ticket' = ticket
    BY <1>3 DEF core
  <2>2. Len(chosen) \in Nat /\ \A r \in Node : commitIndex[r] \in Nat
    BY CoreNumbers DEF KVInv
  <2>3. ChosenGrows
    BY <2>1, <2>2 DEF ChosenGrows, SamePrefix
  <2> QED
    BY <1>2, <1>3, <2>1, <2>3
<1>4. ASSUME NEW n \in Node, NEW l \in Node, NEW t,
             \/ Choose(n) \/ AppendEntries(n, l) \/ LearnLeader(n, l)
             \/ t \in Term /\ Elect(n, t)
      PROVE  Replays(q)'
  <2>1. ChosenGrows
    BY <1>4, CoreGrows
  <2>2. UNCHANGED << server, handler >>
    BY <1>4 DEF Choose, AppendEntries, LearnLeader, Elect
  <2>3. ticket' = ticket /\ Stored(q)' = Stored(q) /\ store'[q] = store[q]
    BY <2>2 DEF server, handler, Stored
  <2> QED
    BY <1>2, <2>1, <2>3
<1>5. ASSUME NEW n \in Node, SendApplied(n) PROVE Replays(q)'
  <2>1. UNCHANGED << core, ticket >> /\ store' = store
    BY <1>5 DEF SendApplied, handler
  <2>2. Stored(q)' = Stored(q)
    BY <1>5, SendAppliedKeepsStored
  <2> QED
    BY <1>3, <2>1, <2>2
<1>6. ASSUME NEW n \in Node, ApplyStore(n) PROVE Replays(q)'
  <2>1. CASE q = n
    BY <1>1, <1>6, <2>1, ApplyStoreReplays
  <2>2. CASE q # n
    <3>1. UNCHANGED << core, ticket >> /\ Stored(q)' = Stored(q)
      BY <1>6, <2>2, ApplyStoreAdvances DEF ApplyStore, handler
    <3>2. store'[q] = store[q]
      BY <1>6, <2>2 DEF ApplyStore, KVInv, ServerInv, StoresAreMaps
    <3> QED
      BY <1>3, <3>1, <3>2
  <2> QED
    BY <2>1, <2>2
<1>7. ASSUME NEW n \in Node, ApplyWake(n) PROVE Replays(q)'
  <2>1. UNCHANGED << core, ticket >> /\ store' = store /\ Stored(q)' = Stored(q)
    BY <1>7 DEF ApplyWake, Stored
  <2> QED
    BY <1>3, <2>1
<1>8. ASSUME NEW p \in Puts, NEW n \in Node, Start(p, n) PROVE Replays(q)'
  <2>1. \A r \in Puts : /\ InStore(r, q)' <=> InStore(r, q)
                        /\ InStore(r, q) => ticket'[r] = ticket[r]
    BY <1>8, StartKeepsStores
  <2>2. store' = store
    BY <1>8 DEF Start, server
  <2> QED
    BY <1>1, <2>1, <2>2, ReplaysStays
<1>9. ASSUME NEW p \in Puts, NEW n,
             Refused(p, n) \/ Redirect(p, n) \/ Register(p) \/ Woken(p) \/ PutTimeout(p)
      PROVE  Replays(q)'
  <2>1. UNCHANGED << core, server, ticket >>
    BY <1>9 DEF Refused, Redirect, Register, Woken, PutTimeout
  <2>2. UNCHANGED << core, ticket >> /\ store' = store /\ Stored(q)' = Stored(q)
    BY <2>1 DEF server, Stored
  <2> QED
    BY <1>3, <2>2
<1>10. CASE UNCHANGED vars
  <2>1. UNCHANGED << core, ticket >> /\ store' = store /\ Stored(q)' = Stored(q)
    BY <1>10 DEF vars, server, handler, Stored
  <2> QED
    BY <1>3, <2>1
<1>11. CASE Next
  <2>1. ASSUME NEW n \in Node, NEW t \in Term, Elect(n, t) PROVE Replays(q)'
    BY <1>4, <2>1
  <2>2. ASSUME NEW n \in Node, Choose(n) PROVE Replays(q)'
    BY <1>4, <2>2
  <2>3. ASSUME NEW n \in Node, NEW l \in Node, AppendEntries(n, l) \/ LearnLeader(n, l)
        PROVE  Replays(q)'
    BY <1>4, <2>3
  <2> QED
    BY <1>5, <1>6, <1>7, <1>8, <1>9, <1>11, <2>1, <2>2, <2>3 DEF Next
<1> QED
  BY <1>10, <1>11

(***************************************************************************)
(* If no key has a colon in it, every store is what the clients asked for: *)
(* a key holds the value of the last committed Put on it among the entries *)
(* the server has applied, however many colons are in the value, and no    *)
(* key is there that nobody put.                                           *)
(***************************************************************************)
THEOREM StoresReplay ==
    ASSUME PlainKeys
    PROVE  Spec => []StoreReplays
<1>1. Init => StoreReplays
  <2> SUFFICES ASSUME Init, NEW n \in Node PROVE Replays(n)
    BY DEF StoreReplays, Replays
  <2>1. DOMAIN store[n] = {}
    <3>1. store[n] = << >> /\ DOMAIN << >> = {}
      BY DEF Init
    <3> QED
      BY <3>1
  <2>2. Len(chosen) = 0
    BY DEF Init
  <2>3. \A p \in Puts : ~InStore(p, n)
    BY <2>2 DEF InStore, Kept
  <2> QED
    BY <2>1, <2>3, ReplaysIs
<1>2. KVInv /\ StoreReplays /\ [Next]_vars => StoreReplays'
  BY NextReplays
<1> QED
  BY <1>1, <1>2, KVInvariant, PTL DEF Spec

(***************************************************************************)
(* If no key has a colon in it, a client reads its own writes: once a Put  *)
(* has returned OK, a Get at the server that answered finds the key, with  *)
(* the value put or that of a Put committed after it.                      *)
(***************************************************************************)
THEOREM ClientsReadTheirWrites ==
    ASSUME PlainKeys
    PROVE  Spec => []ReadYourWrites
<1>1. KVInv /\ StoreReplays => ReadYourWrites
  <2> SUFFICES ASSUME KVInv, StoreReplays, NEW p \in Puts, pc[p] = "ok"
               PROVE  LET answer == Get(at[p], Request[p].key) IN
                      /\ answer.found
                      /\ \E q \in Puts :
                            /\ Request[q].key = Request[p].key
                            /\ Request[q].value = answer.value
                            /\ Kept(q) /\ ticket[p].index <= ticket[q].index
    BY DEF ReadYourWrites
  <2>1. PICK n \in Node : n = at[p]
    <3>1. at[p] \in Node
      BY DEF KVInv, TypeOK
    <3> QED
      BY <3>1
  <2>2. PICK key : key = Request[p].key
    OBVIOUS
  <2>3. signal[p] # 0 /\ signal[p] = ticket[p].term
    BY DEF KVInv, ServerInv, Answers
  <2>4. /\ ticket[p].index <= Stored(at[p]) /\ ticket[p].index \in 1..Len(chosen)
        /\ chosen[ticket[p].index].term = signal[p]
    BY <2>3 DEF KVInv, ServerInv, SignalsTrue
  <2>5. InStore(p, n)
    BY <2>1, <2>3, <2>4 DEF InStore, Kept
  <2>6. Replays(n)
    BY DEF StoreReplays, Replays
  <2>7. key \in DOMAIN store[n]
    BY <2>2, <2>5, <2>6, ReplaysIs
  <2>8. PICK q \in Puts :
          /\ Request[q].key = key /\ InStore(q, n) /\ store[n][key] = Request[q].value
          /\ \A r \in Puts : Request[r].key = key /\ InStore(r, n)
                               => ticket[r].index <= ticket[q].index
    BY <2>6, <2>7, ReplaysIs
  <2>9. Get(n, key).found /\ Get(n, key).value = store[n][key]
    BY <2>7 DEF Get, StoreGet
  <2> QED
    BY <2>1, <2>2, <2>5, <2>8, <2>9 DEF InStore
<1> QED
  BY <1>1, KVInvariant, StoresReplay, PTL
=============================================================================

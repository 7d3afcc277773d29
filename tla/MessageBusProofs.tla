--------------------------- MODULE MessageBusProofs ---------------------------
(***************************************************************************)
(* Proofs, for any number of messages, iterators, connections and          *)
(* restarts, of what the bus promises those who listen.                    *)
(***************************************************************************)
EXTENDS MessageBus, Induction, SequenceTheorems

------------------------------------------------------------------------------
(* Sequences                                                               *)

\* The elements of a sequence are those at its indices.
LEMMA RangeIs ==
    ASSUME NEW S, NEW s \in Seq(S)
    PROVE  /\ DOMAIN s = 1..Len(s)
           /\ Range(s) = {s[i] : i \in 1..Len(s)}
           /\ Range(s) \subseteq S
  BY DEF Range

\* Appending adds one element.
LEMMA RangeAppend ==
    ASSUME NEW S, NEW s \in Seq(S), NEW e \in S
    PROVE  Range(Append(s, e)) = Range(s) \union {e}
<1>1. /\ Append(s, e) \in Seq(S) /\ Len(Append(s, e)) = Len(s) + 1
      /\ \A i \in 1..Len(s) : Append(s, e)[i] = s[i]
      /\ Append(s, e)[Len(s) + 1] = e
  BY AppendProperties
<1>2. Range(Append(s, e)) = {Append(s, e)[i] : i \in 1..(Len(s) + 1)}
  BY <1>1, RangeIs
<1>3. Range(s) = {s[i] : i \in 1..Len(s)}
  BY RangeIs
<1> QED
  BY <1>1, <1>2, <1>3

\* A sequence without repetitions stays so when a new element is appended.
LEMMA InjectiveAppend ==
    ASSUME NEW S, NEW s \in Seq(S), IsInjective(s), NEW e \in S, e \notin Range(s)
    PROVE  IsInjective(Append(s, e))
<1>1. /\ Append(s, e) \in Seq(S) /\ Len(Append(s, e)) = Len(s) + 1
      /\ \A i \in 1..Len(s) : Append(s, e)[i] = s[i]
      /\ Append(s, e)[Len(s) + 1] = e
  BY AppendProperties
<1>2. DOMAIN Append(s, e) = 1..(Len(s) + 1) /\ DOMAIN s = 1..Len(s)
  BY <1>1, RangeIs
<1> QED
  BY <1>1, <1>2 DEF IsInjective, Range

\* c is s without its k-th of n elements.
Skips(c, s, n, k) ==
    /\ n \in Nat /\ k \in 1..n
    /\ DOMAIN s = 1..n /\ DOMAIN c = 1..(n - 1)
    /\ \A i \in 1..(n - 1) : c[i] = IF i <= k - 1 THEN s[i] ELSE s[i + 1]

\* Without repetitions in s, c has the other elements.
LEMMA SkipOne ==
    ASSUME NEW s, NEW c, NEW n, NEW k, Skips(c, s, n, k), IsInjective(s)
    PROVE  IsInjective(c) /\ Range(c) = Range(s) \ {s[k]}
<1> USE DEF Skips
<1> DEFINE g(i) == IF i <= k - 1 THEN i ELSE i + 1
<1>1. \A i \in 1..(n - 1) : g(i) \in 1..n /\ g(i) # k /\ c[i] = s[g(i)]
  OBVIOUS
<1>2. \A i, j \in 1..(n - 1) : g(i) = g(j) => i = j
  OBVIOUS
<1>3. \A x \in 1..n : x # k => \E i \in 1..(n - 1) : g(i) = x
  <2> SUFFICES ASSUME NEW x \in 1..n, x # k PROVE \E i \in 1..(n - 1) : g(i) = x
    OBVIOUS
  <2>1. CASE x < k
    <3>1. x \in 1..(n - 1) /\ g(x) = x
      BY <2>1
    <3> QED
      BY <3>1
  <2>2. CASE x > k
    <3>1. x - 1 \in 1..(n - 1) /\ g(x - 1) = x
      BY <2>2
    <3> QED
      BY <3>1
  <2> QED
    BY <2>1, <2>2
<1>4. \A x, y \in 1..n : s[x] = s[y] => x = y
  BY DEF IsInjective
<1> HIDE DEF g
<1>5. IsInjective(c)
  BY <1>1, <1>2, <1>4 DEF IsInjective
<1>6. \A i \in 1..(n - 1) : c[i] \in Range(s) /\ c[i] # s[k]
  BY <1>1, <1>4 DEF Range
<1>7. \A x \in 1..n : s[x] # s[k] => \E i \in 1..(n - 1) : c[i] = s[x]
  BY <1>1, <1>3
<1>8. Range(c) = {c[i] : i \in 1..(n - 1)} /\ Range(s) = {s[x] : x \in 1..n}
  BY DEF Range
<1>9. Range(c) = Range(s) \ {s[k]}
  <2>1. ASSUME NEW y \in Range(c) PROVE y \in Range(s) \ {s[k]}
    BY <1>6, <1>8
  <2>2. ASSUME NEW y \in Range(s) \ {s[k]} PROVE y \in Range(c)
    BY <1>7, <1>8
  <2> QED
    BY <2>1, <2>2
<1> QED
  BY <1>5, <1>9

\* list.remove() takes one element out of a list without repetitions.
LEMMA RangeRemoveFirst ==
    ASSUME NEW S, NEW s \in Seq(S), IsInjective(s), NEW e
    PROVE  /\ RemoveFirst(s, e) \in Seq(S)
           /\ IsInjective(RemoveFirst(s, e))
           /\ Range(RemoveFirst(s, e)) = Range(s) \ {e}
<1>1. CASE ~ \E i \in 1..Len(s) : s[i] = e
  BY <1>1, RangeIs DEF RemoveFirst
<1>2. CASE \E i \in 1..Len(s) : s[i] = e
  <2> DEFINE I == {i \in 1..Len(s) : s[i] = e}
             k == SelectInSeq(s, LAMBDA v : v = e)
  <2>1. PICK j \in I : \A n \in I : j <= n
    <3>1. I \in SUBSET Nat /\ I # {}
      BY <1>2
    <3> HIDE DEF I
    <3> QED
      BY <3>1, LeastNatural
  <2>2. k = Min(I)
    BY <1>2 DEF SelectInSeq
  <2>3. k \in 1..Len(s) /\ s[k] = e
    BY <2>1, <2>2 DEF Min
  <2> HIDE DEF k
  <2>4. RemoveFirst(s, e) = SubSeq(s, 1, k - 1) \o SubSeq(s, k + 1, Len(s))
    BY <1>2 DEF RemoveFirst, RemoveAt, k
  <2> DEFINE a == SubSeq(s, 1, k - 1)
             b == SubSeq(s, k + 1, Len(s))
  <2>5. /\ a \in Seq(S) /\ Len(a) = k - 1 /\ \A i \in 1..(k - 1) : a[i] = s[i]
        /\ b \in Seq(S) /\ Len(b) = Len(s) - k /\ \A i \in 1..(Len(s) - k) : b[i] = s[k + i]
    BY <2>3
  <2> HIDE DEF a, b
  <2>6. /\ a \o b \in Seq(S) /\ Len(a \o b) = Len(s) - 1
        /\ \A i \in 1..(Len(s) - 1) : (a \o b)[i] = IF i <= k - 1 THEN s[i] ELSE s[i + 1]
    <3>1. /\ a \o b \in Seq(S) /\ Len(a \o b) = Len(a) + Len(b)
          /\ \A i \in 1..(Len(a) + Len(b)) :
                (a \o b)[i] = IF i <= Len(a) THEN a[i] ELSE b[i - Len(a)]
      BY <2>5, ConcatProperties
    <3>2. Len(a) + Len(b) = Len(s) - 1
      BY <2>3, <2>5
    <3>3. ASSUME NEW i \in 1..(Len(s) - 1), ~(i <= k - 1) PROVE b[i - Len(a)] = s[i + 1]
      <4>1. i - (k - 1) \in 1..(Len(s) - k) /\ k + (i - (k - 1)) = i + 1
        BY <2>3, <3>1, <3>3
      <4> QED
        BY <2>5, <4>1
    <3>4. ASSUME NEW i \in 1..(Len(s) - 1), i <= k - 1 PROVE a[i] = s[i]
      BY <2>3, <2>5, <3>4
    <3> QED
      BY <2>5, <3>1, <3>2, <3>3, <3>4
  <2> DEFINE c == a \o b
  <2> HIDE DEF c
  <2>7. /\ c \in Seq(S) /\ Len(c) = Len(s) - 1
        /\ \A i \in 1..(Len(s) - 1) : c[i] = IF i <= k - 1 THEN s[i] ELSE s[i + 1]
    BY <2>6 DEF c
  <2>8. DOMAIN s = 1..Len(s) /\ DOMAIN c = 1..(Len(s) - 1) /\ Len(s) \in Nat
    BY <2>7, RangeIs
  <2>9. Skips(c, s, Len(s), k)
    BY <2>3, <2>7, <2>8 DEF Skips
  <2>10. IsInjective(c) /\ Range(c) = Range(s) \ {e}
    BY <2>3, <2>9, SkipOne
  <2> QED
    BY <2>4, <2>7, <2>10 DEF a, b, c
<1> QED
  BY <1>1, <1>2

\* What was pushed since a connection registered grows with what is pushed.
LEMMA SubSeqAppend ==
    ASSUME NEW S, NEW s \in Seq(S), NEW e \in S, NEW k \in Nat, k <= Len(s)
    PROVE  SubSeq(Append(s, e), k + 1, Len(Append(s, e))) = Append(SubSeq(s, k + 1, Len(s)), e)
<1> DEFINE p == Append(s, e)
           n == Len(s)
           l == SubSeq(p, k + 1, Len(p))
           u == SubSeq(s, k + 1, n)
           w == Append(u, e)
<1>1. p \in Seq(S) /\ Len(p) = n + 1 /\ (\A i \in 1..n : p[i] = s[i]) /\ p[n + 1] = e
  BY AppendProperties
<1>2. n \in Nat /\ DOMAIN s = 1..n
  BY RangeIs
<1> HIDE DEF p
<1>3. l \in Seq(S) /\ Len(l) = n + 1 - k /\ \A i \in 1..(n + 1 - k) : l[i] = p[k + i]
  BY <1>1, <1>2
<1>4. u \in Seq(S) /\ Len(u) = n - k /\ \A i \in 1..(n - k) : u[i] = s[k + i]
  OBVIOUS
<1> HIDE DEF l, u
<1>5. w \in Seq(S) /\ Len(w) = n - k + 1 /\ (\A i \in 1..(n - k) : w[i] = u[i]) /\ w[n - k + 1] = e
  BY <1>2, <1>4, AppendProperties
<1> HIDE DEF w, n
<1>6. ASSUME NEW i \in 1..Len(l) PROVE l[i] = w[i]
  <2>1. CASE i <= n - k
    BY <1>1, <1>2, <1>3, <1>4, <1>5, <2>1
  <2>2. CASE i = n - k + 1
    BY <1>1, <1>2, <1>3, <1>5, <2>2
  <2> QED
    BY <1>2, <1>3, <2>1, <2>2
<1>7. l = w
  <2>1. Len(l) = Len(w)
    BY <1>2, <1>3, <1>5
  <2> QED
    BY <1>3, <1>5, <1>6, <2>1, SeqEqual
<1> QED
  BY <1>7 DEF l, u, w, p, n

\* Putting at the end of the second part.
LEMMA ConcatAppend ==
    ASSUME NEW S, NEW a \in Seq(S), NEW q \in Seq(S), NEW e \in S
    PROVE  a \o Append(q, e) = Append(a \o q, e)
<1>1. a \o q \in Seq(S)
  BY ConcatProperties
<1>2. <<e>> \in Seq(S)
  OBVIOUS
<1>3. Append(q, e) = q \o <<e>> /\ Append(a \o q, e) = (a \o q) \o <<e>>
  BY <1>1, AppendIsConcat
<1>4. (a \o q) \o <<e>> = a \o (q \o <<e>>)
  BY <1>2, ConcatAssociative
<1> QED
  BY <1>3, <1>4

\* Moving the head of the second part to the end of the first.
LEMMA ConcatMove ==
    ASSUME NEW S, NEW a \in Seq(S), NEW q \in Seq(S), q # << >>
    PROVE  Append(a, Head(q)) \o Tail(q) = a \o q
<1> DEFINE h == Head(q)
           t == Tail(q)
<1>1. h \in S /\ t \in Seq(S)
  BY HeadTailProperties
<1>2. Len(q) \in Nat \ {0} /\ Head(q) = q[1]
  BY EmptySeq
<1>3. q = <<h>> \o t
  <2>1. SubSeq(q, 1, Len(q)) = <<q[1]>> \o SubSeq(q, 1 + 1, Len(q))
    BY <1>2, SubSeqRecursiveFirst
  <2> QED
    BY <1>2, <2>1, SubSeqFull, TailIsSubSeq
<1>4. <<h>> \in Seq(S)
  BY <1>1
<1> HIDE DEF h, t
<1>5. (a \o <<h>>) \o t = a \o (<<h>> \o t)
  BY <1>1, <1>4, ConcatAssociative
<1>6. Append(a, h) = a \o <<h>>
  BY <1>1, AppendIsConcat
<1> QED
  BY <1>3, <1>5, <1>6 DEF h, t

------------------------------------------------------------------------------
(* Types                                                                   *)

\* The first row of a batch is the one index that is next.
LEMMA FirstIs ==
    ASSUME NEW S, NEW t \in Seq(S), NEW B, B \subseteq Range(t), B # {}
    PROVE  /\ First(t, B) \in B
           /\ \E k \in DOMAIN t : First(t, B) = t[k] /\ IsNext(k, t, B)
           /\ \A k \in DOMAIN t : IsNext(k, t, B) => First(t, B) = t[k]
<1> DEFINE I == {i \in DOMAIN t : t[i] \in B}
<1>1. DOMAIN t = 1..Len(t) /\ Len(t) \in Nat
  BY RangeIs
<1>2. I \in SUBSET Nat /\ I # {}
  BY <1>1 DEF Range
<1> HIDE DEF I
<1>3. PICK k \in I : \A n \in I : k <= n
  BY <1>2, LeastNatural
<1>4. k \in DOMAIN t /\ IsNext(k, t, B)
  BY <1>1, <1>3 DEF I, IsNext
<1>5. ASSUME NEW i \in DOMAIN t, NEW j \in DOMAIN t, IsNext(i, t, B), IsNext(j, t, B)
      PROVE  i = j
  BY <1>1, <1>5 DEF IsNext
<1>6. First(t, B) = t[k]
  BY <1>4, <1>5 DEF First
<1> QED
  BY <1>4, <1>5, <1>6 DEF IsNext

\* A row that is handed out is a message of the batch and of the table.
LEMMA NextRowType ==
    ASSUME log \in Seq(Messages), NEW s \in Readers,
           reader[s].batch \subseteq Range(log), reader[s].batch # {}
    PROVE  NextRow(s) \in Messages /\ NextRow(s) \in Range(log) /\ NextRow(s) \in reader[s].batch
  BY FirstIs, RangeIs DEF NextRow

\* A queue is a sequence of messages after a message was put into it.
LEMMA PutType ==
    ASSUME TypeOK, NEW m \in Messages
    PROVE  PutToAll(m) \in [Connections -> Sockets]
<1> SUFFICES ASSUME NEW c \in Connections
             PROVE  [conn[c] EXCEPT !.queue = Append(@, m)] \in Sockets
  BY DEF TypeOK, PutToAll, Put, Sockets
<1>1. Append(conn[c].queue, m) \in Seq(Messages)
  BY AppendProperties DEF TypeOK, Sockets
<1> QED
  BY <1>1 DEF TypeOK, Sockets

\* An iterator that moves, or loses rows of its batch, is one.
LEMMA ReaderType ==
    ASSUME TypeOK, NEW s \in Readers, NEW x \in Places, NEW B \in SUBSET Messages
    PROVE  /\ [reader EXCEPT ![s].at = x] \in [Readers -> Iterators]
           /\ [reader EXCEPT ![s].batch = B] \in [Readers -> Iterators]
           /\ [reader EXCEPT ![s] = [at |-> x, batch |-> B]] \in [Readers -> Iterators]
<1> reader \in [Readers -> Iterators]
  BY DEF TypeOK
<1>1. [reader[s] EXCEPT !.at = x] \in Iterators
  BY DEF Iterators
<1>2. [reader[s] EXCEPT !.batch = B] \in Iterators
  BY DEF Iterators
<1>3. [at |-> x, batch |-> B] \in Iterators
  BY DEF Iterators
<1> HIDE DEF Iterators
<1> QED
  BY <1>1, <1>2, <1>3

\* The same of a connection.
LEMMA ConnType ==
    ASSUME TypeOK, NEW c \in Connections, NEW q \in Seq(Messages)
    PROVE  /\ [conn EXCEPT ![c].at = "open"] \in [Connections -> Sockets]
           /\ [conn EXCEPT ![c].queue = q] \in [Connections -> Sockets]
           /\ [conn EXCEPT ![c].alive = FALSE] \in [Connections -> Sockets]
           /\ [conn EXCEPT ![c] = Closed] \in [Connections -> Sockets]
<1> conn \in [Connections -> Sockets]
  BY DEF TypeOK
<1>1. [conn[c] EXCEPT !.at = "open"] \in Sockets
  BY DEF Sockets
<1>2. [conn[c] EXCEPT !.queue = q] \in Sockets
  BY DEF Sockets
<1>3. [conn[c] EXCEPT !.alive = FALSE] \in Sockets
  BY DEF Sockets
<1>4. Closed \in Sockets
  BY EmptySeq DEF Sockets, Closed
<1> HIDE DEF Sockets
<1> QED
  BY <1>1, <1>2, <1>3, <1>4

\* The empty sequence is one of anything.
LEMMA Empty == ASSUME NEW S PROVE << >> \in Seq(S)
  BY EmptySeq

\* The variables keep their types.
LEMMA TypeStep ==
    ASSUME TypeOK, FeedInv, ListenersAreOpen, [Next]_vars
    PROVE  TypeOK'
<1> USE DEF TypeOK, rows, vars
<1>0. \A s \in Readers, x \in Places, B \in SUBSET Messages :
         /\ [reader EXCEPT ![s].at = x] \in [Readers -> Iterators]
         /\ [reader EXCEPT ![s].batch = B] \in [Readers -> Iterators]
         /\ [reader EXCEPT ![s] = [at |-> x, batch |-> B]] \in [Readers -> Iterators]
  BY ReaderType
<1>1. ASSUME NEW m \in Messages, Insert(m) PROVE TypeOK'
  <2>1. Append(log, m) \in Seq(Messages)
    BY AppendProperties
  <2> QED
    BY <1>1, <2>1 DEF Insert
<1>2. ASSUME NEW m \in Messages, Push(m) PROVE TypeOK'
  <2>1. Append(pushed, m) \in Seq(Messages)
    BY AppendProperties
  <2>2. conn' \in [Connections -> Sockets]
    BY <1>2, PutType DEF Push
  <2>3. ASSUME NEW s \in Readers PROVE Woken(reader[s]) \in Iterators
    <3>1. reader[s] \in Iterators /\ [reader[s] EXCEPT !.at = "read"] \in Iterators
      BY DEF Iterators, Places
    <3> QED
      BY <3>1 DEF Woken
  <2>4. publisher' \in [Messages -> {"idle", "push", "done"}]
    BY <1>2 DEF Push
  <2>5. reader' \in [Readers -> Iterators]
    BY <1>2, <2>3 DEF Push
  <2> QED
    BY <1>2, <2>1, <2>2, <2>4, <2>5 DEF Push
<1>3. ASSUME NEW m \in Messages, Answer(m) PROVE TypeOK'
  BY <1>3 DEF Answer
<1>4. ASSUME NEW s \in Readers, Subscribe(s) PROVE TypeOK'
  BY <1>0, <1>4 DEF Subscribe, Places
<1>5. ASSUME NEW s \in Readers, ReadRows(s) PROVE TypeOK'
  <2>1. Unconsumed \in SUBSET Messages
    BY RangeIs DEF Unconsumed
  <2> QED
    BY <1>0, <1>5, <2>1 DEF ReadRows, Places
<1>6. ASSUME NEW s \in Readers, MarkRow(s) PROVE TypeOK'
  <2>1. NextRow(s) \in Messages
    BY <1>6, NextRowType DEF MarkRow, FeedInv, Held
  <2> QED
    BY <1>0, <1>6, <2>1 DEF MarkRow, Places
<1>7. ASSUME NEW s \in Readers, MarkFails(s) PROVE TypeOK'
  <2>1. NextRow(s) \in Messages
    BY <1>7, NextRowType DEF MarkFails, FeedInv, Held
  <2>2. reader' \in [Readers -> Iterators]
    <3>1. reader[s].batch \ {NextRow(s)} \in SUBSET Messages
      BY DEF Iterators
    <3>2. \/ reader' = [reader EXCEPT ![s].batch = reader[s].batch \ {NextRow(s)}]
          \/ reader' = [reader EXCEPT ![s] = Stopped]
      BY <1>7 DEF MarkFails
    <3>3. [reader EXCEPT ![s].batch = reader[s].batch \ {NextRow(s)}] \in [Readers -> Iterators]
      BY <3>1, ReaderType DEF Places
    <3>4. [reader EXCEPT ![s] = Stopped] \in [Readers -> Iterators]
      BY <1>0 DEF Stopped, Places
    <3> QED
      BY <3>2, <3>3, <3>4
  <2> QED
    BY <1>7, <2>1, <2>2 DEF MarkFails
<1>8. ASSUME NEW s \in Readers, Yield(s) PROVE TypeOK'
  <2>1. NextRow(s) \in Messages
    BY <1>8, NextRowType DEF Yield, FeedInv, Held
  <2>2. Append(seen[s], NextRow(s)) \in Seq(Messages)
    BY <2>1, AppendProperties
  <2>3. reader' \in [Readers -> Iterators]
    <3>1. reader[s].batch \ {NextRow(s)} \in SUBSET Messages
      BY DEF Iterators
    <3> QED
      BY <1>0, <1>8, <3>1 DEF Yield, Places
  <2> QED
    BY <1>8, <2>2, <2>3 DEF Yield
<1>9. ASSUME NEW s \in Readers, Wait(s) PROVE TypeOK'
  BY <1>0, <1>9 DEF Wait, Places
<1>10. ASSUME NEW s \in Readers, StopReading(s) PROVE TypeOK'
  BY <1>0, <1>10 DEF StopReading, Stopped, Places
<1>11. ASSUME NEW c \in Connections, Accept(c) PROVE TypeOK'
  <2>1. Append(listeners, c) \in Seq(Connections)
    BY AppendProperties
  <2>2. Len(pushed) \in Nat
    BY LenProperties
  <2>3. conn' \in [Connections -> Sockets]
    BY <1>11, ConnType, Empty DEF Accept
  <2> QED
    BY <1>11, <2>1, <2>2, <2>3 DEF Accept, Register
<1>12. ASSUME NEW c \in Connections, Close(c) PROVE
          /\ listeners' \in Seq(Connections)
          /\ conn' \in [Connections -> Sockets]
          /\ sent' \in [Connections -> [since : Nat, items : Seq(Messages)]]
  <2>1. RemoveFirst(listeners, c) \in Seq(Connections)
    BY RangeRemoveFirst DEF ListenersAreOpen
  <2>2. [conn EXCEPT ![c] = Closed] \in [Connections -> Sockets]
    BY ConnType, Empty
  <2>3. Unsent \in [since : Nat, items : Seq(Messages)]
    BY Empty DEF Unsent
  <2> QED
    BY <1>12, <2>1, <2>2, <2>3 DEF Close, Unregister
<1>13. ASSUME NEW c \in Connections, SendNext(c) PROVE TypeOK'
  <2>1. CASE Close(c)
    BY <1>12, <1>13, <2>1 DEF SendNext
  <2>2. CASE ~Close(c)
    <3>0. conn[c].queue \in Seq(Messages) /\ sent[c].items \in Seq(Messages)
      BY DEF Sockets
    <3>1. Head(conn[c].queue) \in Messages /\ Tail(conn[c].queue) \in Seq(Messages)
      BY <1>13, <3>0, HeadTailProperties DEF SendNext
    <3>2. Append(sent[c].items, Head(conn[c].queue)) \in Seq(Messages)
      BY <3>0, <3>1, AppendProperties
    <3>3. conn' \in [Connections -> Sockets]
      <4>1. conn' = [conn EXCEPT ![c].queue = Tail(conn[c].queue)]
        BY <1>13, <2>2 DEF SendNext
      <4> QED
        BY <3>1, <4>1, ConnType
    <3>4. sent' \in [Connections -> [since : Nat, items : Seq(Messages)]]
      <4>1. PICK q \in Seq(Messages) : sent' = [sent EXCEPT ![c].items = q]
        BY <1>13, <2>2, <3>0, <3>2 DEF SendNext
      <4> QED
        BY <4>1
    <3> QED
      BY <1>13, <2>2, <3>3, <3>4 DEF SendNext
  <2> QED
    BY <2>1, <2>2
<1>14. ASSUME NEW c \in Connections, Timeout(c) PROVE TypeOK'
  BY <1>12, <1>14 DEF Timeout
<1>15. ASSUME NEW c \in Connections, PeerLeaves(c) PROVE TypeOK'
  <2>1. conn' \in [Connections -> Sockets]
    BY <1>15, ConnType, Empty DEF PeerLeaves
  <2> QED
    BY <1>15, <2>1 DEF PeerLeaves
<1>16. CASE Restart
  <2>1. Stopped \in Iterators /\ Closed \in Sockets
    BY Empty DEF Stopped, Closed, Iterators, Sockets, Places
  <2>2. Unsent \in [since : Nat, items : Seq(Messages)] /\ << >> \in Seq(Connections)
    BY Empty DEF Unsent
  <2>3. /\ reader' \in [Readers -> Iterators] /\ conn' \in [Connections -> Sockets]
    BY <1>16, <2>1 DEF Restart
  <2> QED
    BY <1>16, <2>2, <2>3 DEF Restart
<1>17. CASE UNCHANGED vars
  BY <1>17
<1> QED
  BY <1>1, <1>2, <1>3, <1>4, <1>5, <1>6, <1>7, <1>8, <1>9, <1>10, <1>11, <1>13, <1>14,
     <1>15, <1>16, <1>17 DEF Next, Iterate

------------------------------------------------------------------------------
(* The iterators                                                           *)

\* An iterator that fetches nothing keeps what is true of its batch.
LEMMA HeldKeeps ==
    ASSUME NEW s \in Readers, Held(s), log' = log, consumed \subseteq consumed',
           seen'[s] = seen[s], reader'[s].batch \in {reader[s].batch, {}},
           reader'[s].at = "yield" => reader[s].at = "yield" /\ reader'[s].batch = reader[s].batch
    PROVE  Held(s)'
  BY DEF Held, Leading, NextRow

\* A new row changes nothing for who has fetched before.
LEMMA HeldInsert ==
    ASSUME TypeOK, NEW s \in Readers, Held(s), NEW m \in Messages, m \notin Range(log),
           log' = Append(log, m), UNCHANGED <<consumed, seen, reader>>
    PROVE  Held(s)'
<1> DEFINE n == Len(log)
           B == reader[s].batch
           Y == Range(seen[s])
<1>1. /\ n \in Nat /\ DOMAIN log = 1..n /\ DOMAIN log' = 1..(n + 1) /\ log' \in Seq(Messages)
      /\ \A i \in 1..n : log'[i] = log[i]
      /\ log'[n + 1] = m
  BY AppendProperties, RangeIs DEF TypeOK
<1>2. Range(log') = Range(log) \union {m}
  BY RangeAppend DEF TypeOK
<1>3. B \subseteq Range(log) /\ Y \subseteq Range(log) \intersect consumed /\ m \notin B \union Y
  BY DEF Held
<1> HIDE DEF n, B, Y
<1>4. ASSUME NEW A, A \subseteq Range(log), Leading(log, consumed, A), m \notin A
      PROVE  Leading(log', consumed, A)
  BY <1>1, <1>4 DEF Leading
<1>5. \A i, j \in DOMAIN log' : log'[i] \in Y /\ log'[j] \in B => i < j
  BY <1>1, <1>3 DEF Held, B, Y
<1>6. ASSUME B # {} PROVE First(log', B) = First(log, B)
  <2>1. PICK k \in 1..n : First(log, B) = log[k] /\ IsNext(k, log, B)
    BY <1>1, <1>3, <1>6, FirstIs DEF TypeOK
  <2>2. k \in DOMAIN log' /\ IsNext(k, log', B)
    BY <1>1, <2>1 DEF IsNext
  <2>3. B \subseteq Range(log')
    BY <1>2, <1>3
  <2>4. First(log', B) = log'[k]
    BY <1>1, <1>6, <2>2, <2>3, FirstIs
  <2> QED
    BY <1>1, <2>1, <2>4
<1>7. /\ Leading(log, consumed, B) /\ Leading(log, consumed, Y)
      /\ reader[s].at = "yield" => B # {} /\ First(log, B) \in consumed
  BY DEF Held, B, Y, NextRow
<1>8. B' = B /\ Y' = Y
  BY DEF B, Y
<1>9. Leading(log', consumed, B) /\ Leading(log', consumed, Y)
  BY <1>3, <1>4, <1>7
<1>10. B' \subseteq Range(log') /\ Y' \subseteq Range(log') \intersect consumed'
  BY <1>2, <1>3, <1>8
<1>11. reader'[s].at = "yield" => B' # {} /\ First(log', B') \in consumed'
  BY <1>6, <1>7, <1>8
<1> QED
  BY <1>5, <1>8, <1>9, <1>10, <1>11 DEF Held, NextRow, B, Y

\* What is fetched is whatever is not consumed: it is behind all that was yielded.
LEMMA HeldRead ==
    ASSUME TypeOK, NEW s \in Readers, Held(s), UNCHANGED <<log, consumed, seen>>,
           reader'[s] = [at |-> "row", batch |-> Unconsumed]
    PROVE  Held(s)'
<1>1. DOMAIN log = 1..Len(log)
  BY RangeIs DEF TypeOK
<1>2. \A i, j \in DOMAIN log : log[i] \in Range(seen[s]) /\ log[j] \in Unconsumed => i < j
  BY <1>1 DEF Held, Leading, Unconsumed
<1>3. Leading(log, consumed, Unconsumed)
  BY <1>1 DEF Leading, Unconsumed, Range
<1> QED
  BY <1>2, <1>3 DEF Held, Leading, Unconsumed

\* A row that is consumed leaves the batch.
LEMMA HeldLess ==
    ASSUME NEW t, NEW C, NEW B, Leading(t, C, B), NEW x, NEW D, C \subseteq D, x \in D
    PROVE  Leading(t, D, B \ {x})
  BY DEF Leading

\* The row that is handed out is the first of its batch, and consumed.
LEMMA HeldYield ==
    ASSUME TypeOK, NEW s \in Readers, FeedInv, Yield(s)
    PROVE  Held(s)'
<1> DEFINE B == reader[s].batch
           Y == Range(seen[s])
           x == NextRow(s)
<1>1. DOMAIN log = 1..Len(log) /\ Len(log) \in Nat
  BY RangeIs DEF TypeOK
<1>2. B # {} /\ B \subseteq Range(log) /\ Y \subseteq Range(log) \intersect consumed /\ x \in consumed
  BY DEF FeedInv, Held, Yield
<1>3. PICK k \in 1..Len(log) : x = log[k] /\ IsNext(k, log, B)
  BY <1>1, <1>2, FirstIs DEF TypeOK, NextRow
<1>4. reader'[s] = [at |-> "row", batch |-> B \ {x}]
  BY DEF Yield, TypeOK
<1>5. Range(seen'[s]) = Y \union {x}
  <2>1. seen'[s] = Append(seen[s], x) /\ seen[s] \in Seq(Messages) /\ x \in Messages
    BY <1>2, NextRowType DEF Yield, TypeOK
  <2> QED
    BY <2>1, RangeAppend
<1>6. Leading(log, consumed, B \ {x})
  BY <1>2, HeldLess DEF FeedInv, Held
<1>7. \A i \in 1..Len(log) : log[i] = x => i = k
  BY <1>1, <1>3 DEF FeedInv, IsInjective
<1>8. \A i, j \in DOMAIN log : i < j /\ log[j] \in Y \union {x} => log[i] \in consumed
  <2> SUFFICES ASSUME NEW i \in 1..Len(log), NEW j \in 1..Len(log), i < j,
                      log[j] \in Y \union {x}
               PROVE  log[i] \in consumed
    BY <1>1
  <2>1. CASE log[j] \in Y
    BY <1>1, <1>2, <2>1 DEF FeedInv, Held, Leading
  <2>2. CASE log[j] = x
    <3>1. j = k /\ i \in 1..(k - 1)
      BY <1>7, <2>2
    <3>2. log[i] \notin B /\ log[k] \in B
      BY <1>3, <3>1 DEF IsNext
    <3> QED
      BY <1>1, <3>1, <3>2 DEF FeedInv, Held, Leading
  <2> QED
    BY <2>1, <2>2
<1>9. \A i, j \in DOMAIN log : log[i] \in Y \union {x} /\ log[j] \in B \ {x} => i < j
  BY <1>1, <1>3, <1>7 DEF FeedInv, Held, IsNext
<1>10. log' = log /\ consumed' = consumed
  BY DEF Yield, rows
<1>11. Leading(log, consumed, Y \union {x})
  BY <1>8 DEF Leading
<1> HIDE DEF B, Y, x
<1>12. reader'[s].at = "row" /\ reader'[s].batch = B \ {x}
  BY <1>4
<1>13. x \in Range(log)
  BY <1>1, <1>3 DEF Range
<1>14. \A i, j \in DOMAIN log' : log'[i] \in Range(seen'[s]) /\ log'[j] \in reader'[s].batch => i < j
  BY <1>5, <1>9, <1>10, <1>12
<1> QED
  BY <1>2, <1>5, <1>6, <1>10, <1>11, <1>12, <1>13, <1>14 DEF Held

\* A row that fails to be handed out leaves the batch consumed.
LEMMA HeldFails ==
    ASSUME TypeOK, NEW s \in Readers, FeedInv, reader[s].at = "row",
           UNCHANGED <<log, seen>>, consumed' = consumed \union {NextRow(s)},
           reader'[s] = [reader[s] EXCEPT !.batch = @ \ {NextRow(s)}]
    PROVE  Held(s)'
<1> DEFINE x == NextRow(s)
           B == reader[s].batch
<1>1. reader'[s].at = "row" /\ reader'[s].batch = B \ {x}
  BY DEF TypeOK, Iterators
<1>2. Leading(log, consumed', B \ {x})
  BY HeldLess DEF FeedInv, Held
<1>3. Leading(log, consumed', Range(seen[s]))
  BY DEF FeedInv, Held, Leading
<1> HIDE DEF x
<1> QED
  BY <1>1, <1>2, <1>3 DEF FeedInv, Held, x

\* Only Insert writes to the table and takes an idle message.
LEMMA TableKeeps ==
    ASSUME FeedInv, log' = log,
           \A m \in Messages : publisher'[m] = "idle" => publisher[m] = "idle"
    PROVE  /\ IsInjective(log')
           /\ \A m \in Messages : publisher'[m] = "idle" => m \notin Range(log')
  BY DEF FeedInv

\* Every step keeps the batches behind what was yielded.
LEMMA FeedStep ==
    ASSUME TypeOK, FeedInv, [Next]_vars
    PROVE  FeedInv'
<1> USE DEF rows, vars
<1>0. \A s \in Readers : Held(s)
  BY DEF FeedInv
<1>a. reader \in [Readers -> Iterators] /\ seen \in [Readers -> Seq(Messages)]
  BY DEF TypeOK
<1>1. ASSUME NEW m \in Messages, Insert(m) PROVE FeedInv'
  <2>1. m \notin Range(log)
    BY <1>1 DEF Insert, FeedInv
  <2>2. IsInjective(log')
    BY <1>1, <2>1, InjectiveAppend DEF Insert, FeedInv, TypeOK
  <2>3. \A n \in Messages : publisher'[n] = "idle" => n \notin Range(log')
    <3>1. Range(Append(log, m)) = Range(log) \union {m}
      BY RangeAppend DEF TypeOK
    <3> QED
      BY <1>1, <3>1 DEF Insert, FeedInv, TypeOK
  <2>4. \A s \in Readers : Held(s)'
    BY <1>0, <1>1, <2>1, HeldInsert DEF Insert
  <2> QED
    BY <2>2, <2>3, <2>4 DEF FeedInv
<1>2. ASSUME NEW m \in Messages, Push(m) PROVE FeedInv'
  <2>1. \A s \in Readers : /\ reader'[s].batch = reader[s].batch
                           /\ reader'[s].at = "yield" => reader[s].at = "yield"
    BY <1>2, <1>a DEF Push, Woken, Iterators
  <2>2. \A n \in Messages : publisher'[n] = "idle" => publisher[n] = "idle"
    BY <1>2 DEF Push, TypeOK
  <2> QED
    BY <1>0, <1>2, <2>1, <2>2, HeldKeeps, TableKeeps DEF Push, FeedInv
<1>3. ASSUME NEW m \in Messages, Answer(m) PROVE FeedInv'
  BY <1>0, <1>3, HeldKeeps, TableKeeps DEF Answer, FeedInv
<1>4. ASSUME NEW s \in Readers, Held(s)', UNCHANGED <<log, publisher>>, consumed \subseteq consumed',
             \A q \in Readers : q # s => reader'[q] = reader[q] /\ seen'[q] = seen[q]
      PROVE  FeedInv'
  BY <1>0, <1>4, HeldKeeps, TableKeeps DEF FeedInv
<1>5. ASSUME NEW s \in Readers, Subscribe(s) \/ MarkRow(s) \/ Wait(s) \/ StopReading(s)
      PROVE  FeedInv'
  <2>1. CASE Subscribe(s) \/ Wait(s) \/ StopReading(s)
    <3>1. /\ reader'[s].batch \in {reader[s].batch, {}} /\ reader'[s].at # "yield"
          /\ \A q \in Readers : q # s => reader'[q] = reader[q]
      BY <1>a, <2>1 DEF Subscribe, Wait, StopReading, Stopped, Iterators
    <3>2. UNCHANGED <<log, consumed, publisher, seen>>
      BY <2>1 DEF Subscribe, Wait, StopReading
    <3>3. Held(s)'
      BY <1>0, <3>1, <3>2, HeldKeeps
    <3> QED
      BY <1>4, <3>1, <3>2, <3>3
  <2>2. CASE MarkRow(s)
    <3>1. /\ reader'[s].batch = reader[s].batch /\ reader[s].batch # {}
          /\ \A q \in Readers : q # s => reader'[q] = reader[q]
      BY <1>a, <2>2 DEF MarkRow, Iterators
    <3>2. /\ UNCHANGED <<log, publisher, seen>>
          /\ consumed' = consumed \union {NextRow(s)}
      BY <2>2 DEF MarkRow
    <3>3. Held(s)'
      BY <1>0, <3>1, <3>2 DEF Held, Leading, NextRow
    <3> QED
      BY <1>4, <3>1, <3>2, <3>3
  <2> QED
    BY <1>5, <2>1, <2>2
<1>6. ASSUME NEW s \in Readers, ReadRows(s) PROVE FeedInv'
  <2>1. reader'[s] = [at |-> "row", batch |-> Unconsumed]
    BY <1>6, <1>a DEF ReadRows
  <2>2. Held(s)'
    BY <1>0, <1>6, <2>1, HeldRead DEF ReadRows
  <2> QED
    BY <1>4, <1>6, <2>2 DEF ReadRows
<1>7. ASSUME NEW s \in Readers, MarkFails(s) PROVE FeedInv'
  <2>1. CASE reader' = [reader EXCEPT ![s] = Stopped] /\ UNCHANGED consumed
    <3>1. Held(s)'
      BY <1>0, <1>7, <1>a, <2>1, HeldKeeps DEF MarkFails, Stopped
    <3> QED
      BY <1>4, <1>7, <2>1, <3>1 DEF MarkFails
  <2>2. CASE /\ consumed' = consumed \union {NextRow(s)}
             /\ reader' = [reader EXCEPT ![s].batch = @ \ {NextRow(s)}]
    <3>1. Held(s)'
      BY <1>7, <1>a, <2>2, HeldFails DEF MarkFails
    <3> QED
      BY <1>4, <1>7, <2>2, <3>1 DEF MarkFails
  <2> QED
    BY <1>7, <2>1, <2>2 DEF MarkFails
<1>8. ASSUME NEW s \in Readers, Yield(s) PROVE FeedInv'
  <2>1. Held(s)'
    BY <1>8, HeldYield
  <2> QED
    BY <1>4, <1>8, <2>1 DEF Yield
<1>9. ASSUME NEW c \in Connections, Accept(c) \/ SendNext(c) \/ Timeout(c) \/ PeerLeaves(c)
      PROVE  FeedInv'
  <2>1. UNCHANGED <<log, consumed, publisher, reader, seen>>
    BY <1>9 DEF Accept, SendNext, Timeout, PeerLeaves
  <2> QED
    BY <1>0, <2>1, HeldKeeps, TableKeeps DEF FeedInv
<1>10. CASE Restart
  <2>1. \A s \in Readers : \/ reader'[s] = reader[s]
                           \/ reader'[s].batch = {} /\ reader'[s].at # "yield"
    BY <1>10, <1>a DEF Restart, Stopped
  <2>2. \A m \in Messages : publisher'[m] = "idle" => publisher[m] = "idle"
    BY <1>10 DEF Restart, TypeOK
  <2> QED
    BY <1>0, <1>10, <2>1, <2>2, HeldKeeps, TableKeeps DEF Restart, FeedInv
<1>11. CASE UNCHANGED vars
  BY <1>0, <1>11, HeldKeeps, TableKeeps DEF FeedInv
<1> QED
  BY <1>1, <1>2, <1>3, <1>5, <1>6, <1>7, <1>8, <1>9, <1>10, <1>11 DEF Next, Iterate

------------------------------------------------------------------------------
(* The connections                                                         *)

\* What is true of a registered connection, and of the list.
LEMMA ConnectionStep ==
    ASSUME TypeOK, ListenersAreOpen, ConnectionInv, NoGap, [Next]_vars
    PROVE  ListenersAreOpen' /\ ConnectionInv' /\ NoGap'
<1> USE DEF rows, vars
<1>a. /\ conn \in [Connections -> Sockets] /\ listeners \in Seq(Connections) /\ pushed \in Seq(Messages)
      /\ sent \in [Connections -> [since : Nat, items : Seq(Messages)]]
      /\ Len(pushed) \in Nat
  BY DEF TypeOK
<1>b. Len(pushed) \in Nat /\ \A c \in Connections : sent[c].since \in Nat
  BY <1>a
<1>c. \A c \in Connections : sent[c].items \in Seq(Messages) /\ conn[c].queue \in Seq(Messages)
  BY <1>a DEF Sockets
<1>1. ASSUME UNCHANGED <<listeners, conn, sent, pushed>>
      PROVE  ListenersAreOpen' /\ ConnectionInv' /\ NoGap'
  BY <1>1 DEF ListenersAreOpen, ConnectionInv, NoGap
<1>2. ASSUME NEW m \in Messages, Insert(m) \/ Answer(m)
      PROVE  UNCHANGED <<listeners, conn, sent, pushed>>
  BY <1>2 DEF Insert, Answer
<1>3. ASSUME NEW s \in Readers, Subscribe(s) \/ Iterate(s) \/ StopReading(s)
      PROVE  UNCHANGED <<listeners, conn, sent, pushed>>
  BY <1>3 DEF Subscribe, Iterate, StopReading, ReadRows, MarkRow, MarkFails, Yield, Wait
<1>4. ASSUME NEW m \in Messages, Push(m)
      PROVE  ListenersAreOpen' /\ ConnectionInv' /\ NoGap'
  <2>1. /\ pushed' = Append(pushed, m) /\ Len(pushed') = Len(pushed) + 1
        /\ listeners' = listeners /\ sent' = sent
    BY <1>4, AppendProperties, <1>a DEF Push
  <2>2. \A c \in Connections :
           conn'[c] = IF conn[c].at = "open" THEN [conn[c] EXCEPT !.queue = Append(@, m)] ELSE conn[c]
    BY <1>4 DEF Push, PutToAll, Put, ListenersAreOpen
  <2>3. \A c \in Connections : conn'[c].at = conn[c].at /\ conn'[c].alive = conn[c].alive
    BY <1>a, <2>2 DEF Sockets
  <2>4. ListenersAreOpen'
    BY <2>1, <2>3 DEF ListenersAreOpen
  <2>5. ConnectionInv'
    <3>1. \A c \in Connections : conn[c].at = "new" => conn'[c] = conn[c]
      BY <2>2
    <3> QED
      BY <1>b, <2>1, <2>3, <3>1 DEF ConnectionInv
  <2>6. NoGap'
    <3> SUFFICES ASSUME NEW c \in Connections, conn[c].at = "open", conn[c].alive
                 PROVE  Covers(sent[c].items, conn'[c].queue, pushed', sent[c].since)
      BY <2>1, <2>3 DEF NoGap
    <3> DEFINE a == sent[c].items
               q == conn[c].queue
               k == sent[c].since
    <3>1. a \in Seq(Messages) /\ q \in Seq(Messages) /\ k \in Nat /\ k <= Len(pushed)
      BY <1>b, <1>c DEF ConnectionInv
    <3>2. conn'[c].queue = Append(q, m)
      BY <1>a, <2>2 DEF Sockets
    <3>3. a \o q = SubSeq(pushed, k + 1, Len(pushed))
      BY DEF NoGap, Covers
    <3> HIDE DEF a, q, k
    <3>4. a \o Append(q, m) = Append(a \o q, m)
      BY <3>1, ConcatAppend
    <3>5. SubSeq(pushed', k + 1, Len(pushed')) = Append(SubSeq(pushed, k + 1, Len(pushed)), m)
      BY <1>a, <2>1, <3>1, SubSeqAppend
    <3> QED
      BY <3>2, <3>3, <3>4, <3>5 DEF a, k, Covers
  <2> QED
    BY <2>4, <2>5, <2>6
<1>5. ASSUME NEW c \in Connections, Accept(c)
      PROVE  ListenersAreOpen' /\ ConnectionInv' /\ NoGap'
  <2>1. /\ conn[c] = Fresh /\ sent[c] = Unsent
        /\ listeners' = Append(listeners, c) /\ pushed' = pushed
    BY <1>5 DEF Accept, Register, ConnectionInv
  <2>2. /\ conn'[c].at = "open" /\ conn'[c].queue = << >>
        /\ \A d \in Connections : d # c => conn'[d] = conn[d]
    <3>1. conn[c].queue = << >>
      BY <2>1 DEF Fresh
    <3>2. /\ conn'[c].at = "open" /\ conn'[c].queue = conn[c].queue
          /\ \A d \in Connections : d # c => conn'[d] = conn[d]
      BY <1>5, <1>a DEF Accept, Sockets
    <3> QED
      BY <3>1, <3>2
  <2>3. /\ sent'[c] = [since |-> Len(pushed), items |-> << >>]
        /\ \A d \in Connections : d # c => sent'[d] = sent[d]
    BY <1>5, <1>a, <2>1 DEF Accept, Unsent
  <2>4. c \notin Range(listeners)
    BY <2>1 DEF ListenersAreOpen, Fresh
  <2>5. Range(listeners') = Range(listeners) \union {c} /\ IsInjective(listeners')
    BY <1>a, <2>1, <2>4, RangeAppend, InjectiveAppend DEF ListenersAreOpen
  <2>6. ListenersAreOpen'
    BY <2>2, <2>5 DEF ListenersAreOpen
  <2>7. ConnectionInv'
    BY <1>b, <2>1, <2>2, <2>3 DEF ConnectionInv
  <2>8. NoGap'
    <3>1. Covers(<< >>, << >>, pushed, Len(pushed))
      <4>1. << >> \o << >> = << >>
        BY Empty, ConcatEmptySeq
      <4>2. SubSeq(pushed, Len(pushed) + 1, Len(pushed)) = << >>
        BY <1>b, SubSeqEmpty
      <4> QED
        BY <4>1, <4>2 DEF Covers
    <3> QED
      BY <2>1, <2>2, <2>3, <3>1 DEF NoGap
  <2> QED
    BY <2>6, <2>7, <2>8
<1>6. ASSUME NEW c \in Connections, conn[c].at = "open", Close(c), pushed' = pushed
      PROVE  ListenersAreOpen' /\ ConnectionInv' /\ NoGap'
  <2>1. /\ conn'[c] = Closed /\ sent'[c] = Unsent
        /\ \A d \in Connections : d # c => conn'[d] = conn[d] /\ sent'[d] = sent[d]
    BY <1>6, <1>a DEF Close
  <2>2. Range(listeners') = Range(listeners) \ {c} /\ IsInjective(listeners')
    BY <1>6, <1>a, RangeRemoveFirst DEF Close, Unregister, ListenersAreOpen
  <2>3. ListenersAreOpen'
    BY <2>1, <2>2 DEF ListenersAreOpen, Closed
  <2>4. ConnectionInv'
    BY <1>6, <1>b, <2>1 DEF ConnectionInv, Closed, Unsent
  <2>5. NoGap'
    BY <1>6, <2>1 DEF NoGap, Closed
  <2> QED
    BY <2>3, <2>4, <2>5
<1>7. ASSUME NEW c \in Connections, SendNext(c), ~Close(c)
      PROVE  ListenersAreOpen' /\ ConnectionInv' /\ NoGap'
  <2>1. /\ conn[c].at = "open" /\ conn[c].queue # << >>
        /\ listeners' = listeners /\ pushed' = pushed
    BY <1>7 DEF SendNext
  <2>2. /\ conn'[c] = [conn[c] EXCEPT !.queue = Tail(@)]
        /\ \A d \in Connections : d # c => conn'[d] = conn[d]
    BY <1>7, <1>a DEF SendNext
  <2>3. /\ sent'[c].since = sent[c].since
        /\ conn[c].alive => sent'[c].items = Append(sent[c].items, Head(conn[c].queue))
        /\ \A d \in Connections : d # c => sent'[d] = sent[d]
    BY <1>7, <1>a DEF SendNext
  <2>4. \A d \in Connections : conn'[d].at = conn[d].at /\ conn'[d].alive = conn[d].alive
    <3>1. conn'[c].at = conn[c].at /\ conn'[c].alive = conn[c].alive
      BY <1>a, <2>2 DEF Sockets
    <3> QED
      BY <2>2, <3>1
  <2>5. ListenersAreOpen'
    BY <2>1, <2>4 DEF ListenersAreOpen
  <2>6. ConnectionInv'
    BY <2>1, <2>2, <2>3, <2>4 DEF ConnectionInv
  <2>7. ASSUME conn[c].alive
        PROVE  Covers(sent'[c].items, conn'[c].queue, pushed, sent'[c].since)
    <3> DEFINE a == sent[c].items
               q == conn[c].queue
    <3>1. conn'[c].queue = Tail(q) /\ sent'[c].items = Append(a, Head(q))
      BY <1>a, <2>2, <2>3, <2>7 DEF Sockets
    <3>2. Covers(a, q, pushed, sent[c].since)
      BY <2>1, <2>7 DEF NoGap
    <3>3. a \in Seq(Messages) /\ q \in Seq(Messages) /\ q # << >>
      BY <1>c, <2>1
    <3> HIDE DEF a, q
    <3>4. Append(a, Head(q)) \o Tail(q) = a \o q
      BY <3>3, ConcatMove
    <3> QED
      BY <2>3, <3>1, <3>2, <3>4 DEF Covers
  <2>8. NoGap'
    BY <2>1, <2>2, <2>3, <2>4, <2>7 DEF NoGap
  <2> QED
    BY <2>5, <2>6, <2>8
<1>8. ASSUME NEW c \in Connections, PeerLeaves(c)
      PROVE  ListenersAreOpen' /\ ConnectionInv' /\ NoGap'
  <2>1. /\ UNCHANGED <<listeners, sent, pushed>> /\ conn[c].at = "open"
        /\ conn'[c] = [conn[c] EXCEPT !.alive = FALSE]
        /\ \A d \in Connections : d # c => conn'[d] = conn[d]
    BY <1>8, <1>a DEF PeerLeaves
  <2>2. /\ conn'[c].at = "open" /\ ~conn'[c].alive
    BY <1>a, <2>1 DEF Sockets
  <2> QED
    BY <2>1, <2>2 DEF ListenersAreOpen, ConnectionInv, NoGap
<1>9. CASE Restart
  <2>1. /\ listeners' = << >> /\ pushed' = pushed
        /\ \A c \in Connections : sent'[c] = Unsent /\ conn'[c].at # "open"
        /\ \A c \in Connections : conn'[c].at = "new" => conn'[c] = conn[c]
    BY <1>9, <1>a DEF Restart, Closed, Sockets
  <2>2. Range(<< >>) = {} /\ IsInjective(<< >>)
    BY DEF Range, IsInjective
  <2> QED
    BY <1>b, <2>1, <2>2 DEF ListenersAreOpen, ConnectionInv, NoGap, Unsent
<1>10. ASSUME NEW c \in Connections, Accept(c) \/ SendNext(c) \/ Timeout(c) \/ PeerLeaves(c)
       PROVE  ListenersAreOpen' /\ ConnectionInv' /\ NoGap'
  <2>1. SendNext(c) => conn[c].at = "open" /\ pushed' = pushed
    BY DEF SendNext
  <2>2. Timeout(c) => conn[c].at = "open" /\ Close(c) /\ pushed' = pushed
    BY DEF Timeout
  <2> QED
    BY <1>5, <1>6, <1>7, <1>8, <1>10, <2>1, <2>2
<1>11. CASE UNCHANGED vars
  BY <1>1, <1>11
<1> QED
  BY <1>1, <1>2, <1>3, <1>4, <1>9, <1>10, <1>11 DEF Next

------------------------------------------------------------------------------
(* The theorems                                                            *)

\* The first state is one of the invariant.
LEMMA BusInit == Init => BusInv
<1> SUFFICES ASSUME Init PROVE BusInv
  OBVIOUS
<1> USE DEF Init
<1>1. Range(<< >>) = {} /\ IsInjective(<< >>)
  BY DEF Range, IsInjective
<1>2. TypeOK
  <2>1. Fresh \in Sockets /\ Unsent \in [since : Nat, items : Seq(Messages)]
    BY Empty DEF Sockets, Fresh, Unsent
  <2> QED
    BY <2>1, Empty DEF TypeOK, Iterators, Places
<1>3. ListenersAreOpen
  BY <1>1 DEF ListenersAreOpen, Fresh
<1>4. ConnectionInv /\ NoGap
  BY EmptySeq DEF ConnectionInv, NoGap, Fresh, Unsent
<1>5. FeedInv
  BY <1>1 DEF FeedInv, Held, Leading
<1> QED
  BY <1>2, <1>3, <1>4, <1>5 DEF BusInv

\* Every step keeps it.
LEMMA BusStep == BusInv /\ [Next]_vars => BusInv'
  BY TypeStep, ConnectionStep, FeedStep DEF BusInv

\* The inductive invariant holds in every state.
THEOREM BusInvariant == Spec => []BusInv
  BY BusInit, BusStep, PTL DEF Spec

\* The registered queues are those of the open connections, each once, however
\* connections come, go and are cut off (routes.py:237-241).
THEOREM RegisteredAreOpen == Spec => []ListenersAreOpen
<1>1. BusInv => ListenersAreOpen
  BY DEF BusInv
<1> QED
  BY <1>1, BusInvariant, PTL

\* Whoever listens misses nothing that is pushed while it is connected, and gets
\* nothing twice or out of order (sqlite_bus.py:64-66, routes.py:227).
THEOREM NothingMissed == Spec => []NoGap
<1>1. BusInv => NoGap
  BY DEF BusInv
<1> QED
  BY <1>1, BusInvariant, PTL

\* A step of the bus stores a message, gives an iterator its next one, or is none of
\* the feed's business.
LEMMA FeedMap ==
    ASSUME TypeOK, FeedInv, [Next]_vars
    PROVE  [Feed!Next]_(Feed!vars)
<1> USE DEF rows, vars
<1>0. \A f : Feed!Range(f) = Range(f)
  BY DEF Feed!Range, Range
<1>1. ASSUME NEW m \in Messages, Insert(m) PROVE Feed!Next
  <2>1. Feed!Store(m)
    BY <1>0, <1>1 DEF Insert, FeedInv, Feed!Store
  <2> QED
    BY <2>1 DEF Feed!Next
<1>2. ASSUME NEW s \in Readers, Yield(s) PROVE Feed!Next
  <2>1. DOMAIN log = 1..Len(log)
    BY RangeIs DEF TypeOK
  <2>2. /\ reader[s].batch # {} /\ reader[s].batch \subseteq Range(log)
        /\ Range(seen[s]) \subseteq Range(log)
    BY <1>2 DEF Yield, FeedInv, Held
  <2>3. PICK k \in DOMAIN log : NextRow(s) = log[k] /\ IsNext(k, log, reader[s].batch)
    BY <2>2, FirstIs DEF NextRow, TypeOK
  <2>4. \A i \in DOMAIN log : log[i] \in Range(seen[s]) => i \in 1..(k - 1)
    BY <2>1, <2>3 DEF FeedInv, Held, IsNext
  <2>5. Range(seen[s]) \subseteq {log[j] : j \in 1..(k - 1)}
    BY <2>2, <2>4 DEF Range
  <2>6. Feed!Give(s, k)
    BY <1>0, <1>2, <2>3, <2>5 DEF Yield, Feed!Give
  <2> QED
    BY <2>3, <2>6 DEF Feed!Next
<1>3. ASSUME UNCHANGED <<log, seen>> PROVE UNCHANGED Feed!vars
  BY <1>3 DEF Feed!vars
<1>4. ASSUME NEW m \in Messages, Push(m) \/ Answer(m) PROVE UNCHANGED <<log, seen>>
  BY <1>4 DEF Push, Answer
<1>5. ASSUME NEW s \in Readers,
             Subscribe(s) \/ ReadRows(s) \/ MarkRow(s) \/ MarkFails(s) \/ Wait(s) \/ StopReading(s)
      PROVE  UNCHANGED <<log, seen>>
  BY <1>5 DEF Subscribe, ReadRows, MarkRow, MarkFails, Wait, StopReading
<1>6. ASSUME NEW c \in Connections, Accept(c) \/ SendNext(c) \/ Timeout(c) \/ PeerLeaves(c)
      PROVE  UNCHANGED <<log, seen>>
  BY <1>6 DEF Accept, SendNext, Timeout, PeerLeaves
<1>7. Restart \/ UNCHANGED vars => UNCHANGED <<log, seen>>
  BY DEF Restart
<1> QED
  BY <1>1, <1>2, <1>3, <1>4, <1>5, <1>6, <1>7 DEF Next, Iterate

\* Every iterator is an event feed, whatever callbacks, failing marks and restarts
\* take from it (sqlite_bus.py:90-119).
THEOREM FeedImplemented == Spec => ReadersOnceInOrder
<1>1. Init => Feed!Init
  BY DEF Init, Feed!Init
<1>2. BusInv /\ [Next]_vars => [Feed!Next]_(Feed!vars)
  BY FeedMap DEF BusInv
<1> QED
  BY <1>1, <1>2, BusInvariant, PTL DEF Spec, ReadersOnceInOrder, Feed!Spec

=============================================================================

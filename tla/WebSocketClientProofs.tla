------------------------ MODULE WebSocketClientProofs ------------------------
(***************************************************************************)
(* Proofs, for any number of calls and failures and any delays, that the   *)
(* client leaves nothing open when its calls have returned and that its    *)
(* attempts are as far apart as its failures say.                          *)
(***************************************************************************)
EXTENDS WebSocketClient, Induction

\* Types, and where the open socket belongs.
LEMMA SocketInvariant == WSSpec => []WSInv
<1> USE DEF WSTypeOK
<1>1. WSInit => WSInv
  BY DEF WSInit, WSInv, SocketInv, Listening
<1>2. WSInv /\ [WSNext]_wsVars => WSInv'
  <2> SUFFICES ASSUME WSInv, [WSNext]_wsVars PROVE WSInv'
    OBVIOUS
  <2> USE DEF WSInv, SocketInv, Listening, fields, wsVars
  <2>1. CASE Connect
    BY <2>1 DEF Connect
  <2>2. CASE ConnectOk
    BY <2>2 DEF ConnectOk, ResetDelay
  <2>3. CASE ConnectFail
    BY <2>3 DEF ConnectFail, AfterFailure
  <2>4. CASE Wake
    BY <2>4 DEF Wake, Iterate, Least
  <2>5. CASE Resume
    BY <2>5 DEF Resume, Iterate
  <2>6. CASE ListenStart
    BY <2>6 DEF ListenStart
  <2>7. CASE ListenEnd
    BY <2>7 DEF ListenEnd
  <2>8. CASE Cancelled
    BY <2>8 DEF Cancelled
  <2>9. CASE ServerClose
    BY <2>9 DEF ServerClose
  <2>10. CASE Disconnect
    BY <2>10 DEF Disconnect, CloseOrReset
  <2>11. CASE AfterCancel
    BY <2>11 DEF AfterCancel, CloseOrReset
  <2>12. CASE AfterClose
    BY <2>12 DEF AfterClose
  <2>13. CASE UNCHANGED wsVars
    BY <2>13
  <2> QED
    BY <2>1, <2>2, <2>3, <2>4, <2>5, <2>6, <2>7, <2>8, <2>9, <2>10, <2>11, <2>12, <2>13
       DEF WSNext, Runs
<1> QED
  BY <1>1, <1>2, PTL DEF WSSpec

\* When connect() and disconnect() have returned nothing is open.
THEOREM QuietLeavesNothingOpen == WSSpec => []QuietIsClosed
<1>1. WSInv => QuietIsClosed
  BY DEF WSInv, WSTypeOK, SocketInv, QuietIsClosed, Listening
<1> QED
  BY <1>1, SocketInvariant, PTL

\* The recursive definition of Doubled has a solution.
LEMMA DoubledIs ==
    /\ Doubled \in [Nat -> Nat]
    /\ Doubled[0] = 1
    /\ \A k \in Nat : Doubled[k + 1] = 2 * Doubled[k]
<1> DEFINE twice == [x \in Nat |-> 2 * x]
           F(f) == [k \in Nat |-> IF k = 0 THEN 1 ELSE 2 * f[k - 1]]
<1>1. PICK g \in [Nat -> Nat] : g[0] = 1 /\ \A n \in Nat : g[n + 1] = twice[g[n]]
  <2> DEFINE N == Nat
             one == 1
  <2>1. twice \in [N -> N] /\ one \in N
    OBVIOUS
  <2> HIDE DEF twice, N, one
  <2>2. \E g \in [Nat -> N] : g[0] = one /\ \A n \in Nat : g[n + 1] = twice[g[n]]
    BY <2>1, Repetition
  <2> QED
    BY <2>2 DEF N, one
<1>2. \A n \in Nat : g[n + 1] = 2 * g[n]
  BY <1>1
<1>3. \A k \in Nat : g[k] = IF k = 0 THEN 1 ELSE 2 * g[k - 1]
  <2> SUFFICES ASSUME NEW k \in Nat, k # 0 PROVE g[k] = 2 * g[k - 1]
    BY <1>1
  <2>1. k - 1 \in Nat /\ (k - 1) + 1 = k
    OBVIOUS
  <2> QED
    BY <1>2, <2>1
<1>4. g = F(g)
  BY <1>1, <1>3
<1>5. Doubled = F(Doubled)
  <2> HIDE DEF F
  <2>1. Doubled = CHOOSE f : f = F(f)
    BY DEF Doubled, F
  <2> QED
    BY <1>4, <2>1
<1>6. Doubled = [k \in Nat |-> Doubled[k]]
  BY <1>5
<1>7. Doubled[0] = 1
  BY <1>5
<1>8. ASSUME NEW k \in Nat PROVE Doubled[k + 1] = 2 * Doubled[k]
  <2>1. k + 1 \in Nat /\ k + 1 # 0 /\ (k + 1) - 1 = k
    OBVIOUS
  <2> QED
    BY <1>5, <2>1
<1>9. \A k \in Nat : Doubled[k] \in Nat
  <2> DEFINE S == {k \in Nat : Doubled[k] \in Nat}
  <2>1. 0 \in S /\ \A k \in Nat : k \in S => k + 1 \in S
    BY <1>7, <1>8
  <2> HIDE DEF S
  <2>2. Nat \subseteq S
    BY <2>1, SetInduction
  <2> QED
    BY <2>2 DEF S
<1> QED
  BY <1>6, <1>7, <1>8, <1>9

\* Two delays that agree up to the cap agree when both are doubled.
LEMMA CappedTwice ==
    ASSUME NEW x \in Nat, NEW y \in Nat, NEW m \in Nat, Least(x, m) = Least(y, m)
    PROVE  Least(Least(x * 2, m), m) = Least(2 * y, m)
  BY DEF Least

\* The delay agrees with the failures so far.
LEMMA DelayInvariant == WSSpec => []DelayInv
<1> USE DelayAssumption DEF DelayAssumption
<1>1. WSInit => DelayInv
  BY DEF WSInit, DelayInv
<1>2. DelayInv /\ [WSNext]_wsVars => DelayInv'
  <2> SUFFICES ASSUME DelayInv, [WSNext]_wsVars PROVE DelayInv'
    OBVIOUS
  <2>1. Base * Doubled[0] = Base
    BY DoubledIs
  <2>2. CASE Connect
    BY <2>1, <2>2 DEF Connect, DelayInv, Pause
  <2>3. CASE ConnectOk
    BY <2>1, <2>3 DEF ConnectOk, ResetDelay, DelayInv, Pause
  <2>4. CASE ConnectFail
    <3>1. /\ loop = "connecting" /\ fails \in Nat /\ fails' = fails + 1 /\ delay' = delay
          /\ loop' \in {"idle", "sleeping"} /\ delay \in Nat
      BY <2>4 DEF ConnectFail, AfterFailure, DelayInv
    <3>2. (fails + 1) - 1 = fails
      BY <3>1
    <3>3. Pause' = Least(Base * Doubled[fails' - 1], MaxDelay)
      BY <3>1, <3>2 DEF DelayInv, Pause
    <3> QED
      BY <3>1, <3>3 DEF DelayInv, Backoff
  <2>5. CASE Wake
    <3>1. /\ loop = "sleeping" /\ fails \in Nat /\ fails > 0 /\ fails' = fails /\ delay \in Nat
          /\ delay' = Least(delay * 2, MaxDelay) /\ loop' \in {"idle", "connecting"}
      BY <2>5 DEF Wake, Iterate, DelayInv
    <3>2. fails - 1 \in Nat /\ (fails - 1) + 1 = fails
      BY <3>1
    <3>3. Doubled[fails] = 2 * Doubled[fails - 1] /\ Doubled[fails - 1] \in Nat
      BY <3>2, DoubledIs
    <3> DEFINE y == Base * Doubled[fails - 1]
    <3>4. y \in Nat /\ Base * Doubled[fails] = 2 * y
      BY <3>3
    <3>5. Least(delay, MaxDelay) = Least(y, MaxDelay)
      BY <3>1 DEF DelayInv, Backoff, Pause
    <3> HIDE DEF y
    <3>6. Pause' = Least(Base * Doubled[fails], MaxDelay)
      BY <3>1, <3>4, <3>5, CappedTwice DEF Pause
    <3>7. delay' \in Nat
      BY <3>1 DEF Least
    <3> QED
      BY <3>1, <3>6, <3>7 DEF DelayInv
  <2>6. CASE Resume
    BY <2>6 DEF Resume, Iterate, DelayInv, Pause
  <2>7. CASE UNCHANGED <<loop, delay, fails>>
    BY <2>7 DEF DelayInv, Backoff, Pause
  <2> QED
    BY <2>2, <2>3, <2>4, <2>5, <2>6, <2>7
       DEF WSNext, Runs, ListenStart, ListenEnd, Cancelled, ServerClose, Disconnect, AfterCancel,
           AfterClose, wsVars
<1> QED
  BY <1>1, <1>2, PTL DEF WSSpec

\* Between two attempts the loop sleeps the initial delay, doubled for every failure
\* since the last success and capped, for any delays and any number of failures
\* (websocket_client.py:120, 135, 153, 159).
THEOREM BackoffHolds == WSSpec => []Backoff
<1>1. DelayInv => Backoff
  BY DEF DelayInv, Backoff
<1> QED
  BY <1>1, DelayInvariant, PTL

=============================================================================

----------------------------- MODULE SccdProofs -----------------------------
(***************************************************************************)
(* Proofs about the StorCenter daemon, for any number of clients, packets, *)
(* faults and starts.                                                      *)
(***************************************************************************)
EXTENDS Sccd, FiniteSetTheorems, TLAPS

Packets == State \cup {ResetPacket, AlmostResetPacket}

\* The types, and that nothing leads the controller out of stop once the
\* switch is pressed.
WireInv ==
    /\ w \in State /\ want \in State
    /\ line \in Seq(Packets) /\ tty \in Seq(State)
    /\ cntlr \in [power : Powers \cup {"off"}, led : Leds \cup {Zero}]
    /\ pressed \in BOOLEAN /\ shutdown_called \in BOOLEAN
    /\ cpc \in [Client -> {"idle", "connected", "sent", "cut", "served", "lost", "reset",
                           "direct", "done"}]
    /\ faults \in Nat /\ since \in Nat
    /\ pressed => cntlr.power = "stop"
    /\ ~pressed => since = 0

\* Clients that have used the line.
Users == {c \in Client : cpc[c] \in {"reset", "direct", "done"}}

\* Exchanges that the daemon has begun and not ended.
Open == IF pc \in {"reset", "hello", "wait"} THEN 1 ELSE 0

\* Every packet on the line and every answer not yet read belongs to an
\* exchange under way, to a fault or to a client that has used the line.
LagInv ==
    /\ IsFiniteSet(Users)
    /\ Len(line) + Len(tty) <= Open + faults + Cardinality(Users)

Bound == 1 + faults + Cardinality(Users)

\* Once the switch is pressed only the first n answers can be older than that.
StaleInv ==
    pressed =>
        \E n \in 0..Len(tty) :
            /\ \A i \in 1..Len(tty) : n < i => tty[i].power = "stop"
            /\ n <= Bound
            /\ ~shutdown_called => since + n <= Bound

SccdInv == WireInv /\ LagInv /\ StaleInv /\ Obeyed

LEMMA SccdInit == Init => SccdInv
<1> SUFFICES ASSUME Init PROVE SccdInv
  OBVIOUS
<1>1. WireInv
  <2>1. Defaults \in State /\ Defaults \in [power : Powers \cup {"off"}, led : Leds \cup {Zero}]
    BY DEF State, Defaults, Powers, Leds
  <2>2. \A S : <<>> \in Seq(S)
    OBVIOUS
  <2> QED
    BY <2>1, <2>2 DEF Init, WireInv
<1>2. Users = {}
  BY DEF Init, Users
<1>3. LagInv
  BY <1>2, SccdAssumption, FS_EmptySet DEF Init, LagInv, Open
<1> QED
  BY <1>1, <1>3 DEF Init, StaleInv, Obeyed, SccdInv

-----------------------------------------------------------------------------
(***************************************************************************)
(* The types and what the daemon shows.                                    *)
(***************************************************************************)

\* Merging a packet into two states that agree leaves them in agreement.
LEMMA MergeTypes ==
    ASSUME w \in State, want \in State, NEW p, Valid(Merge(w, p))
    PROVE  Merge(w, p) \in State /\ Merge(want, p) \in State
  BY DEF Merge, Valid, State

LEMMA MergeAgrees ==
    ASSUME NEW p, w.power = want.power, Same(w.led, want.led)
    PROVE  /\ Merge(w, p).power = Merge(want, p).power
           /\ Same(Merge(w, p).led, Merge(want, p).led)
  BY DEF Merge, Same

\* What the controller answers is a state.
LEMMA ObeyTypes ==
    ASSUME WireInv, On, NEW p \in Packets
    PROVE  /\ Obey(p) \in [power : Powers \cup {"off"}, led : Leds \cup {Zero}]
           /\ Obey(p).power # "off" => Reply(p) \in State
           /\ pressed => Obey(p).power = "stop" /\ Reply(p).power = "stop"
<1> USE DEF State, Powers, Leds
<1>1. CASE p = ResetPacket
  BY <1>1 DEF Obey, Reply, ResetPacket, Defaults, WireInv, On
<1>2. CASE p = AlmostResetPacket
  BY <1>2 DEF Obey, Reply, AlmostResetPacket, WireInv, On
<1>3. CASE p \in State
  BY <1>3 DEF Obey, Reply, WireInv
<1> QED
  BY <1>1, <1>2, <1>3 DEF Packets

LEMMA BlinkTypes ==
    ASSUME WireInv, NEW active \in BOOLEAN, Blink(active)
    PROVE  w' \in State
  BY SccdAssumption DEF WireInv, Blink, State, Leds, Powers

LEMMA GoneWire ==
    ASSUME WireInv, Gone, UNCHANGED <<serialVars, cntlrVars>>, faults' \in Nat
    PROVE  WireInv'
  BY DEF WireInv, Gone, serialVars, cntlrVars, State, Defaults, Powers, Leds

LEMMA ReadTypes ==
    ASSUME WireInv, Read
    PROVE  /\ Head(tty) \in State /\ tty' \in Seq(State) /\ tty # <<>>
           /\ Len(tty') = Len(tty) - 1
           /\ \A i \in 1..Len(tty') : tty'[i] = tty[i + 1]
  BY DEF WireInv, Read

LEMMA TimedOutTypes == ASSUME WireInv, TimedOut PROVE faults' \in Nat /\ faults <= faults'
  BY DEF WireInv, TimedOut, Fault

LEMMA DaemonWire == ASSUME WireInv, Daemon PROVE WireInv'
<1> USE DEF WireInv, cntlrVars, serialVars, history, Fault
<1>1. CASE ResetAnswered
  BY <1>1 DEF ResetAnswered, Read, Send, Packets, State, Defaults, Powers, Leds
<1>2. CASE ResetTimeout
  BY <1>2, GoneWire DEF ResetTimeout, TimedOut
<1>3. CASE Hello
  BY <1>3, ReadTypes, TimedOutTypes DEF Hello, TimedOut
<1>4. CASE Accept
  BY <1>4 DEF Accept
<1>5. CASE HandleClnt
  BY <1>5, MergeTypes DEF HandleClnt
<1>6. CASE Refresh
  BY <1>6, BlinkTypes DEF Refresh, Send, Packets
<1>7. CASE RefreshTimeout
  BY <1>7 DEF RefreshTimeout, TimedOut
<1>8. CASE RefreshAnswered
  <2>1. tty' \in Seq(State) /\ faults' \in Nat
    BY <1>8, ReadTypes DEF RefreshAnswered
  <2>3. shutdown_called' \in BOOLEAN
    <3>1. shutdown_called' = TRUE \/ UNCHANGED shutdown_called
      BY <1>8 DEF RefreshAnswered
    <3> QED
      BY <3>1
  <2>2. since' \in Nat /\ (~pressed => since' = 0)
    BY <1>8 DEF RefreshAnswered
  <2> QED
    BY <1>8, <2>1, <2>2, <2>3 DEF RefreshAnswered
<1>9. CASE Exit
  BY <1>9, GoneWire DEF Exit
<1> QED
  BY <1>1, <1>2, <1>3, <1>4, <1>5, <1>6, <1>7, <1>8, <1>9 DEF Daemon

LEMMA ClientWire ==
    ASSUME WireInv, NEW c \in Client, ClientSteps(c) \/ Connect(c) \/ Cut(c) \/ GoDirect(c)
    PROVE  WireInv'
<1> USE DEF WireInv, daemonVars, cntlrVars, serialVars, history, Fault, ClientGoto
<1>1. CASE SendPacket(c) \/ Connect(c) \/ Cut(c)
  BY <1>1 DEF SendPacket, Connect, Cut
<1>2. CASE DirectSend(c)
  <2>1. Merge(Defaults, packet[c]) \in State
    BY SccdAssumption DEF Merge, State, Defaults, Powers, Leds
  <2> QED
    BY <1>2, <2>1 DEF DirectSend, Read, Send, Packets
<1>3. CASE DirectEnds(c)
  BY <1>3, ReadTypes, TimedOutTypes DEF DirectEnds
<1>4. CASE GoDirect(c)
  BY <1>4 DEF GoDirect, Send, Packets
<1> QED
  BY <1>1, <1>2, <1>3, <1>4 DEF ClientSteps

LEMMA OtherWire ==
    ASSUME WireInv, Controller \/ Start \/ Press \/ Term \/ Die \/ UNCHANGED vars
    PROVE  WireInv'
<1> USE DEF WireInv, daemonVars, cntlrVars, serialVars, history, Fault
<1>1. CASE Controller
  <2>1. Head(line) \in Packets
    BY <1>1 DEF Controller
  <2> QED
    BY <1>1, <2>1, ObeyTypes DEF Controller
<1>2. CASE Start
  BY <1>2 DEF Start, Send, Packets
<1>3. CASE Press
  BY <1>3 DEF Press, Powers
<1>4. CASE Term \/ UNCHANGED vars
  BY <1>4 DEF Term, vars
<1>5. CASE Die
  BY <1>5, GoneWire DEF Die
<1> QED
  BY <1>1, <1>2, <1>3, <1>4, <1>5

LEMMA WireNext == WireInv /\ [Next]_vars => WireInv'
  BY DaemonWire, ClientWire, OtherWire DEF Next

\* The daemon's own state only changes with the first answer, with a packet,
\* which changes what is wanted too, and by blinking.
LEMMA ObeyedNext == WireInv /\ Obeyed /\ [Next]_vars => Obeyed'
<1> SUFFICES ASSUME WireInv, Obeyed, [Next]_vars PROVE Obeyed'
  OBVIOUS
<1> USE DEF WireInv, daemonVars, history
<1>1. CASE ResetAnswered \/ Start
  BY <1>1 DEF ResetAnswered, Start, Obeyed
<1>2. CASE ResetTimeout \/ Exit \/ Die
  BY <1>2 DEF ResetTimeout, Exit, Die, Gone, Obeyed
<1>3. CASE Hello
  BY <1>3 DEF Hello, Obeyed, Same
<1>4. CASE HandleClnt
  <2>1. CASE cpc[Head(backlog)] = "sent" /\ Valid(Merge(w, packet[Head(backlog)]))
    BY <1>4, <2>1, MergeAgrees DEF HandleClnt, Obeyed, Same
  <2>2. CASE ~(cpc[Head(backlog)] = "sent" /\ Valid(Merge(w, packet[Head(backlog)])))
    BY <1>4, <2>2 DEF HandleClnt, Obeyed, Same
  <2> QED
    BY <2>1, <2>2
<1>5. CASE Refresh
  <2>1. PICK active \in BOOLEAN : Blink(active)
    BY <1>5 DEF Refresh
  <2>2. want' = want /\ pc \in {"select", "refresh"} /\ pc' = "wait"
    BY <1>5 DEF Refresh
  <2>3. undefined' \/ (w'.power = w.power /\ (undefined' <=> undefined) /\ Same(w.led, w'.led))
    BY <2>1 DEF Blink, Same, State
  <2> QED
    BY <2>2, <2>3 DEF Obeyed, Same
<1>6. CASE Accept \/ RefreshTimeout \/ RefreshAnswered \/ Term \/ Controller \/ Press
           \/ (\E c \in Client : ClientSteps(c) \/ Connect(c) \/ Cut(c) \/ GoDirect(c))
           \/ UNCHANGED vars
  <2>1. UNCHANGED <<w, want, undefined>>
    BY <1>6 DEF Accept, RefreshTimeout, RefreshAnswered, Term, Controller, Press, ClientSteps,
                SendPacket, DirectSend, DirectEnds, Connect, Cut, GoDirect, vars
  <2>2. pc' = pc \/ pc \in {"select", "wait"}
    BY <1>6 DEF Accept, RefreshTimeout, RefreshAnswered, Term, Controller, Press, ClientSteps,
                SendPacket, DirectSend, DirectEnds, Connect, Cut, GoDirect, vars
  <2> QED
    BY <2>1, <2>2 DEF Obeyed, Same
<1> QED
  BY <1>1, <1>2, <1>3, <1>4, <1>5, <1>6 DEF Next, Daemon

-----------------------------------------------------------------------------
(***************************************************************************)
(* How far answers lag behind.                                             *)
(***************************************************************************)

\* A step of one client adds it to those that have used the line or leaves
\* them as they are.
LEMMA UsersStep ==
    ASSUME WireInv, LagInv, NEW c, NEW there,
           cpc' = [cpc EXCEPT ![c] = there],
           there \in {"reset", "direct", "done"} \/ cpc[c] \notin {"reset", "direct", "done"}
    PROVE  /\ IsFiniteSet(Users')
           /\ Cardinality(Users) \in Nat /\ Cardinality(Users') \in Nat
           /\ Cardinality(Users) <= Cardinality(Users')
           /\ there \in {"reset", "direct", "done"} /\ c \in Client
                  /\ cpc[c] \notin {"reset", "direct", "done"} =>
                  Cardinality(Users') = Cardinality(Users) + 1
<1>1. CASE there \in {"reset", "direct", "done"} /\ c \in Client
  <2>1. Users' = Users \cup {c}
    BY <1>1 DEF Users, WireInv
  <2> QED
    <3>1. IsFiniteSet(Users') /\ Cardinality(Users) \in Nat
      BY <2>1, FS_AddElement, FS_CardinalityType DEF LagInv
    <3>2. Cardinality(Users') = IF c \in Users THEN Cardinality(Users) ELSE Cardinality(Users) + 1
      BY <2>1, FS_AddElement DEF LagInv
    <3> QED
      BY <3>1, <3>2 DEF Users
<1>2. CASE ~(there \in {"reset", "direct", "done"} /\ c \in Client)
  <2>1. Users' = Users
    BY <1>2 DEF Users, WireInv
  <2> QED
    BY <1>2, <2>1, FS_CardinalityType DEF LagInv
<1> QED
  BY <1>1, <1>2

LEMMA UsersGone == ASSUME WireInv, Gone PROVE Users' = Users
  BY DEF WireInv, Gone, Users

LEMMA UsersSame == ASSUME UNCHANGED cpc PROVE Users' = Users
  BY DEF Users

LEMMA LagTypes ==
    ASSUME WireInv, LagInv
    PROVE  Cardinality(Users) \in Nat /\ Len(line) \in Nat /\ Len(tty) \in Nat
  BY FS_CardinalityType DEF WireInv, LagInv

LEMMA TimedOutEmpty ==
    ASSUME WireInv, TimedOut
    PROVE  Len(tty) = 0 /\ (faults' = faults + 1 \/ (faults' = faults /\ Len(line) = 0))
  BY DEF WireInv, TimedOut, Fault

LEMMA SendLength ==
    ASSUME WireInv, NEW p, Send(p)
    PROVE  Len(line') = Len(line) + 1
  BY DEF WireInv, Send

LEMMA DaemonLag == ASSUME WireInv, LagInv, Daemon PROVE LagInv'
<1> USE LagTypes DEF WireInv, LagInv, Open, serialVars
<1>1. CASE ResetAnswered
  BY <1>1, ReadTypes, SendLength, UsersSame DEF ResetAnswered
<1>2. CASE ResetTimeout
  <2>1. Users' = Users /\ Open' = 0 /\ Open = 1 /\ UNCHANGED <<line, tty>>
    BY <1>2, UsersGone DEF ResetTimeout, Gone
  <2>2. Len(tty) = 0 /\ (faults' = faults + 1 \/ (faults' = faults /\ Len(line) = 0))
    BY <1>2, TimedOutEmpty DEF ResetTimeout
  <2> QED
    BY <2>1, <2>2
<1>3. CASE Hello
  <2>1. CASE Read /\ UNCHANGED faults
    BY <1>3, <2>1, ReadTypes, UsersSame DEF Hello
  <2>2. CASE TimedOut /\ UNCHANGED tty
    BY <1>3, <2>2, TimedOutEmpty, UsersSame DEF Hello
  <2> QED
    BY <1>3, <2>1, <2>2 DEF Hello
<1>4. CASE Accept
  BY <1>4, UsersSame DEF Accept
<1>5. CASE HandleClnt
  <2>1. IsFiniteSet(Users') /\ Cardinality(Users) <= Cardinality(Users') /\ Cardinality(Users') \in Nat
    <3>1. CASE UNCHANGED cpc
      BY <3>1, UsersSame
    <3>2. CASE cpc' = [cpc EXCEPT ![Head(backlog)] = "served"]
      BY <1>5, <3>2, UsersStep DEF HandleClnt
    <3> QED
      BY <1>5, <3>1, <3>2 DEF HandleClnt
  <2> QED
    BY <1>5, <2>1 DEF HandleClnt
<1>6. CASE Refresh
  BY <1>6, SendLength, UsersSame DEF Refresh
<1>7. CASE RefreshTimeout
  BY <1>7, TimedOutEmpty, UsersSame DEF RefreshTimeout
<1>8. CASE RefreshAnswered
  <2>1. faults' \in Nat /\ faults <= faults'
    BY <1>8 DEF RefreshAnswered, Fault
  <2> QED
    BY <1>8, <2>1, ReadTypes, UsersSame DEF RefreshAnswered
<1>9. CASE Exit
  BY <1>9, UsersGone DEF Exit, Gone
<1> QED
  BY <1>1, <1>2, <1>3, <1>4, <1>5, <1>6, <1>7, <1>8, <1>9 DEF Daemon

LEMMA ClientLag ==
    ASSUME WireInv, LagInv, NEW c \in Client,
           ClientSteps(c) \/ Connect(c) \/ Cut(c) \/ GoDirect(c)
    PROVE  LagInv'
<1> USE LagTypes DEF WireInv, LagInv, Open, serialVars, daemonVars, ClientGoto
<1>1. CASE SendPacket(c) \/ Connect(c) \/ Cut(c)
  <2>1. IsFiniteSet(Users') /\ Cardinality(Users) <= Cardinality(Users') /\ Cardinality(Users') \in Nat
    BY <1>1, UsersStep DEF SendPacket, Connect, Cut
  <2>2. UNCHANGED <<pc, line, tty>> /\ faults' \in Nat /\ faults <= faults'
    BY <1>1 DEF SendPacket, Connect, Cut, Fault
  <2> QED
    BY <2>1, <2>2
<1>2. CASE DirectSend(c)
  <2>1. IsFiniteSet(Users') /\ Cardinality(Users) <= Cardinality(Users') /\ Cardinality(Users') \in Nat
    BY <1>2, UsersStep DEF DirectSend
  <2> QED
    BY <1>2, <2>1, ReadTypes, SendLength DEF DirectSend
<1>3. CASE DirectEnds(c)
  <2>1. IsFiniteSet(Users') /\ Cardinality(Users) <= Cardinality(Users') /\ Cardinality(Users') \in Nat
    BY <1>3, UsersStep DEF DirectEnds
  <2>2. UNCHANGED <<pc, line>> /\ faults' \in Nat /\ faults <= faults' /\ Len(tty') <= Len(tty)
    BY <1>3, ReadTypes, TimedOutTypes DEF DirectEnds
  <2>3. Len(tty') \in Nat
    BY <1>3, ReadTypes DEF DirectEnds
  <2> QED
    BY <2>1, <2>2, <2>3
<1>4. CASE GoDirect(c)
  <2>1. IsFiniteSet(Users') /\ Cardinality(Users') = Cardinality(Users) + 1
    BY <1>4, UsersStep DEF GoDirect
  <2>2. Len(tty') = 0 /\ UNCHANGED <<pc, faults>>
    BY <1>4 DEF GoDirect
  <2> QED
    BY <1>4, <2>1, <2>2, SendLength DEF GoDirect
<1> QED
  BY <1>1, <1>2, <1>3, <1>4 DEF ClientSteps

LEMMA OtherLag ==
    ASSUME WireInv, LagInv, Controller \/ Start \/ Press \/ Term \/ Die \/ UNCHANGED vars
    PROVE  LagInv'
<1> USE LagTypes DEF WireInv, LagInv, Open, serialVars, daemonVars
<1>1. CASE Controller
  <2>1. Len(line') = Len(line) - 1 /\ Len(tty') \in {Len(tty), Len(tty) + 1}
    BY <1>1 DEF Controller
  <2> QED
    BY <1>1, <2>1, UsersSame DEF Controller
<1>2. CASE Start
  <2>1. Len(tty') = 0
    BY <1>2 DEF Start
  <2> QED
    BY <1>2, <2>1, SendLength, UsersSame DEF Start
<1>3. CASE Press \/ Term \/ UNCHANGED vars
  BY <1>3, UsersSame DEF Press, Term, vars
<1>4. CASE Die
  <2>1. Users' = Users /\ Open' = 0 /\ faults' = faults + 1 /\ UNCHANGED <<line, tty>>
    BY <1>4, UsersGone DEF Die, Gone, Fault
  <2> QED
    BY <2>1
<1> QED
  BY <1>1, <1>2, <1>3, <1>4

LEMMA LagNext == WireInv /\ LagInv /\ [Next]_vars => LagInv'
  BY DaemonLag, ClientLag, OtherLag DEF Next

\* A step that reads answers or drops them, and appends none.
LEMMA StaleKeeps ==
    ASSUME WireInv, LagInv, StaleInv, WireInv', LagInv',
           UNCHANGED pressed,
           tty' = tty \/ tty' = <<>> \/ Read,
           faults <= faults', Cardinality(Users) <= Cardinality(Users'),
           since' = 0 \/ (UNCHANGED <<since, shutdown_called>>)
    PROVE  StaleInv'
<1> SUFFICES ASSUME pressed PROVE StaleInv'
  BY DEF StaleInv
<1>0. /\ tty \in Seq(State) /\ tty' \in Seq(State)
      /\ Len(tty) \in Nat /\ Len(tty') \in Nat /\ since \in Nat /\ since' \in Nat
  BY DEF WireInv
<1>1. PICK n \in 0..Len(tty) :
          /\ \A i \in 1..Len(tty) : n < i => tty[i].power = "stop"
          /\ n <= Bound
          /\ ~shutdown_called => since + n <= Bound
  BY DEF StaleInv
<1>2. Bound \in Nat /\ Bound' \in Nat /\ Bound <= Bound'
  <2>1. Cardinality(Users) \in Nat /\ Cardinality(Users') \in Nat
    BY FS_CardinalityType DEF LagInv
  <2>2. faults \in Nat /\ faults' \in Nat
    BY DEF WireInv
  <2>3. Bound = 1 + faults + Cardinality(Users) /\ Bound' = 1 + faults' + Cardinality(Users')
    BY DEF Bound
  <2> QED
    BY <2>1, <2>2, <2>3
<1>3. ASSUME NEW m \in 0..Len(tty'), m <= n,
             \A i \in 1..Len(tty') : m < i => tty'[i].power = "stop"
      PROVE  StaleInv'
  <2>1. n \in Nat /\ m \in Nat
    BY <1>0
  <2>2. m <= Bound'
    BY <1>1, <1>2, <1>3, <2>1
  <2>3. ~shutdown_called' => since' + m <= Bound'
    BY <1>0, <1>1, <1>2, <1>3, <2>1, <2>2
  <2> QED
    BY <1>3, <2>2, <2>3 DEF StaleInv
<1>4. CASE tty' = tty
  BY <1>0, <1>1, <1>3, <1>4
<1>5. CASE tty' = <<>>
  <2>1. Len(tty') = 0
    BY <1>5
  <2>2. 0 \in 0..Len(tty') /\ 0 <= n /\ ~\E i \in 1..Len(tty') : TRUE
    BY <1>0, <2>1
  <2> QED
    BY <1>3, <2>2
<1>6. CASE Read /\ n = 0
  <2>1. \A i \in 1..Len(tty') : i + 1 \in 1..Len(tty) /\ tty'[i] = tty[i + 1]
    BY <1>6, ReadTypes
  <2>2. 0 \in 0..Len(tty')
    BY <1>6, ReadTypes
  <2>3. \A i \in 1..Len(tty') : 0 < i => tty'[i].power = "stop"
    BY <1>1, <1>6, <2>1
  <2> QED
    BY <1>3, <1>6, <2>2, <2>3
<1>7. CASE Read /\ n # 0
  <2>1. \A i \in 1..Len(tty') : i + 1 \in 1..Len(tty) /\ tty'[i] = tty[i + 1]
    BY <1>7, ReadTypes
  <2>2. n - 1 \in 0..Len(tty') /\ n - 1 <= n
    BY <1>7, ReadTypes
  <2>3. \A i \in 1..Len(tty') : n - 1 < i => n < i + 1
    BY <2>2
  <2>4. \A i \in 1..Len(tty') : n - 1 < i => tty'[i].power = "stop"
    BY <1>1, <2>1, <2>3
  <2> QED
    BY <1>3, <2>2, <2>4
<1> QED
  BY <1>4, <1>5, <1>6, <1>7

\* What the daemon reads is an old answer, of which one is left less, or a
\* stop, on which it acts unless there is a fault.
LEMMA RefreshAnsweredStale ==
    ASSUME WireInv, LagInv, StaleInv, WireInv', LagInv', RefreshAnswered
    PROVE  StaleInv'
<1> SUFFICES ASSUME pressed PROVE StaleInv'
  BY DEF StaleInv, RefreshAnswered, cntlrVars
<1> USE DEF WireInv
<1>1. PICK n \in 0..Len(tty) :
          /\ \A i \in 1..Len(tty) : n < i => tty[i].power = "stop"
          /\ n <= Bound
          /\ ~shutdown_called => since + n <= Bound
  BY DEF StaleInv
<1>2. /\ tty # <<>> /\ Head(tty) = tty[1] /\ Len(tty') = Len(tty) - 1 /\ Len(tty) \in Nat
      /\ \A i \in 1..Len(tty') : i + 1 \in 1..Len(tty) /\ tty'[i] = tty[i + 1]
  BY ReadTypes DEF RefreshAnswered
<1>3. Users' = Users /\ Cardinality(Users) \in Nat /\ UNCHANGED pressed
  BY UsersSame, LagTypes DEF RefreshAnswered, cntlrVars
<1>4. CASE n # 0
  <2>0. n \in Nat /\ since \in Nat /\ faults \in Nat /\ faults' \in Nat
    OBVIOUS
  <2>1. n - 1 \in 0..Len(tty') /\ (\A i \in 1..Len(tty') : n - 1 < i => tty'[i].power = "stop")
    BY <1>1, <1>2, <1>4
  <2>2. faults <= faults' /\ (~shutdown_called' => ~shutdown_called /\ since' = since + 1)
    BY DEF RefreshAnswered, Fault
  <2>3. n - 1 <= Bound' /\ (~shutdown_called' => since' + (n - 1) <= Bound')
    <3>1. Bound = 1 + faults + Cardinality(Users) /\ Bound' = 1 + faults' + Cardinality(Users)
      BY <1>3 DEF Bound
    <3> HIDE DEF WireInv
    <3> QED
      BY <1>1, <1>3, <2>0, <2>2, <3>1
  <2> QED
    BY <2>1, <2>3 DEF StaleInv
<1>5. CASE n = 0
  <2>1. 0 \in 0..Len(tty') /\ (\A i \in 1..Len(tty') : 0 < i => tty'[i].power = "stop")
    <3>1. \A j \in 1..Len(tty) : tty[j].power = "stop"
      BY <1>1, <1>2, <1>5
    <3>2. 0 \in 0..Len(tty')
      BY <1>2
    <3> QED
      BY <1>2, <3>1, <3>2
  <2>2. Head(tty).power = "stop"
    BY <1>1, <1>2, <1>5
  <2>3. ~shutdown_called' => ~shutdown_called /\ since' = since + 1 /\ faults' = faults + 1
    BY <2>2 DEF RefreshAnswered, Fault
  <2>4. 0 <= Bound' /\ (~shutdown_called' => since' + 0 <= Bound')
    BY <1>1, <1>3, <1>5, <2>3 DEF Bound
  <2> QED
    BY <2>1, <2>4 DEF StaleInv
<1> QED
  BY <1>4, <1>5

\* Once the switch is pressed every new answer reports a stop.
LEMMA ControllerStale ==
    ASSUME WireInv, LagInv, StaleInv, Controller
    PROVE  StaleInv'
<1> SUFFICES ASSUME pressed PROVE StaleInv'
  BY DEF StaleInv, Controller
<1> USE DEF WireInv
<1>1. PICK n \in 0..Len(tty) :
          /\ \A i \in 1..Len(tty) : n < i => tty[i].power = "stop"
          /\ n <= Bound
          /\ ~shutdown_called => since + n <= Bound
  BY DEF StaleInv
<1>2. Head(line) \in Packets
  BY DEF Controller
<1>3. tty' = Append(tty, Reply(Head(line))) /\ Reply(Head(line)).power = "stop"
  BY <1>2, ObeyTypes DEF Controller
<1>4. /\ Len(tty') = Len(tty) + 1 /\ tty'[Len(tty')].power = "stop" /\ Len(tty) \in Nat
      /\ \A i \in 1..Len(tty) : tty'[i] = tty[i]
  BY <1>3
<1>5. UNCHANGED <<pressed, since, shutdown_called>> /\ Bound' = Bound
  BY UsersSame DEF Controller, Bound, daemonVars, history
<1>6. n \in 0..Len(tty') /\ (\A i \in 1..Len(tty') : n < i => tty'[i].power = "stop")
  BY <1>1, <1>4
<1> QED
  BY <1>1, <1>5, <1>6 DEF StaleInv

\* When it is pressed, all answers may be old.
LEMMA PressStale ==
    ASSUME WireInv, LagInv, Press
    PROVE  StaleInv'
<1>1. UNCHANGED <<tty, shutdown_called, since>> /\ Bound' = Bound /\ since = 0
  BY UsersSame DEF Press, Bound, WireInv, serialVars, daemonVars, history
<1>2. Len(tty) <= Bound /\ Len(tty) \in Nat
  BY LagTypes DEF LagInv, Bound, Open, WireInv
<1>3. Len(tty) \in 0..Len(tty) /\ (\A i \in 1..Len(tty) : Len(tty) < i => tty[i].power = "stop")
  BY <1>2
<1> QED
  BY <1>1, <1>2, <1>3 DEF StaleInv

LEMMA StaleNext ==
    WireInv /\ LagInv /\ StaleInv /\ WireInv' /\ LagInv' /\ [Next]_vars => StaleInv'
<1> SUFFICES ASSUME WireInv, LagInv, StaleInv, WireInv', LagInv', [Next]_vars PROVE StaleInv'
  OBVIOUS
<1> USE LagTypes DEF daemonVars, serialVars, cntlrVars, history, Fault
<1>0. faults \in Nat
  BY DEF WireInv
<1>1. CASE Controller \/ Press \/ RefreshAnswered
  BY <1>1, ControllerStale, PressStale, RefreshAnsweredStale
<1>2. CASE ResetTimeout \/ Exit \/ Die
  <2>1. Gone /\ UNCHANGED <<tty, pressed>> /\ faults <= faults' /\ Users' = Users
    BY <1>0, <1>2, TimedOutTypes, UsersGone DEF ResetTimeout, Exit, Die
  <2>2. since' = 0
    BY <2>1 DEF Gone
  <2> QED
    BY <2>1, <2>2, StaleKeeps
<1>3. CASE HandleClnt
  <2>1. Cardinality(Users) <= Cardinality(Users')
    <3>1. CASE UNCHANGED cpc
      BY <3>1, UsersSame
    <3>2. CASE cpc' = [cpc EXCEPT ![Head(backlog)] = "served"]
      BY <1>3, <3>2, UsersStep DEF HandleClnt
    <3> QED
      BY <1>3, <3>1, <3>2 DEF HandleClnt
  <2> QED
    BY <1>0, <1>3, <2>1, StaleKeeps DEF HandleClnt
<1>4. CASE Hello \/ RefreshTimeout
  <2>1. UNCHANGED <<pressed, since, shutdown_called>> /\ Users' = Users
    BY <1>4, UsersSame DEF Hello, RefreshTimeout
  <2>2. faults <= faults' /\ (tty' = tty \/ Read)
    BY <1>0, <1>4, TimedOutTypes DEF Hello, RefreshTimeout
  <2> QED
    BY <2>1, <2>2, StaleKeeps
<1>5. CASE ResetAnswered \/ Accept \/ Refresh \/ Start \/ Term \/ UNCHANGED vars
  <2>1. UNCHANGED <<pressed, since, shutdown_called, faults>> /\ Users' = Users
    BY <1>5, UsersSame DEF ResetAnswered, Accept, Refresh, Start, Term, vars
  <2>2. tty' = tty \/ tty' = <<>> \/ Read
    BY <1>5 DEF ResetAnswered, Accept, Refresh, Start, Term, vars
  <2> QED
    BY <1>0, <2>1, <2>2, StaleKeeps
<1>6. ASSUME NEW c \in Client, ClientSteps(c) \/ Connect(c) \/ Cut(c) \/ GoDirect(c)
      PROVE  StaleInv'
  <2>1. UNCHANGED <<pressed, since, shutdown_called>> /\ faults <= faults'
    BY <1>0, <1>6, TimedOutTypes
       DEF ClientSteps, SendPacket, DirectSend, DirectEnds, Connect, Cut, GoDirect
  <2>2. tty' = tty \/ tty' = <<>> \/ Read
    BY <1>6 DEF ClientSteps, SendPacket, DirectSend, DirectEnds, Connect, Cut, GoDirect
  <2>3. Cardinality(Users) <= Cardinality(Users')
    BY <1>6, UsersStep
       DEF ClientSteps, SendPacket, DirectSend, DirectEnds, Connect, Cut, GoDirect, ClientGoto
  <2> QED
    BY <2>1, <2>2, <2>3, StaleKeeps
<1> QED
  BY <1>1, <1>2, <1>3, <1>4, <1>5, <1>6 DEF Next, Daemon

LEMMA SccdInvHolds == Spec => []SccdInv
<1>1. SccdInv /\ [Next]_vars => SccdInv'
  BY WireNext, LagNext, StaleNext, ObeyedNext DEF SccdInv
<1> QED
  BY <1>1, SccdInit, PTL DEF Spec

\* What the daemon refreshes the controller with is what its clients have asked
\* for: no answer, late or not, is put into w1 and w2 after the first.
THEOREM ObeyedHolds == Spec => []Obeyed
  BY SccdInvHolds, PTL DEF SccdInv

\* Between the press of the switch and the stop the daemon sees, it reads one
\* answer, and one more for every fault and for every client that has used the
\* line: each leaves at most one answer behind.
THEOREM HaltSoonHolds == Spec => []HaltSoon
<1>1. SccdInv => HaltSoon
  <2> SUFFICES ASSUME SccdInv, pressed, ~shutdown_called
               PROVE  since <= 1 + faults + Cardinality(Users)
    BY DEF HaltSoon, Users
  <2>1. PICK n \in 0..Len(tty) : since + n <= Bound
    BY DEF SccdInv, StaleInv
  <2> QED
    BY <2>1, LagTypes DEF SccdInv, WireInv, Bound
<1> QED
  BY <1>1, SccdInvHolds, PTL
=============================================================================

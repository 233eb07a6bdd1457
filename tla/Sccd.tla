-------------------------------- MODULE Sccd --------------------------------
(***************************************************************************)
(* sccd, the StorCenter control daemon, its clients (scc) and the          *)
(* microcontroller behind the serial line.  Clients send the daemon the    *)
(* fields they want changed; the daemon refreshes the controller twice a   *)
(* second, shows disk activity on the blue LED, and shuts the machine down *)
(* when the controller reports a stop.  A client talks to the controller   *)
(* itself if told to (-d) or if no daemon listens.                         *)
(* Of the packet the model has power and LED; LED rate, fan, temperatures  *)
(* and checksum go along with the LED.  Restart and reset are left out:    *)
(* the daemon treats them as stop, with another program to run.            *)
(***************************************************************************)
EXTENDS Naturals, Sequences, FiniteSets

CONSTANTS
    Client,     \* executions of scc
    Direct,     \* those with -d
    packet,     \* [Client -> the changes it asks for], Zero where a field is not sent
    Zero,       \* a field whose bits are all zero
    Junk,       \* bound: what w1 can be when a saverate that was never set is put into it
    MaxFaults,  \* bound: late answers, failed forks, dead processes
    MaxStarts   \* bound: starts of the daemon

Powers == {"run", "stop", "advstop"}
Leds == {"blue", "blueflash", "red", "redflash"}
State == [power : Powers, led : Leds \cup {Zero}]

\* scc_defaults
Defaults == [power |-> "run", led |-> "red"]

ResetPacket == [power |-> "reset", led |-> Zero]

\* setup_cntlr of scc writes the ID of the host into the first word of the
\* reset packet, where it does not belong: no packet the controller knows.
AlmostResetPacket == [power |-> "unknown", led |-> Zero]

ASSUME SccdAssumption ==
    /\ Direct \subseteq Client
    /\ packet \in [Client -> [power : Powers \cup {Zero}, led : Leds \cup {Zero}]]
    /\ Junk \subseteq State
    /\ MaxFaults \in Nat /\ MaxStarts \in Nat

VARIABLES
    pc,         \* where the daemon is; "down": not running
    w,          \* w1 and w2
    saverate,   \* was the variable set, with a LED rate
    shutdown_called,
    scc_die,    \* a signal asked the daemon to end
    backlog,    \* connections: the one being served first, then those that wait
    cpc,        \* [Client -> where it is]
    line,       \* packets on their way to the controller
    tty,        \* answers nobody has read yet
    cntlr,      \* what the controller does
    pressed,    \* the power switch was pressed
    faults, starts,
    want,       \* history: the first state with what clients have asked for since
    since,      \* history: refreshes answered since the switch was pressed
    undefined   \* history: saverate was used before it was set

daemonVars == <<pc, w, saverate, shutdown_called, scc_die>>
serialVars == <<line, tty>>
cntlrVars == <<cntlr, pressed>>
history == <<want, since, undefined>>
vars == <<daemonVars, backlog, serialVars, cpc, cntlrVars, faults, starts, history>>

\* Without power everything stops; guards at the points where a round, a
\* client or the controller begins something are enough.
On == cntlr.power # "off"

Fault == faults < MaxFaults /\ faults' = faults + 1

Init ==
    /\ pc = "down"
    /\ w = Defaults
    /\ saverate = FALSE
    /\ shutdown_called = FALSE
    /\ scc_die = FALSE
    /\ backlog = <<>>
    /\ cpc = [c \in Client |-> "idle"]
    /\ line = <<>>
    /\ tty = <<>>
    /\ cntlr = Defaults
    /\ pressed = FALSE
    /\ faults = 0
    /\ starts = 0
    /\ want = Defaults
    /\ since = 0
    /\ undefined = FALSE

Send(p) == line' = Append(line, p)

\* sendrecv reads what comes first: after a time-out that is the answer to
\* an older packet.
Read == tty # <<>> /\ tty' = Tail(tty)

\* Mutant: the time-out is shorter than the controller takes.
TimedOutEarly == tty = <<>> /\ UNCHANGED faults

\* No answer within a second.  It is still to come (a fault) unless it was
\* flushed or read by somebody else.
TimedOut ==
    /\ tty = <<>>
    /\ IF line = <<>> THEN UNCHANGED faults ELSE Fault

-----------------------------------------------------------------------------
(* The daemon. *)

Listening == pc \notin {"down", "reset"}

\* main, setup_cntlr: input is flushed and the controller reset.
Start ==
    /\ On
    /\ pc = "down"
    /\ starts < MaxStarts
    /\ starts' = starts + 1
    /\ tty' = <<>>
    /\ Send(ResetPacket)
    /\ pc' = "reset"
    /\ UNCHANGED <<w, saverate, shutdown_called, scc_die, backlog, cpc, cntlrVars, faults,
                   history>>

\* The end of the process: its memory is gone, and those who wait on its
\* socket are turned away.
Gone ==
    /\ pc' = "down"
    /\ w' = Defaults /\ saverate' = FALSE /\ shutdown_called' = FALSE /\ scc_die' = FALSE
    /\ want' = Defaults /\ since' = 0 /\ undefined' = FALSE
    /\ backlog' = <<>>
    /\ cpc' = [c \in Client |-> IF cpc[c] \in {"connected", "sent"} THEN "lost" ELSE cpc[c]]

ResetAnswered ==
    /\ pc = "reset"
    /\ Read
    /\ w' = [Defaults EXCEPT !.led = "redflash"]
    /\ Send(w')
    /\ pc' = "hello"
    /\ UNCHANGED <<saverate, shutdown_called, scc_die, backlog, cpc, cntlrVars, faults,
                   starts, history>>

\* Without an answer to the reset there is no daemon.
ResetTimeout ==
    /\ pc = "reset"
    /\ TimedOut
    /\ Gone
    /\ UNCHANGED <<serialVars, cntlrVars, starts>>

\* The first refresh passes w1 and w2 themselves: the answer replaces them.
Hello ==
    /\ pc = "hello"
    /\ \/ Read /\ w' = Head(tty) /\ UNCHANGED faults
       \/ TimedOut /\ UNCHANGED <<w, tty>>
    /\ want' = w'
    /\ pc' = "select"
    /\ UNCHANGED <<saverate, shutdown_called, scc_die, backlog, cpc, line, cntlrVars, starts,
                   since, undefined>>

\* accept; recv then waits for the packet of the client or its end.
Accept ==
    /\ pc = "select"
    /\ On
    /\ ~scc_die
    /\ backlog # <<>>
    /\ pc' = "recv"
    /\ UNCHANGED <<w, saverate, shutdown_called, scc_die, backlog, cpc, serialVars, cntlrVars,
                   faults, starts, history>>

\* Fields that are not zero are put into the state.
Merge(s, p) ==
    [power |-> IF p.power = Zero THEN s.power ELSE p.power,
     led   |-> IF p.led = Zero THEN s.led ELSE p.led]

\* scc_validate: a state that does not exist is refused.
Valid(s) == s.power \in Powers /\ s.led \in Leds

\* Mutant: recv is repeated until there is a packet.
HandleClntInsists ==
    LET c == Head(backlog)
        new == Merge(w, packet[c]) IN
    /\ pc = "recv"
    /\ cpc[c] = "sent"
    /\ backlog' = Tail(backlog)
    /\ IF Valid(new)
       THEN pc' = "refresh" /\ w' = new /\ want' = Merge(want, packet[c])
            /\ cpc' = [cpc EXCEPT ![c] = "served"]
       ELSE pc' = "select" /\ UNCHANGED <<w, want, cpc>>
    /\ UNCHANGED <<saverate, shutdown_called, scc_die, serialVars, cntlrVars, faults, starts,
                   since, undefined>>

\* handle_clnt.  After an error the refresh is skipped.
HandleClnt ==
    LET c == Head(backlog)
        new == Merge(w, packet[c]) IN
    /\ pc = "recv"
    /\ cpc[c] \in {"sent", "cut"}
    /\ backlog' = Tail(backlog)
    /\ IF cpc[c] = "sent" /\ Valid(new)
       THEN pc' = "refresh" /\ w' = new /\ want' = Merge(want, packet[c])
            /\ cpc' = [cpc EXCEPT ![c] = "served"]
       ELSE pc' = "select" /\ UNCHANGED <<w, want, cpc>>
    /\ UNCHANGED <<saverate, shutdown_called, scc_die, serialVars, cntlrVars, faults, starts,
                   since, undefined>>

\* The blinking for disk activity.  scc_setval does not mask its value, so
\* that a saverate that was never set turns w1 into anything (Junk).
Blink(active) ==
    CASE active /\ w.led = "blue" ->
            /\ saverate' = TRUE
            /\ w' = [w EXCEPT !.led = "blueflash"]
            /\ UNCHANGED undefined
      [] ~active /\ w.led = "blueflash" ->
            /\ IF saverate
               THEN w' = [w EXCEPT !.led = "blue"] /\ UNCHANGED undefined
               ELSE w' \in Junk /\ undefined' = TRUE
            /\ UNCHANGED saverate
      [] OTHER -> UNCHANGED <<w, saverate, undefined>>

\* Mutant: the controller is told of changes only.
RefreshChanged ==
    /\ pc = "refresh" \/ (pc = "select" /\ On /\ ~scc_die /\ backlog = <<>>)
    /\ \E active \in BOOLEAN : Blink(active)
    /\ IF pc = "refresh" \/ w' # w
       THEN Send(w') /\ pc' = "wait"
       ELSE UNCHANGED line /\ pc' = "select"
    /\ UNCHANGED <<shutdown_called, scc_die, backlog, cpc, tty, cntlrVars, faults, starts, want, since>>

\* After a request or half a second without one, copies of w1 and w2 are
\* sent.
Refresh ==
    /\ pc = "refresh" \/ (pc = "select" /\ On /\ ~scc_die /\ backlog = <<>>)
    /\ \E active \in BOOLEAN : Blink(active)
    /\ Send(w')
    /\ pc' = "wait"
    /\ UNCHANGED <<shutdown_called, scc_die, backlog, cpc, tty, cntlrVars, faults, starts, want, since>>

RefreshTimeout ==
    /\ pc = "wait"
    /\ TimedOut
    /\ pc' = "select"
    /\ UNCHANGED <<w, saverate, shutdown_called, scc_die, backlog, cpc, serialVars, cntlrVars,
                   starts, history>>

\* Mutant: the variables of the daemon are passed instead of copies.
RefreshAnsweredInto ==
    /\ pc = "wait"
    /\ Read
    /\ w' = Head(tty)
    /\ IF Head(tty).power = "stop" /\ ~shutdown_called
       THEN shutdown_called' = TRUE
       ELSE UNCHANGED shutdown_called
    /\ since' = IF pressed /\ ~shutdown_called' THEN since + 1 ELSE 0
    /\ pc' = "select"
    /\ UNCHANGED <<saverate, scc_die, backlog, cpc, line, cntlrVars, faults, starts, want,
                   undefined>>

\* A stop is acted upon once; if the fork fails, at the next refresh.
RefreshAnswered ==
    /\ pc = "wait"
    /\ Read
    /\ IF Head(tty).power = "stop" /\ ~shutdown_called
       THEN \/ shutdown_called' = TRUE /\ UNCHANGED faults
            \/ Fault /\ UNCHANGED shutdown_called
       ELSE UNCHANGED <<shutdown_called, faults>>
    /\ since' = IF pressed /\ ~shutdown_called' THEN since + 1 ELSE 0
    /\ pc' = "select"
    /\ UNCHANGED <<w, saverate, scc_die, backlog, cpc, line, cntlrVars, starts, want, undefined>>

\* SIGTERM or SIGQUIT outside a select; work_loop looks at scc_die
\* between two rounds.
Term ==
    /\ pc \in {"select", "recv", "refresh"}
    /\ starts < MaxStarts
    /\ scc_die' = TRUE
    /\ UNCHANGED <<pc, w, saverate, shutdown_called, backlog, cpc, serialVars, cntlrVars,
                   faults, starts, history>>

Exit ==
    /\ pc = "select"
    /\ scc_die
    /\ Gone
    /\ UNCHANGED <<serialVars, cntlrVars, faults, starts>>

\* A signal that interrupts a select, which fails then (an answer stays
\* unread), or that kills.
Die ==
    /\ pc # "down"
    /\ starts < MaxStarts
    /\ Fault
    /\ Gone
    /\ UNCHANGED <<serialVars, cntlrVars, starts>>

-----------------------------------------------------------------------------
(* scc *)

ClientGoto(c, there) == cpc' = [cpc EXCEPT ![c] = there]

Connect(c) ==
    /\ On
    /\ cpc[c] = "idle"
    /\ c \notin Direct
    /\ Listening
    /\ backlog' = Append(backlog, c)
    /\ ClientGoto(c, "connected")
    /\ UNCHANGED <<daemonVars, serialVars, cntlrVars, faults, starts, history>>

SendPacket(c) ==
    /\ cpc[c] = "connected"
    /\ ClientGoto(c, "sent")
    /\ UNCHANGED <<daemonVars, backlog, serialVars, cntlrVars, faults, starts, history>>

\* The client is killed before it sends.
Cut(c) ==
    /\ cpc[c] = "connected"
    /\ Fault
    /\ ClientGoto(c, "cut")
    /\ UNCHANGED <<daemonVars, backlog, serialVars, cntlrVars, starts, history>>

\* setup_cntlr of the client, also while the daemon uses the line.
GoDirect(c) ==
    /\ On
    /\ cpc[c] = "idle"
    /\ c \in Direct \/ ~Listening
    /\ tty' = <<>>
    /\ Send(AlmostResetPacket)
    /\ ClientGoto(c, "reset")
    /\ UNCHANGED <<daemonVars, backlog, cntlrVars, faults, starts, history>>

\* The defaults with the arguments of the command line.
DirectSend(c) ==
    /\ cpc[c] = "reset"
    /\ Read
    /\ Send(Merge(Defaults, packet[c]))
    /\ ClientGoto(c, "direct")
    /\ UNCHANGED <<daemonVars, backlog, cntlrVars, faults, starts, history>>

DirectEnds(c) ==
    /\ \/ cpc[c] = "direct" /\ Read /\ UNCHANGED faults
       \/ cpc[c] \in {"reset", "direct"} /\ TimedOut /\ UNCHANGED tty
    /\ ClientGoto(c, "done")
    /\ UNCHANGED <<daemonVars, backlog, line, cntlrVars, starts, history>>

-----------------------------------------------------------------------------
(* The controller, as src/recipes/sccd/files/README describes it. *)

\* What it does not know it answers with its state, like a null packet;
\* "stop" from the host turns the power off; an advice is confirmed by
\* reporting stop; after the switch nothing leads out of stop.
Obey(p) ==
    CASE p.power = "unknown" -> cntlr
      [] p.power = "reset" -> IF pressed THEN cntlr ELSE Defaults
      [] p.power = "stop" /\ ~pressed -> [p EXCEPT !.power = "off"]
      [] p.power = "advstop" -> [p EXCEPT !.power = "stop", !.led = "redflash"]
      [] OTHER -> IF pressed THEN [p EXCEPT !.power = "stop"] ELSE p

Reply(p) == IF p.power = "reset" /\ ~pressed THEN [power |-> "run", led |-> Zero] ELSE Obey(p)

Controller ==
    /\ On
    /\ line # <<>>
    /\ cntlr' = Obey(Head(line))
    /\ tty' = IF cntlr'.power = "off" THEN tty ELSE Append(tty, Reply(Head(line)))
    /\ line' = Tail(line)
    /\ UNCHANGED <<daemonVars, backlog, cpc, pressed, faults, starts, history>>

Press ==
    /\ On
    /\ ~pressed
    /\ pressed' = TRUE
    /\ cntlr' = [cntlr EXCEPT !.power = "stop"]
    /\ UNCHANGED <<daemonVars, backlog, cpc, serialVars, faults, starts, history>>
-----------------------------------------------------------------------------

Daemon ==
    \/ ResetAnswered \/ ResetTimeout \/ Hello \/ Accept \/ HandleClnt
    \/ Refresh \/ RefreshTimeout \/ RefreshAnswered \/ Exit

ClientSteps(c) == SendPacket(c) \/ DirectSend(c) \/ DirectEnds(c)

Next ==
    \/ Daemon \/ Controller \/ Start \/ Press \/ Term \/ Die
    \/ \E c \in Client : ClientSteps(c) \/ Connect(c) \/ Cut(c) \/ GoDirect(c)

Spec == Init /\ [][Next]_vars

\* The daemon runs, the controller answers in the end, and a client that has
\* begun goes on.
FairSpec ==
    /\ Spec
    /\ WF_vars(Daemon) /\ WF_vars(Controller)
    /\ \A c \in Client : WF_vars(ClientSteps(c))

-----------------------------------------------------------------------------
TypeOK ==
    /\ pc \in {"down", "reset", "hello", "select", "recv", "refresh", "wait"}
    /\ w \in State /\ want \in State
    /\ saverate \in BOOLEAN /\ shutdown_called \in BOOLEAN /\ scc_die \in BOOLEAN /\ undefined \in BOOLEAN
    /\ backlog \in Seq(Client)
    /\ cpc \in [Client -> {"idle", "connected", "sent", "cut", "served", "lost", "reset", "direct", "done"}]
    /\ line \in Seq(State \cup {ResetPacket, AlmostResetPacket})
    /\ tty \in Seq(State)
    /\ cntlr.power \in Powers \cup {"off"} /\ pressed \in BOOLEAN
    /\ faults \in 0..MaxFaults /\ starts \in 0..MaxStarts

\* The state the daemon refreshes the controller with is the first answer
\* with what its clients have asked for since, apart from the blinking of the
\* blue LED: an answer, late or not, is never taken over.
Same(a, b) == a = b \/ {a, b} \subseteq {"blue", "blueflash"}
Obeyed ==
    ~undefined /\ pc \in {"select", "recv", "refresh", "wait"}
        => w.power = want.power /\ Same(w.led, want.led)

\* From the press of the switch the daemon reads at most one answer, and one
\* per fault and per client that used the line, before it sees the stop: how
\* far answers lag behind is bounded by what went wrong.
HaltSoon ==
    pc = "select" /\ pressed /\ ~shutdown_called
        => since <= 1 + faults + Cardinality({c \in Client : cpc[c] \in {"reset", "direct", "done"}})

\* The switch is seen in the end, by the daemon that runs.
SwitchHalts == pressed ~> (shutdown_called \/ pc = "down" \/ ~On)

\* While a daemon stays up and the machine on, the controller shows in the
\* end what the daemon wants shown, apart from the blinking, whatever clients
\* that use the line themselves have told it.
Shown == <>[](pc # "down" /\ cntlr.power = "run") => <>[]Same(cntlr.led, w.led)

\* Only a client asks for another power state than run.
ClientsAlone ==
    pc # "down" /\ w.power # "run"
        => \E c \in Client : cpc[c] = "served" /\ packet[c].power = w.power
=============================================================================

--------------------------- MODULE InputArbitration ---------------------------
(* Who may type: the relay's lease for browsers, agents and the keyboard at   *)
(* the machine (worker/index.ts), and the host's window before an agent's     *)
(* text (cmd/shell/session_unix.go).  Both measure what has passed since, and *)
(* neither sees what is under way to the other; one clock serves for both.    *)
EXTENDS Naturals, Sequences

CONSTANTS Typists,   \* browsers' sockets; who comes back has another
          Agent,
          Lease,     \* TYPING_LEASE_MS: 1800
          Refresh,   \* a lease is written again after this long: 400
          Window,    \* mcpTypingWindow: 250
          MaxTime, MaxFrames   \* bounds: the clock, the inputs forwarded

ArbitrationAssumption ==
  /\ Agent \notin Typists
  /\ {Lease, Refresh, Window, MaxTime, MaxFrames} \subseteq Nat
  /\ 0 < Refresh /\ Refresh <= Lease

VARIABLES
  now,
  seat,      \* [Typists -> "new", "in", "left"]: the browser's socket
  typingAt,  \* [Typists -> time]: in the socket's attachment, 0 for never
  hostOpen,    \* a host's socket is open
  localAt,   \* localTypingAt in its attachment, 0 for never
  notice,    \* a local_typing message is under way
  sealing,   \* an agent's send has passed mcpArbitrationBlocked and awaits its cipher
  inputs,    \* inputs under way to the host: who sent them, when they were forwarded
  typed,     \* history: the inputs the program was given
  wroteAt,   \* lastHumanWrite, 0 for never
  heardAt,   \* history: when the relay last heard of the keyboard over this socket, 0 for never
  sinceLocal \* history: how long before the last input was forwarded that was

arbitrationVars == <<now, seat, typingAt, hostOpen, localAt, notice, sealing, inputs, typed, wroteAt,
                     heardAt, sinceLocal>>
Leases == <<seat, typingAt, hostOpen, localAt>>

\* The clock begins late enough that what never was is long ago.
ArbitrationInit ==
  /\ now = Lease
  /\ seat = [v \in Typists |-> "new"]
  /\ typingAt = [v \in Typists |-> 0]
  /\ hostOpen = TRUE /\ localAt = 0 /\ notice = FALSE
  /\ sealing = FALSE
  /\ inputs = <<>> /\ typed = <<>>
  /\ wroteAt = 0
  /\ heardAt = 0 /\ sinceLocal = Lease

Tick ==
  /\ now < MaxTime
  /\ now' = now + 1
  /\ UNCHANGED <<Leases, notice, sealing, inputs, typed, wroteAt, heardAt, sinceLocal>>

------------------------------------------------------------------------------
(* The relay.                                                                 *)

LocalActive   == hostOpen /\ now - localAt < Lease
Active(v)     == seat[v] = "in" /\ now - typingAt[v] < Lease
HumanTyping   == LocalActive \/ \E v \in Typists : Active(v)

\* claimInputLease: whether v may type, and what it writes.  No two are active at once, so the most
\* recent, whom the code looks at, is the only one.
MayType(v) == ~LocalActive /\ \A w \in Typists \ {v} : ~Active(w)
Renewed(v) == IF now - typingAt[v] < Refresh THEN typingAt ELSE [typingAt EXCEPT ![v] = now]

\* broadcastBinary: to the host's socket, if there is one
Pass(who) ==
  /\ Len(typed \o inputs) < MaxFrames
  /\ inputs' = IF hostOpen THEN Append(inputs, [who |-> who, at |-> now]) ELSE inputs
  /\ sinceLocal' = IF heardAt = 0 THEN Lease ELSE now - heardAt

\* A browser's input, or its confirmed end of file.
Input(v) ==
  /\ seat[v] = "in" /\ MayType(v)
  /\ typingAt' = Renewed(v)
  /\ Pass(v)
  /\ UNCHANGED <<now, seat, hostOpen, localAt, notice, sealing, typed, wroteAt, heardAt>>

\* "typing": it only claims.
Typing(v) ==
  /\ seat[v] = "in" /\ MayType(v)
  /\ typingAt' = Renewed(v)
  /\ UNCHANGED <<now, seat, hostOpen, localAt, notice, sealing, inputs, typed, wroteAt, heardAt, sinceLocal>>

Come(v) ==
  /\ seat[v] = "new"
  /\ seat' = [seat EXCEPT ![v] = "in"]
  /\ UNCHANGED <<now, typingAt, hostOpen, localAt, notice, sealing, inputs, typed, wroteAt, heardAt, sinceLocal>>

\* Its lease goes with the socket's attachment.
Go(v) ==
  /\ seat[v] = "in"
  /\ seat' = [seat EXCEPT ![v] = "left"]
  /\ typingAt' = [typingAt EXCEPT ![v] = 0]
  /\ UNCHANGED <<now, hostOpen, localAt, notice, sealing, inputs, typed, wroteAt, heardAt, sinceLocal>>

\* local_typing
Hear ==
  /\ hostOpen /\ notice
  /\ notice' = FALSE
  /\ localAt' = IF now - localAt < Refresh THEN localAt ELSE now
  /\ heardAt' = now
  /\ UNCHANGED <<now, seat, typingAt, hostOpen, sealing, inputs, typed, wroteAt, sinceLocal>>

\* shell_send: mcpArbitrationBlocked, before the operation is claimed.
AgentAsks ==
  /\ ~sealing /\ ~HumanTyping
  /\ sealing' = TRUE
  /\ UNCHANGED <<now, Leases, notice, inputs, typed, wroteAt, heardAt, sinceLocal>>

\* Mutant: only the host is looked for again.
DispatchUnguarded ==
  /\ sealing
  /\ sealing' = FALSE
  /\ IF hostOpen THEN Pass(Agent) ELSE UNCHANGED <<inputs, sinceLocal>>
  /\ UNCHANGED <<now, Leases, notice, typed, wroteAt, heardAt>>

\* mcpDispatchSend, after the frame was sealed: human priority at the final guard.
Dispatch ==
  /\ sealing
  /\ sealing' = FALSE
  /\ IF hostOpen /\ ~HumanTyping THEN Pass(Agent) ELSE UNCHANGED <<inputs, sinceLocal>>
  /\ UNCHANGED <<now, Leases, notice, typed, wroteAt, heardAt>>

------------------------------------------------------------------------------
(* The host.                                                                  *)

\* notifyLocalTyping, before what an attached terminal's user types is written.  That it does so every
\* 650 ms at most is left out: nothing here depends on how rarely the relay hears of it.
Notify ==
  /\ ~notice
  /\ notice' = TRUE
  /\ UNCHANGED <<now, Leases, sealing, inputs, typed, wroteAt, heardAt, sinceLocal>>

\* humanWrite, from an attached terminal or from the one the session runs in, which tells nobody
LocalWrite ==
  /\ wroteAt' = now
  /\ UNCHANGED <<now, Leases, notice, sealing, inputs, typed, heardAt, sinceLocal>>

\* mcpWrite: nobody wrote within the window
Quiet == wroteAt = 0 \/ now - wroteAt >= Window

\* readRelay: humanWrite for a browser; an agent's text is written or refused, never queued.
TakeInput ==
  /\ inputs # <<>>
  /\ inputs' = Tail(inputs)
  /\ LET f == Head(inputs)
     IN  /\ typed' = IF f.who # Agent \/ Quiet THEN Append(typed, f) ELSE typed
         /\ wroteAt' = IF f.who # Agent THEN now ELSE wroteAt
  /\ UNCHANGED <<now, Leases, notice, sealing, heardAt, sinceLocal>>

\* The host's socket breaks: a prefix of what was sent to it still arrives, its attachment is gone.
Disconnect ==
  /\ hostOpen
  /\ hostOpen' = FALSE /\ localAt' = 0 /\ heardAt' = 0
  /\ notice' \in {notice, FALSE}
  /\ \E n \in 0..Len(inputs) : inputs' = SubSeq(inputs, 1, n)
  /\ UNCHANGED <<now, seat, typingAt, sealing, typed, wroteAt, sinceLocal>>

Connect ==
  /\ ~hostOpen
  /\ hostOpen' = TRUE
  /\ UNCHANGED <<now, seat, typingAt, localAt, notice, sealing, inputs, typed, wroteAt, heardAt, sinceLocal>>

ArbitrationNext ==
  \/ Tick \/ Hear \/ AgentAsks \/ Dispatch \/ Notify \/ LocalWrite \/ TakeInput \/ Disconnect \/ Connect
  \/ \E v \in Typists : Input(v) \/ Typing(v) \/ Come(v) \/ Go(v)

ArbitrationSpec == ArbitrationInit /\ [][ArbitrationNext]_arbitrationVars

------------------------------------------------------------------------------
(* Properties.                                                                *)

ArbitrationTypeOK ==
  /\ now \in Nat
  /\ seat \in [Typists -> {"new", "in", "left"}]
  /\ typingAt \in [Typists -> Nat]
  /\ {hostOpen, notice, sealing} \subseteq BOOLEAN
  /\ inputs \in Seq([who : Typists \cup {Agent}, at : Nat])
  /\ typed \in Seq([who : Typists \cup {Agent}, at : Nat])
  /\ {localAt, wroteAt, heardAt, sinceLocal} \subseteq Nat

\* "local host > browser human > one MCP writer" (worker/index.ts:2148): what a browser's user types
\* reaches the program uncut.  Nothing another browser or an agent typed comes between two of its
\* inputs, unless more than a lease less the time after which it is renewed passed between them,
\* whatever was delayed, lost with a socket or refused by the host's window.  And nobody types from
\* afar so soon after the relay heard of the machine's own keyboard.
OneTypist ==
  /\ LET line == typed \o inputs
     IN  \A i, j, k \in DOMAIN line :
           i < j /\ j < k /\ line[i].who = line[k].who /\ line[j].who # line[i].who /\ line[i].who # Agent
             => line[k].at - line[i].at > Lease - Refresh
  /\ sinceLocal > Lease - Refresh
===============================================================================

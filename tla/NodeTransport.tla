---------------------------- MODULE NodeTransport ----------------------------
(***************************************************************************)
(* The channels of the Node transport (node-transport.ts): one service per *)
(* validator. A pinned validator's channel is built on first use, by calls *)
(* that wait together on one build (`serviceReady`). A channel is replaced *)
(* or dropped after a call failed to reach the server                      *)
(* (`renewAfterConnectionFailure`), and `close` closes all.                *)
(*                                                                         *)
(* The code is single-threaded and suspends at every await, so one action  *)
(* is one synchronous stretch. Channels are numbered in the order in which *)
(* their construction began; a build is named by the channel it makes.     *)
(***************************************************************************)
EXTENDS Naturals

CONSTANTS
    Validators,
    NoValidator,
    Pinned,       \* the validators whose connection is pinned
    Calls,        \* the calls of `unary`
    MaxChannels   \* bound: channels a behaviour begins

ASSUME TransportAssumption ==
    /\ NoValidator \notin Validators
    /\ Pinned \subseteq Validators
    /\ MaxChannels \in Nat

Channels == 1 .. MaxChannels
None == 0         \* `undefined`: no channel

VARIABLES
    service,       \* service and furtherServices
    pinnedBuilds,  \* the build that calls to a pinned validator join
    closed,        \* set by close()
    begun,         \* how many channels were begun
    at,            \* the validator of each channel
    channel,       \* what each channel is
    settled,       \* the builds whose promise settled
    result,        \* the channel a settled build resolved to, or None: it rejected
    pc,            \* where each call is
    target,        \* the validator a call was made to
    on             \* the build a call waits on, then the channel it got

buildVars == <<settled, result>>
callVars == <<pc, target, on>>
vars == <<service, pinnedBuilds, closed, begun, at, channel, buildVars, callVars>>

\* "building": pinnedServiceAt is pending. "built": it returned a channel that
\* the transport has not taken yet. "open": installed. "dropped": was installed,
\* and was closed. "discarded": was closed without being installed.
ChannelStates == {"none", "building", "built", "failed", "open", "dropped", "discarded"}

\* How a call ended: answered (an error a server sent included), no server was
\* reached, the setup failed, its window passed, or the transport was closed.
Ended == {"answered", "unreached", "setupFailed", "outOfTime", "closed"}

\* The types of the transport's fields and of the calls' state: a call never
\* waits on, or uses, an undefined service.
TypeOK ==
    /\ service \in [Validators -> Channels \cup {None}]
    /\ pinnedBuilds \in [Validators -> Channels \cup {None}]
    /\ closed \in BOOLEAN
    /\ begun \in 0 .. MaxChannels
    /\ at \in [Channels -> Validators \cup {NoValidator}]
    /\ channel \in [Channels -> ChannelStates]
    /\ settled \subseteq Channels
    /\ result \in [Channels -> Channels \cup {None}]
    /\ pc \in [Calls -> {"idle", "waiting", "ready", "sent"} \cup Ended]
    /\ target \in [Calls -> Validators \cup {NoValidator}]
    /\ on \in [Calls -> Channels \cup {None}]
    /\ \A c \in Calls : pc[c] \in {"waiting", "ready", "sent"} => on[c] # None

\* The constructor builds a channel for every validator that is not pinned.
Init ==
    /\ begun \in 0 .. MaxChannels
    /\ service \in [Validators -> 0 .. begun]
    /\ at \in [Channels -> Validators \cup {NoValidator}]
    /\ \A v \in Validators : service[v] = None <=> v \in Pinned
    /\ \A v \in Validators \ Pinned : at[service[v]] = v
    /\ \A n \in Channels :
          IF n <= begun
          THEN at[n] \in Validators /\ service[at[n]] = n
          ELSE at[n] = NoValidator
    /\ channel = [n \in Channels |-> IF n <= begun THEN "open" ELSE "none"]
    /\ pinnedBuilds = [v \in Validators |-> None]
    /\ closed = FALSE
    /\ settled = {}
    /\ result = [n \in Channels |-> None]
    /\ pc = [c \in Calls |-> "idle"]
    /\ target = [c \in Calls |-> NoValidator]
    /\ on = [c \in Calls |-> None]

-----------------------------------------------------------------------------
(* A call asks for its validator's service: serviceReady.                  *)

\* A call is at `step` with the build or channel n of the validator v.
Move(c, step, v, n) ==
    /\ pc' = [pc EXCEPT ![c] = step]
    /\ target' = [target EXCEPT ![c] = v]
    /\ on' = [on EXCEPT ![c] = n]

\* A new channel to v is begun.
Begin(v, state) ==
    /\ begun < MaxChannels
    /\ begun' = begun + 1
    /\ at' = [at EXCEPT ![begun + 1] = v]
    /\ channel' = [channel EXCEPT ![begun + 1] = state]

CallOnClosed(c, v) ==
    /\ pc[c] = "idle"
    /\ closed
    /\ Move(c, "closed", v, None)
    /\ UNCHANGED <<service, pinnedBuilds, closed, begun, at, channel, buildVars>>

CallOnService(c, v) ==
    /\ pc[c] = "idle"
    /\ ~closed
    /\ service[v] # None
    /\ Move(c, "ready", v, service[v])
    /\ UNCHANGED <<service, pinnedBuilds, closed, begun, at, channel, buildVars>>

JoinBuild(c, v) ==
    /\ pc[c] = "idle"
    /\ ~closed
    /\ service[v] = None
    /\ pinnedBuilds[v] # None
    /\ Move(c, "waiting", v, pinnedBuilds[v])
    /\ UNCHANGED <<service, pinnedBuilds, closed, begun, at, channel, buildVars>>

BeginBuild(c, v) ==
    /\ pc[c] = "idle"
    /\ ~closed
    /\ service[v] = None
    /\ pinnedBuilds[v] = None
    /\ Begin(v, "building")
    /\ pinnedBuilds' = [pinnedBuilds EXCEPT ![v] = begun + 1]
    /\ Move(c, "waiting", v, begun + 1)
    /\ UNCHANGED <<service, closed, buildVars>>

-----------------------------------------------------------------------------
(* A pinned build: pinnedServiceAt, and what serviceReady does after it.   *)

BuildThrows(b) ==
    /\ channel[b] = "building"
    /\ channel' = [channel EXCEPT ![b] = "failed"]
    /\ settled' = settled \cup {b}
    /\ UNCHANGED <<service, pinnedBuilds, closed, begun, at, result, callVars>>

BuildReturns(b) ==
    /\ channel[b] = "building"
    /\ channel' = [channel EXCEPT ![b] = "built"]
    /\ UNCHANGED <<service, pinnedBuilds, closed, begun, at, buildVars, callVars>>

\* The build's channel is closed, and calls that wait on it get n.
Discard(b, n) ==
    /\ channel' = [channel EXCEPT ![b] = "discarded"]
    /\ result' = [result EXCEPT ![b] = n]
    /\ UNCHANGED service

\* Mutant of TakeChannel: a forgotten build installs its channel too.
TakeForgottenToo(b) ==
    /\ channel[b] = "built"
    /\ settled' = settled \cup {b}
    /\ \/ closed /\ Discard(b, None)
       \/ ~closed /\ service[at[b]] # None /\ Discard(b, service[at[b]])
       \/ /\ ~closed
          /\ service[at[b]] = None
          /\ service' = [service EXCEPT ![at[b]] = b]
          /\ channel' = [channel EXCEPT ![b] = "open"]
          /\ result' = [result EXCEPT ![b] = b]
    /\ UNCHANGED <<pinnedBuilds, closed, begun, at, callVars>>

\* Mutant of TakeChannel: a build that ends after close() installs its channel.
TakeAfterClose(b) ==
    /\ channel[b] = "built"
    /\ settled' = settled \cup {b}
    /\ \/ pinnedBuilds[at[b]] # b /\ Discard(b, service[at[b]])
       \/ /\ pinnedBuilds[at[b]] = b
          /\ service' = [service EXCEPT ![at[b]] = b]
          /\ channel' = [channel EXCEPT ![b] = "open"]
          /\ result' = [result EXCEPT ![b] = b]
    /\ UNCHANGED <<pinnedBuilds, closed, begun, at, callVars>>

\* Mutant of TakeChannel: calls that wait on a forgotten build get its channel.
TakeReturnsForgotten(b) ==
    /\ channel[b] = "built"
    /\ settled' = settled \cup {b}
    /\ \/ closed /\ Discard(b, None)
       \/ ~closed /\ pinnedBuilds[at[b]] # b /\ Discard(b, b)
       \/ /\ ~closed
          /\ pinnedBuilds[at[b]] = b
          /\ service' = [service EXCEPT ![at[b]] = b]
          /\ channel' = [channel EXCEPT ![b] = "open"]
          /\ result' = [result EXCEPT ![b] = b]
    /\ UNCHANGED <<pinnedBuilds, closed, begun, at, callVars>>

\* Only the validator's current build installs its channel. A build that was
\* forgotten, or that ends after close(), closes it; calls still waiting on it
\* get the channel that is installed, if there is one.
TakeChannel(b) ==
    /\ channel[b] = "built"
    /\ settled' = settled \cup {b}
    /\ \/ closed /\ Discard(b, None)
       \/ /\ ~closed
          /\ pinnedBuilds[at[b]] # b \/ service[at[b]] # None
          /\ Discard(b, service[at[b]])
       \/ /\ ~closed
          /\ pinnedBuilds[at[b]] = b
          /\ service[at[b]] = None
          /\ service' = [service EXCEPT ![at[b]] = b]
          /\ channel' = [channel EXCEPT ![b] = "open"]
          /\ result' = [result EXCEPT ![b] = b]
    /\ UNCHANGED <<pinnedBuilds, closed, begun, at, callVars>>

\* pinnedBuilds without b, when b is still v's entry.
Without(v, b) ==
    [pinnedBuilds EXCEPT ![v] = IF @ = b THEN None ELSE @]

\* The `finally` of a settled build.
ForgetSettled(b) ==
    /\ b \in settled
    /\ pinnedBuilds[at[b]] = b
    /\ pinnedBuilds' = Without(at[b], b)
    /\ UNCHANGED <<service, closed, begun, at, channel, buildVars, callVars>>

\* A waiting call is given its build's result.
BuildAwaited(c) ==
    /\ pc[c] = "waiting"
    /\ on[c] \in settled
    /\ IF result[on[c]] = None
       THEN Move(c, "setupFailed", target[c], None)
       ELSE Move(c, "ready", target[c], result[on[c]])
    /\ UNCHANGED <<service, pinnedBuilds, closed, begun, at, channel, buildVars>>

\* Mutant of WindowEnds: the window has no timer.
WindowNeverEnds(c) ==
    /\ pc[c] = "waiting"
    /\ closed
    /\ on[c] \notin settled
    /\ Move(c, "outOfTime", target[c], None)
    /\ pinnedBuilds' = Without(target[c], on[c])
    /\ UNCHANGED <<service, closed, begun, at, channel, buildVars>>

\* The setup window of a call passes: the build is forgotten. A timer never
\* runs between a promise's settling and the calls that wait on it.
WindowEnds(c) ==
    /\ pc[c] = "waiting"
    /\ on[c] \notin settled
    /\ Move(c, "outOfTime", target[c], None)
    /\ pinnedBuilds' = Without(target[c], on[c])
    /\ UNCHANGED <<service, closed, begun, at, channel, buildVars>>

-----------------------------------------------------------------------------
(* A call on its channel: unary.                                           *)

\* grpc-js throws at once on a channel that was closed meanwhile.
Send(c) ==
    /\ pc[c] = "ready"
    /\ Move(c, IF channel[on[c]] = "open" THEN "sent" ELSE "unreached", target[c], on[c])
    /\ UNCHANGED <<service, pinnedBuilds, closed, begun, at, channel, buildVars>>

\* A server answered, or the call's deadline passed: the channel is kept.
Answered(c) ==
    /\ pc[c] = "sent"
    /\ Move(c, "answered", target[c], on[c])
    /\ UNCHANGED <<service, pinnedBuilds, closed, begun, at, channel, buildVars>>

\* The call's service is still its validator's.
Renewable(c) == ~closed /\ service[target[c]] = on[c]

\* Mutant of UnreachedKept: nothing is compared, the current channel is closed.
UnreachedClosesCurrent(c) ==
    /\ pc[c] = "sent"
    /\ ~Renewable(c)
    /\ Move(c, "unreached", target[c], on[c])
    /\ IF ~closed /\ service[target[c]] # None
       THEN /\ channel' = [channel EXCEPT ![service[target[c]]] = "dropped"]
            /\ service' = [service EXCEPT ![target[c]] = None]
       ELSE UNCHANGED <<service, channel>>
    /\ UNCHANGED <<pinnedBuilds, closed, begun, at, buildVars>>

\* renewAfterConnectionFailure: the channel was replaced already, or the
\* transport is closed.
UnreachedKept(c) ==
    /\ pc[c] = "sent"
    /\ ~Renewable(c)
    /\ Move(c, "unreached", target[c], on[c])
    /\ UNCHANGED <<service, pinnedBuilds, closed, begun, at, channel, buildVars>>

\* The same: a pinned validator's channel is dropped, the next call builds one.
UnreachedDrops(c) ==
    /\ pc[c] = "sent"
    /\ Renewable(c)
    /\ target[c] \in Pinned
    /\ Move(c, "unreached", target[c], on[c])
    /\ service' = [service EXCEPT ![target[c]] = None]
    /\ channel' = [channel EXCEPT ![on[c]] = "dropped"]
    /\ UNCHANGED <<pinnedBuilds, closed, begun, at, buildVars>>

\* The same: any other validator gets a new channel, and the old one is closed.
UnreachedReplaces(c) ==
    /\ pc[c] = "sent"
    /\ Renewable(c)
    /\ target[c] \notin Pinned
    /\ Move(c, "unreached", target[c], on[c])
    /\ begun < MaxChannels
    /\ begun' = begun + 1
    /\ at' = [at EXCEPT ![begun + 1] = target[c]]
    /\ channel' = [channel EXCEPT ![begun + 1] = "open", ![on[c]] = "dropped"]
    /\ service' = [service EXCEPT ![target[c]] = begun + 1]
    /\ UNCHANGED <<pinnedBuilds, closed, buildVars>>

\* Mutant of Close: calls that wait on a pinned setup are left waiting.
CloseWithoutEndingWaits ==
    /\ closed' = TRUE
    /\ channel' = [n \in Channels |->
                     IF \E v \in Validators : service[v] = n THEN "dropped" ELSE channel[n]]
    /\ UNCHANGED <<service, pinnedBuilds, begun, at, buildVars, callVars>>

\* close(): every call that waits on a pending setup ends, and every installed
\* channel is closed. The pending setups go on.
Close ==
    /\ closed' = TRUE
    /\ pc' = [c \in Calls |->
                IF pc[c] = "waiting" /\ on[c] \notin settled THEN "closed" ELSE pc[c]]
    /\ channel' = [n \in Channels |->
                     IF \E v \in Validators : service[v] = n THEN "dropped" ELSE channel[n]]
    /\ UNCHANGED <<service, pinnedBuilds, begun, at, buildVars, target, on>>

-----------------------------------------------------------------------------
Next ==
    \/ \E c \in Calls :
          \/ \E v \in Validators :
                \/ CallOnClosed(c, v) \/ CallOnService(c, v)
                \/ JoinBuild(c, v) \/ BeginBuild(c, v)
          \/ BuildAwaited(c) \/ WindowEnds(c) \/ Send(c) \/ Answered(c)
          \/ UnreachedKept(c) \/ UnreachedDrops(c) \/ UnreachedReplaces(c)
    \/ \E b \in Channels :
          BuildThrows(b) \/ BuildReturns(b) \/ TakeChannel(b) \/ ForgetSettled(b)
    \/ Close

Spec == Init /\ [][Next]_vars

\* A settled promise is delivered, timers fire, and every call has a deadline.
\* Nothing is assumed of a build: a chain read or a TLS handshake may hang.
Fairness ==
    \A c \in Calls :
        /\ WF_vars(BuildAwaited(c)) /\ WF_vars(WindowEnds(c))
        /\ WF_vars(Send(c)) /\ WF_vars(Answered(c))

FairSpec == Spec /\ Fairness

-----------------------------------------------------------------------------
(* Properties.                                                             *)

\* No channel leaks: an open channel is installed for its validator, and none
\* is open once the transport is closed, however late a setup ends.
NoChannelLeaks ==
    \A n \in Channels : channel[n] = "open" => ~closed /\ service[at[n]] = n

\* While the transport is open, a service is an open channel to its validator,
\* and only a pinned validator is ever without one.
ServicesAreOpen ==
    ~closed =>
        \A v \in Validators :
            /\ service[v] # None => channel[service[v]] = "open" /\ at[service[v]] = v
            /\ service[v] = None => v \in Pinned

\* A channel is installed only after every channel that its validator had
\* before was begun: a setup that ends late, pinned to a key the validator may
\* have rotated, never takes the place of a newer one.
InstallsOnlyNewer ==
    [][\A v \in Validators :
         service'[v] # service[v] /\ service'[v] # None
           => \A n \in Channels :
                 at[n] = v /\ channel[n] \in {"open", "dropped"} => n < service'[v]]_vars

\* A call is sent only on a channel that was installed for its own validator:
\* never on the channel of a setup that was forgotten.
CallsUseInstalled ==
    \A c \in Calls :
        pc[c] \in {"ready", "sent"} =>
            at[on[c]] = target[c] /\ channel[on[c]] \in {"open", "dropped"}

\* A step closes an installed channel only when the transport closes, or when a
\* call on that very channel reached no server: a failure on a channel that was
\* replaced never closes its replacement.
ClosedOnlyForCause ==
    [][\A n \in Channels :
         channel[n] = "open" /\ channel'[n] # "open"
           => \/ closed'
              \/ \E c \in Calls : pc[c] = "sent" /\ pc'[c] = "unreached" /\ on[c] = n]_vars

\* close() leaves no call waiting on a setup that may never end.
ClosedLeavesNoWait ==
    closed => \A c \in Calls : pc[c] = "waiting" => on[c] \in settled

\* Every call ends, although a pinned setup may hang for ever.
CallsEnd == \A c \in Calls : pc[c] # "idle" ~> pc[c] \in Ended
=============================================================================

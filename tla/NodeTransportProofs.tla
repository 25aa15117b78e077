------------------------ MODULE NodeTransportProofs ------------------------
(***************************************************************************)
(* For any number of validators, calls and channels: the transport leaks   *)
(* no channel, never installs an older channel over a newer one, and sends *)
(* a call only on a channel installed for its validator.                   *)
(* The second half is about CommitteePin, for any keys, committees and     *)
(* setups: a client holds only fresh committees, refuses no member and     *)
(* connects to no former one.                                              *)
(***************************************************************************)
EXTENDS NodeTransport, CommitteePin, TLAPS

\* A channel has a validator exactly when it was begun.
BegunInv ==
    \A n \in Channels :
        IF n <= begun
        THEN at[n] \in Validators /\ channel[n] # "none"
        ELSE at[n] = NoValidator /\ channel[n] = "none"

\* An entry of pinnedBuilds is a build of that pinned validator. While the build
\* is under way nothing is installed, and all that was installed is older.
BuildsInv ==
    \A v \in Validators :
        pinnedBuilds[v] # None =>
            /\ v \in Pinned
            /\ at[pinnedBuilds[v]] = v
            /\ channel[pinnedBuilds[v]] \in {"building", "built"} =>
                  /\ service[v] = None
                  /\ \A n \in Channels :
                        at[n] = v /\ channel[n] \in {"open", "dropped"} => n < pinnedBuilds[v]

\* A service was installed for its validator, even after close().
ServicesInv ==
    \A v \in Validators :
        service[v] # None =>
            at[service[v]] = v /\ channel[service[v]] \in {"open", "dropped"}

\* A build resolved to a channel that was installed for the same validator.
ResultsInv ==
    \A b \in Channels :
        /\ b \in settled => channel[b] \notin {"none", "building", "built"}
        /\ result[b] # None =>
              at[result[b]] = at[b] /\ channel[result[b]] \in {"open", "dropped"}

\* A call was made to a validator, and waits on a build of that one.
CallsInv ==
    \A c \in Calls :
        /\ pc[c] # "idle" => target[c] \in Validators
        /\ pc[c] = "waiting" => at[on[c]] = target[c]

\* The inductive invariant.
IInv ==
    /\ TypeOK
    /\ BegunInv
    /\ BuildsInv
    /\ ServicesInv
    /\ ResultsInv
    /\ CallsInv
    /\ NoChannelLeaks
    /\ ServicesAreOpen
    /\ CallsUseInstalled
    /\ ClosedLeavesNoWait

\* The constructor's state satisfies the invariant.
LEMMA InvInit == Init => IInv
<1> SUFFICES ASSUME Init PROVE IInv
  OBVIOUS
<1> USE TransportAssumption DEF Init, Channels, None, ChannelStates, Ended
<1>1. TypeOK
  <2>1. 0 .. begun \subseteq Channels \cup {None}
    OBVIOUS
  <2>2. service \in [Validators -> Channels \cup {None}]
    BY <2>1
  <2> QED
    BY <2>2 DEF TypeOK
<1>2. BegunInv /\ BuildsInv /\ ServicesInv /\ ResultsInv /\ CallsInv
  BY DEF BegunInv, BuildsInv, ServicesInv, ResultsInv, CallsInv
<1>3. NoChannelLeaks /\ ServicesAreOpen /\ CallsUseInstalled /\ ClosedLeavesNoWait
  BY DEF NoChannelLeaks, ServicesAreOpen, CallsUseInstalled, ClosedLeavesNoWait
<1> QED
  BY <1>1, <1>2, <1>3 DEF IInv

\* Every step keeps the invariant.
LEMMA InvStep == IInv /\ [Next]_vars => IInv'
<1> SUFFICES ASSUME IInv, [Next]_vars PROVE IInv'
  OBVIOUS
<1> USE TransportAssumption DEF IInv, Channels, None, ChannelStates, Ended
<1>1. ASSUME NEW c \in Calls, NEW v \in Validators, CallOnClosed(c, v) PROVE IInv'
  <2> USE <1>1 DEF CallOnClosed, Move, buildVars
  <2>1. TypeOK'
    BY DEF TypeOK
  <2>2. CallsInv'
    BY DEF CallsInv, TypeOK
  <2>3. CallsUseInstalled'
    BY DEF CallsUseInstalled, TypeOK
  <2>4. ClosedLeavesNoWait'
    BY DEF ClosedLeavesNoWait, TypeOK
  <2>5. BegunInv' /\ BuildsInv' /\ ServicesInv' /\ ResultsInv' /\ NoChannelLeaks' /\ ServicesAreOpen'
    BY DEF BegunInv, BuildsInv, ServicesInv, ResultsInv, NoChannelLeaks, ServicesAreOpen
  <2> QED
    BY <2>1, <2>2, <2>3, <2>4, <2>5
<1>2. ASSUME NEW c \in Calls, NEW v \in Validators, CallOnService(c, v) PROVE IInv'
  <2> USE <1>2 DEF CallOnService, Move, buildVars
  <2>1. TypeOK'
    BY DEF TypeOK
  <2>2. CallsInv'
    BY DEF CallsInv, TypeOK
  <2>3. CallsUseInstalled'
    BY DEF CallsUseInstalled, TypeOK, ServicesAreOpen
  <2>4. ClosedLeavesNoWait'
    BY DEF ClosedLeavesNoWait, TypeOK
  <2>5. BegunInv' /\ BuildsInv' /\ ServicesInv' /\ ResultsInv' /\ NoChannelLeaks' /\ ServicesAreOpen'
    BY DEF BegunInv, BuildsInv, ServicesInv, ResultsInv, NoChannelLeaks, ServicesAreOpen
  <2> QED
    BY <2>1, <2>2, <2>3, <2>4, <2>5
<1>3. ASSUME NEW c \in Calls, NEW v \in Validators, JoinBuild(c, v) PROVE IInv'
  <2> USE <1>3 DEF JoinBuild, Move, buildVars
  <2>1. TypeOK'
    BY DEF TypeOK
  <2>2. CallsInv'
    BY DEF CallsInv, TypeOK, BuildsInv
  <2>3. CallsUseInstalled'
    BY DEF CallsUseInstalled, TypeOK
  <2>4. ClosedLeavesNoWait'
    BY DEF ClosedLeavesNoWait, TypeOK
  <2>5. BegunInv' /\ BuildsInv' /\ ServicesInv' /\ ResultsInv' /\ NoChannelLeaks' /\ ServicesAreOpen'
    BY DEF BegunInv, BuildsInv, ServicesInv, ResultsInv, NoChannelLeaks, ServicesAreOpen
  <2> QED
    BY <2>1, <2>2, <2>3, <2>4, <2>5
<1>4. ASSUME NEW c \in Calls, NEW v \in Validators, BeginBuild(c, v) PROVE IInv'
  <2> USE <1>4 DEF BeginBuild, Begin, Move, buildVars
  <2>1. TypeOK'
    BY DEF TypeOK
  <2>2. BegunInv'
    BY DEF BegunInv, TypeOK
  <2>3. BuildsInv'
    BY DEF BuildsInv, TypeOK, BegunInv, ServicesAreOpen
  <2>4. ServicesInv'
    BY DEF ServicesInv, TypeOK, BegunInv
  <2>5. ResultsInv'
    BY DEF ResultsInv, TypeOK, BegunInv
  <2>6. CallsInv'
    BY DEF CallsInv, TypeOK, BegunInv
  <2>7. NoChannelLeaks'
    BY DEF NoChannelLeaks, TypeOK
  <2>8. ServicesAreOpen'
    BY DEF ServicesAreOpen, TypeOK, BegunInv
  <2>9. CallsUseInstalled'
    BY DEF CallsUseInstalled, TypeOK, BegunInv
  <2>10. ClosedLeavesNoWait'
    BY DEF ClosedLeavesNoWait, TypeOK
  <2> QED
    BY <2>1, <2>2, <2>3, <2>4, <2>5, <2>6, <2>7, <2>8, <2>9, <2>10
<1>5. ASSUME NEW c \in Calls, BuildAwaited(c) PROVE IInv'
  <2>0. PICK step \in {"setupFailed", "ready"}, n \in Channels \cup {None} :
          /\ pc' = [pc EXCEPT ![c] = step]
          /\ target' = [target EXCEPT ![c] = target[c]]
          /\ on' = [on EXCEPT ![c] = n]
          /\ step = "ready" => n # None
          /\ pc[c] = "waiting"
          /\ UNCHANGED <<service, pinnedBuilds, closed, begun, at, channel, settled, result>>
    <3>1. on[c] \in Channels /\ result[on[c]] \in Channels \cup {None}
      BY <1>5 DEF BuildAwaited, TypeOK
    <3>2. CASE result[on[c]] = None
      BY <1>5, <3>2 DEF BuildAwaited, Move, buildVars
    <3>3. CASE result[on[c]] # None
      BY <1>5, <3>1, <3>3 DEF BuildAwaited, Move, buildVars
    <3> QED
      BY <3>2, <3>3
  <2>1. TypeOK'
    <3>1. step \in {"idle", "waiting", "ready", "sent"} \cup Ended
      BY DEF Ended
    <3>2. pc' \in [Calls -> {"idle", "waiting", "ready", "sent"} \cup Ended]
      BY <2>0, <3>1 DEF TypeOK
    <3>3. /\ target' \in [Calls -> Validators \cup {NoValidator}]
          /\ on' \in [Calls -> Channels \cup {None}]
      BY <2>0 DEF TypeOK
    <3>4. \A d \in Calls : pc'[d] \in {"waiting", "ready", "sent"} => on'[d] # None
      BY <2>0 DEF TypeOK
    <3> QED
      BY <2>0, <3>2, <3>3, <3>4 DEF TypeOK
  <2>2. CallsInv'
    BY <2>0 DEF CallsInv, TypeOK
  <2> USE <1>5 DEF BuildAwaited, Move, buildVars
  <2>3. CallsUseInstalled'
    BY DEF CallsUseInstalled, TypeOK, ResultsInv, CallsInv
  <2>4. ClosedLeavesNoWait'
    BY DEF ClosedLeavesNoWait, TypeOK
  <2>5. BegunInv' /\ BuildsInv' /\ ServicesInv' /\ ResultsInv' /\ NoChannelLeaks' /\ ServicesAreOpen'
    BY DEF BegunInv, BuildsInv, ServicesInv, ResultsInv, NoChannelLeaks, ServicesAreOpen
  <2> QED
    BY <2>1, <2>2, <2>3, <2>4, <2>5
<1>6. ASSUME NEW c \in Calls, WindowEnds(c) PROVE IInv'
  <2> USE <1>6 DEF WindowEnds, Move, Without, buildVars
  <2>1. TypeOK'
    BY DEF TypeOK
  <2>2. BuildsInv'
    BY DEF BuildsInv, TypeOK
  <2>3. CallsInv'
    BY DEF CallsInv, TypeOK
  <2>4. CallsUseInstalled'
    BY DEF CallsUseInstalled, TypeOK
  <2>5. ClosedLeavesNoWait'
    BY DEF ClosedLeavesNoWait, TypeOK
  <2>6. BegunInv' /\ ServicesInv' /\ ResultsInv' /\ NoChannelLeaks' /\ ServicesAreOpen'
    BY DEF BegunInv, ServicesInv, ResultsInv, NoChannelLeaks, ServicesAreOpen
  <2> QED
    BY <2>1, <2>2, <2>3, <2>4, <2>5, <2>6
<1>7. ASSUME NEW c \in Calls, Send(c) PROVE IInv'
  <2> USE <1>7 DEF Send, Move, buildVars
  <2>1. TypeOK'
    BY DEF TypeOK
  <2>2. CallsInv'
    BY DEF CallsInv, TypeOK
  <2>3. CallsUseInstalled'
    BY DEF CallsUseInstalled, TypeOK
  <2>4. ClosedLeavesNoWait'
    BY DEF ClosedLeavesNoWait, TypeOK
  <2>5. BegunInv' /\ BuildsInv' /\ ServicesInv' /\ ResultsInv' /\ NoChannelLeaks' /\ ServicesAreOpen'
    BY DEF BegunInv, BuildsInv, ServicesInv, ResultsInv, NoChannelLeaks, ServicesAreOpen
  <2> QED
    BY <2>1, <2>2, <2>3, <2>4, <2>5
<1>8. ASSUME NEW c \in Calls, Answered(c) PROVE IInv'
  <2> USE <1>8 DEF Answered, Move, buildVars
  <2>1. TypeOK'
    BY DEF TypeOK
  <2>2. CallsInv'
    BY DEF CallsInv, TypeOK
  <2>3. CallsUseInstalled'
    BY DEF CallsUseInstalled, TypeOK
  <2>4. ClosedLeavesNoWait'
    BY DEF ClosedLeavesNoWait, TypeOK
  <2>5. BegunInv' /\ BuildsInv' /\ ServicesInv' /\ ResultsInv' /\ NoChannelLeaks' /\ ServicesAreOpen'
    BY DEF BegunInv, BuildsInv, ServicesInv, ResultsInv, NoChannelLeaks, ServicesAreOpen
  <2> QED
    BY <2>1, <2>2, <2>3, <2>4, <2>5
<1>9. ASSUME NEW c \in Calls, UnreachedKept(c) PROVE IInv'
  <2> USE <1>9 DEF UnreachedKept, Move, buildVars
  <2>1. TypeOK'
    BY DEF TypeOK
  <2>2. CallsInv'
    BY DEF CallsInv, TypeOK
  <2>3. CallsUseInstalled'
    BY DEF CallsUseInstalled, TypeOK
  <2>4. ClosedLeavesNoWait'
    BY DEF ClosedLeavesNoWait, TypeOK
  <2>5. BegunInv' /\ BuildsInv' /\ ServicesInv' /\ ResultsInv' /\ NoChannelLeaks' /\ ServicesAreOpen'
    BY DEF BegunInv, BuildsInv, ServicesInv, ResultsInv, NoChannelLeaks, ServicesAreOpen
  <2> QED
    BY <2>1, <2>2, <2>3, <2>4, <2>5
<1>10. ASSUME NEW c \in Calls, UnreachedDrops(c) PROVE IInv'
  <2> USE <1>10 DEF UnreachedDrops, Renewable, Move, buildVars
  <2>1. TypeOK'
    BY DEF TypeOK
  <2>2. BegunInv'
    BY DEF BegunInv, TypeOK, CallsInv, CallsUseInstalled
  <2>3. BuildsInv'
    BY DEF BuildsInv, TypeOK, CallsUseInstalled
  <2>4. ServicesInv'
    BY DEF ServicesInv, TypeOK, CallsInv
  <2>5. ResultsInv'
    BY DEF ResultsInv, TypeOK
  <2>6. CallsInv'
    BY DEF CallsInv, TypeOK
  <2>7. NoChannelLeaks'
    BY DEF NoChannelLeaks, TypeOK
  <2>8. ServicesAreOpen'
    BY DEF ServicesAreOpen, TypeOK
  <2>9. CallsUseInstalled'
    BY DEF CallsUseInstalled, TypeOK
  <2>10. ClosedLeavesNoWait'
    BY DEF ClosedLeavesNoWait, TypeOK
  <2> QED
    BY <2>1, <2>2, <2>3, <2>4, <2>5, <2>6, <2>7, <2>8, <2>9, <2>10
<1>11. ASSUME NEW c \in Calls, UnreachedReplaces(c) PROVE IInv'
  <2> USE <1>11 DEF UnreachedReplaces, Renewable, Move, buildVars
  <2>1. TypeOK'
    <3>1. target[c] \in Validators /\ begun + 1 \in Channels
      BY DEF TypeOK, CallsInv
    <3>2. service' \in [Validators -> Channels \cup {None}]
      BY <3>1 DEF TypeOK
    <3>3. channel' \in [Channels -> ChannelStates]
      BY <3>1 DEF TypeOK
    <3>4. at' \in [Channels -> Validators \cup {NoValidator}] /\ begun' \in 0 .. MaxChannels
      BY <3>1 DEF TypeOK
    <3> QED
      BY <3>2, <3>3, <3>4 DEF TypeOK
  <2>2. BegunInv'
    BY DEF BegunInv, TypeOK, CallsInv, CallsUseInstalled
  <2>3. BuildsInv'
    BY DEF BuildsInv, TypeOK, BegunInv, CallsUseInstalled
  <2>4. ServicesInv'
    BY DEF ServicesInv, TypeOK, BegunInv, CallsInv
  <2>5. ResultsInv'
    <3>1. ASSUME NEW b \in Channels, result[b] # None
          PROVE  b # begun + 1 /\ result[b] # begun + 1
      <4>1. result[b] \in Channels /\ begun \in Nat
        BY <3>1 DEF TypeOK
      <4>2. result[b] <= begun /\ at[result[b]] \in Validators
        BY <3>1, <4>1 DEF ResultsInv, BegunInv
      <4>3. b <= begun
        BY <3>1, <4>1, <4>2 DEF ResultsInv, BegunInv
      <4> QED
        BY <4>1, <4>2, <4>3
    <3>2. begun + 1 \notin settled
      BY DEF ResultsInv, BegunInv, TypeOK
    <3>3. on[c] \in Channels /\ begun + 1 \in Channels
      BY DEF TypeOK
    <3>4. ASSUME NEW b \in Channels, b \in settled
          PROVE  channel'[b] \notin {"none", "building", "built"}
      BY <3>2, <3>3, <3>4 DEF ResultsInv, TypeOK
    <3>5. ASSUME NEW b \in Channels, result[b] # None
          PROVE  at'[result[b]] = at'[b] /\ channel'[result[b]] \in {"open", "dropped"}
      <4>1. result[b] \in Channels
        BY <3>5 DEF TypeOK
      <4>2. at[result[b]] = at[b] /\ channel[result[b]] \in {"open", "dropped"}
        BY <3>5 DEF ResultsInv
      <4> QED
        BY <3>1, <3>3, <3>5, <4>1, <4>2 DEF TypeOK
    <3> QED
      BY <3>4, <3>5 DEF ResultsInv
  <2>6. CallsInv'
    BY DEF CallsInv, TypeOK, BegunInv
  <2>7. NoChannelLeaks'
    BY DEF NoChannelLeaks, TypeOK, CallsInv
  <2>8. ServicesAreOpen'
    BY DEF ServicesAreOpen, TypeOK, BegunInv, CallsUseInstalled
  <2>9. CallsUseInstalled'
    BY DEF CallsUseInstalled, TypeOK, BegunInv, CallsInv
  <2>10. ClosedLeavesNoWait'
    BY DEF ClosedLeavesNoWait, TypeOK
  <2> QED
    BY <2>1, <2>2, <2>3, <2>4, <2>5, <2>6, <2>7, <2>8, <2>9, <2>10
<1>12. ASSUME NEW b \in Channels, BuildThrows(b) PROVE IInv'
  <2> USE <1>12 DEF BuildThrows, callVars
  <2>1. TypeOK'
    BY DEF TypeOK
  <2>2. BegunInv'
    BY DEF BegunInv, TypeOK
  <2>3. BuildsInv'
    BY DEF BuildsInv, TypeOK
  <2>4. ServicesInv'
    BY DEF ServicesInv, TypeOK
  <2>5. ResultsInv'
    BY DEF ResultsInv, TypeOK
  <2>6. NoChannelLeaks'
    BY DEF NoChannelLeaks, TypeOK
  <2>7. ServicesAreOpen'
    BY DEF ServicesAreOpen, TypeOK
  <2>8. CallsUseInstalled'
    BY DEF CallsUseInstalled, TypeOK
  <2>9. ClosedLeavesNoWait'
    BY DEF ClosedLeavesNoWait, TypeOK
  <2>10. CallsInv'
    BY DEF CallsInv
  <2> QED
    BY <2>1, <2>2, <2>3, <2>4, <2>5, <2>6, <2>7, <2>8, <2>9, <2>10
<1>13. ASSUME NEW b \in Channels, BuildReturns(b) PROVE IInv'
  <2> USE <1>13 DEF BuildReturns, buildVars, callVars
  <2>1. TypeOK'
    BY DEF TypeOK
  <2>2. BegunInv'
    BY DEF BegunInv, TypeOK
  <2>3. BuildsInv'
    BY DEF BuildsInv, TypeOK
  <2>4. ServicesInv'
    BY DEF ServicesInv, TypeOK
  <2>5. ResultsInv'
    BY DEF ResultsInv, TypeOK
  <2>6. NoChannelLeaks'
    BY DEF NoChannelLeaks, TypeOK
  <2>7. ServicesAreOpen'
    BY DEF ServicesAreOpen, TypeOK
  <2>8. CallsUseInstalled'
    BY DEF CallsUseInstalled, TypeOK
  <2>9. CallsInv' /\ ClosedLeavesNoWait'
    BY DEF CallsInv, ClosedLeavesNoWait
  <2> QED
    BY <2>1, <2>2, <2>3, <2>4, <2>5, <2>6, <2>7, <2>8, <2>9
<1>14. ASSUME NEW b \in Channels, TakeChannel(b) PROVE IInv'
  <2> USE <1>14 DEF TakeChannel, Discard, callVars
  <2>1. TypeOK'
    <3>1. at[b] \in Validators /\ service[at[b]] \in Channels \cup {None}
      BY DEF TypeOK, BegunInv
    <3>2. service' \in [Validators -> Channels \cup {None}]
      BY <3>1 DEF TypeOK
    <3>3. channel' \in [Channels -> ChannelStates]
      BY DEF TypeOK
    <3>4. result' \in [Channels -> Channels \cup {None}]
      BY <3>1 DEF TypeOK
    <3> QED
      BY <3>2, <3>3, <3>4 DEF TypeOK
  <2>2. BegunInv'
    BY DEF BegunInv, TypeOK
  <2>3. BuildsInv'
    BY DEF BuildsInv, TypeOK
  <2>4. ServicesInv'
    BY DEF ServicesInv, TypeOK, BegunInv
  <2>5. ResultsInv'
    BY DEF ResultsInv, TypeOK, BegunInv, ServicesAreOpen
  <2>6. NoChannelLeaks'
    BY DEF NoChannelLeaks, TypeOK, BegunInv
  <2>7. ServicesAreOpen'
    BY DEF ServicesAreOpen, TypeOK
  <2>8. CallsUseInstalled'
    BY DEF CallsUseInstalled, TypeOK, CallsInv
  <2>9. ClosedLeavesNoWait'
    BY DEF ClosedLeavesNoWait, TypeOK
  <2>10. CallsInv'
    BY DEF CallsInv
  <2> QED
    BY <2>1, <2>2, <2>3, <2>4, <2>5, <2>6, <2>7, <2>8, <2>9, <2>10
<1>15. ASSUME NEW b \in Channels, ForgetSettled(b) PROVE IInv'
  <2> USE <1>15 DEF ForgetSettled, Without, buildVars, callVars
  <2>1. TypeOK'
    BY DEF TypeOK
  <2>2. BuildsInv'
    BY DEF BuildsInv, TypeOK
  <2>3. BegunInv' /\ ServicesInv' /\ ResultsInv' /\ CallsInv' /\ NoChannelLeaks' /\ ServicesAreOpen' /\ CallsUseInstalled' /\ ClosedLeavesNoWait'
    BY DEF BegunInv, ServicesInv, ResultsInv, CallsInv, NoChannelLeaks, ServicesAreOpen, CallsUseInstalled, ClosedLeavesNoWait
  <2> QED
    BY <2>1, <2>2, <2>3
<1>16. ASSUME Close PROVE IInv'
  <2> USE <1>16 DEF Close, buildVars
  <2>1. TypeOK'
    BY DEF TypeOK
  <2>2. BegunInv'
    BY DEF BegunInv, TypeOK, ServicesInv
  <2>3. BuildsInv'
    BY DEF BuildsInv, TypeOK, ServicesInv
  <2>4. ServicesInv'
    BY DEF ServicesInv, TypeOK
  <2>5. ResultsInv'
    BY DEF ResultsInv, TypeOK
  <2>6. CallsInv'
    BY DEF CallsInv, TypeOK
  <2>7. NoChannelLeaks'
    BY DEF NoChannelLeaks, TypeOK, BegunInv
  <2>8. ServicesAreOpen'
    BY DEF ServicesAreOpen, TypeOK
  <2>9. CallsUseInstalled'
    BY DEF CallsUseInstalled, TypeOK, CallsInv
  <2>10. ClosedLeavesNoWait'
    BY DEF ClosedLeavesNoWait, TypeOK
  <2> QED
    BY <2>1, <2>2, <2>3, <2>4, <2>5, <2>6, <2>7, <2>8, <2>9, <2>10
<1>17. CASE UNCHANGED vars
  BY <1>17 DEF vars, callVars, buildVars, TypeOK, BegunInv, BuildsInv, ServicesInv,
     ResultsInv, CallsInv, NoChannelLeaks, ServicesAreOpen, CallsUseInstalled, ClosedLeavesNoWait
<1> QED
  BY <1>1, <1>2, <1>3, <1>4, <1>5, <1>6, <1>7, <1>8, <1>9, <1>10, <1>11, <1>12, <1>13, <1>14, <1>15, <1>16, <1>17 DEF Next

\* The invariant holds in every reachable state.
THEOREM Invariance == Spec => []IInv
<1>1. Init => IInv
  BY InvInit
<1>2. IInv /\ [Next]_vars => IInv'
  BY InvStep
<1> QED
  BY <1>1, <1>2, PTL DEF Spec

\* The transport's fields keep their types.
THEOREM TypeCorrect == Spec => []TypeOK
<1>1. IInv => TypeOK
  BY DEF IInv
<1> QED
  BY Invariance, <1>1, PTL

\* No channel leaks, however builds, failures and close() interleave.
THEOREM NoLeak == Spec => []NoChannelLeaks
<1>1. IInv => NoChannelLeaks
  BY DEF IInv
<1> QED
  BY Invariance, <1>1, PTL

\* Until close(), a service is an open channel to its validator.
THEOREM ServicesOpen == Spec => []ServicesAreOpen
<1>1. IInv => ServicesAreOpen
  BY DEF IInv
<1> QED
  BY Invariance, <1>1, PTL

\* No call is sent on the channel of a forgotten build.
THEOREM CallsOnInstalled == Spec => []CallsUseInstalled
<1>1. IInv => CallsUseInstalled
  BY DEF IInv
<1> QED
  BY Invariance, <1>1, PTL

\* close() leaves no call waiting on a pending build.
THEOREM CloseEndsWaits == Spec => []ClosedLeavesNoWait
<1>1. IInv => ClosedLeavesNoWait
  BY DEF IInv
<1> QED
  BY Invariance, <1>1, PTL

\* Only TakeChannel and UnreachedReplaces install a channel.
LEMMA Installing ==
    ASSUME IInv, Next, NEW v \in Validators, service'[v] # service[v], service'[v] # None
    PROVE  \/ \E b \in Channels :
                /\ channel[b] = "built" /\ pinnedBuilds[v] = b /\ service'[v] = b
           \/ service'[v] = begun + 1 /\ begun + 1 \in Channels
<1>1. TypeOK /\ BegunInv
  BY DEF IInv
<1>2. ASSUME NEW b \in Channels, TakeChannel(b)
      PROVE  channel[b] = "built" /\ pinnedBuilds[v] = b /\ service'[v] = b
  BY <1>1, <1>2 DEF TakeChannel, Discard, TypeOK, BegunInv, None
<1>3. ASSUME NEW c \in Calls, UnreachedReplaces(c)
      PROVE  service'[v] = begun + 1 /\ begun + 1 \in Channels
  BY <1>1, <1>3, TransportAssumption DEF UnreachedReplaces, TypeOK, Channels
<1>4. ASSUME NEW c \in Calls, UnreachedDrops(c) PROVE FALSE
  BY <1>1, <1>4 DEF UnreachedDrops, TypeOK
<1>5. (\E b \in Channels : TakeChannel(b)) \/ (\E c \in Calls : UnreachedReplaces(c))
  BY <1>4 DEF Next, CallOnClosed, CallOnService, JoinBuild, BeginBuild, BuildAwaited,
     WindowEnds, Send, Answered, UnreachedKept, BuildThrows, BuildReturns,
     ForgetSettled, Close
<1> QED
  BY <1>2, <1>3, <1>5

\* A channel that takes a validator's place is newer than all it had before.
THEOREM NewerInstalls == Spec => InstallsOnlyNewer
<1> DEFINE Newer ==
      \A v \in Validators :
         service'[v] # service[v] /\ service'[v] # None
           => \A n \in Channels :
                 at[n] = v /\ channel[n] \in {"open", "dropped"} => n < service'[v]
<1>1. ASSUME IInv, Next PROVE Newer
  <2> SUFFICES ASSUME NEW v \in Validators,
                      service'[v] # service[v], service'[v] # None,
                      NEW n \in Channels, at[n] = v, channel[n] \in {"open", "dropped"}
               PROVE  n < service'[v]
    OBVIOUS
  <2> TypeOK /\ BegunInv /\ BuildsInv
    BY <1>1 DEF IInv
  <2>1. CASE \E b \in Channels :
                channel[b] = "built" /\ pinnedBuilds[v] = b /\ service'[v] = b
    BY <2>1, TransportAssumption DEF BuildsInv, Channels, None
  <2>2. CASE service'[v] = begun + 1 /\ begun + 1 \in Channels
    BY <2>2, TransportAssumption DEF BegunInv, TypeOK, Channels
  <2> QED
    BY <1>1, <2>1, <2>2, Installing
<1>2. ASSUME UNCHANGED vars PROVE Newer
  BY <1>2 DEF vars
<1>3. IInv /\ [Next]_vars => [Newer]_vars
  BY <1>1, <1>2
<1> QED
  BY Invariance, <1>3, PTL DEF Spec, InstallsOnlyNewer

\* An installed channel is closed only by close() or by its own failed call.
THEOREM ClosesForCause == Spec => ClosedOnlyForCause
<1> DEFINE Caused ==
      \A n \in Channels :
         channel[n] = "open" /\ channel'[n] # "open"
           => \/ closed'
              \/ \E c \in Calls : pc[c] = "sent" /\ pc'[c] = "unreached" /\ on[c] = n
<1>1. ASSUME IInv, Next PROVE Caused
  <2> SUFFICES ASSUME NEW n \in Channels, channel[n] = "open", channel'[n] # "open", ~closed'
               PROVE  \E c \in Calls : pc[c] = "sent" /\ pc'[c] = "unreached" /\ on[c] = n
    OBVIOUS
  <2> TypeOK /\ BegunInv
    BY <1>1 DEF IInv
  <2>1. ASSUME NEW b \in Channels,
               BuildThrows(b) \/ BuildReturns(b) \/ TakeChannel(b)
        PROVE  FALSE
    BY <2>1 DEF BuildThrows, BuildReturns, TakeChannel, Discard, TypeOK
  <2>2. ASSUME NEW c \in Calls, NEW v \in Validators, BeginBuild(c, v) PROVE FALSE
    BY <2>2 DEF BeginBuild, Begin, TypeOK, BegunInv, Channels
  <2>3. ASSUME NEW c \in Calls, UnreachedDrops(c) \/ UnreachedReplaces(c)
        PROVE  pc[c] = "sent" /\ pc'[c] = "unreached" /\ on[c] = n
    BY <2>3 DEF UnreachedDrops, UnreachedReplaces, Move, TypeOK
  <2>4. \E c \in Calls : UnreachedDrops(c) \/ UnreachedReplaces(c)
    BY <1>1, <2>1, <2>2 DEF Next, CallOnClosed, CallOnService, JoinBuild, BuildAwaited,
       WindowEnds, Send, Answered, UnreachedKept, ForgetSettled, Close
  <2> QED
    BY <2>3, <2>4
<1>2. ASSUME UNCHANGED vars PROVE Caused
  BY <1>2 DEF vars
<1>3. IInv /\ [Next]_vars => [Caused]_vars
  BY <1>1, <1>2
<1> QED
  BY Invariance, <1>3, PTL DEF Spec, ClosedOnlyForCause

-----------------------------------------------------------------------------
(* CommitteePin. For any keys, committees, setups and lag of the chain     *)
(* reads: the client holds only committees that are fresh against the      *)
(* highest epoch it read, refuses no member, and connects to no key whose  *)
(* committee the chain had left before its last read became due.           *)

\* A young chain read was made after the one before it became too old, so it
\* shows at least the epoch of that time, less the lag.
ReadInv ==
    /\ agedAt <= chain /\ chain <= signed
    /\ ~aged => agedAt <= chainEpoch + MaxLag

\* Some committee, not older than what was read when the setup began, lacks its key.
Lacked(s) == \E e \in Epochs : e >= since[s] /\ key[s] \notin committee[e]

\* What a setup knows: the read of its check is recorded and young, its answer is
\* fresh against that read, and an answer without its key is not an old one.
SetupsInv ==
    \A s \in Setups :
        /\ since[s] <= chainEpoch
        /\ stage[s] \in {"verifying", "keeping"} => answer[s] \in Epochs
        /\ stage[s] = "keeping" =>
              /\ seen[s] \in Epochs /\ seen[s] <= chainEpoch
              /\ seen[s] <= answer[s] /\ answer[s] <= seen[s] + 1
              /\ agedAt <= chainEpoch + MaxLag
        /\ stage[s] = "concluding" /\ ~isMember[s] => Lacked(s)

\* The inductive invariant.
PinInv ==
    /\ PinTypeOK
    /\ HeldCommitteesAreFresh
    /\ ReadInv
    /\ SetupsInv
    /\ MembersAreNotRefused

\* What recording a chain read makes of the epoch and of the committees held: the
\* epoch does not move back, and what is kept is fresh against it.
LEMMA Recorded ==
    ASSUME PinTypeOK, HeldCommitteesAreFresh, NEW read \in Epochs
    PROVE  /\ Later(read) \in 0 .. MaxEpoch
           /\ chainEpoch <= Later(read) /\ read <= Later(read)
           /\ DropOlderThan(held, Later(read)) \subseteq Epochs
           /\ \A h \in DropOlderThan(held, Later(read)) :
                 Later(read) <= h /\ h <= Later(read) + 1
<1> USE PinAssumption DEF Epochs
<1>1. /\ Later(read) \in 0 .. MaxEpoch
      /\ chainEpoch <= Later(read) /\ read <= Later(read)
  BY DEF PinTypeOK, PinTypes, SetupTypes, Later
<1>2. held \subseteq Epochs /\ chainEpoch \in 0 .. MaxEpoch
  BY DEF PinTypeOK, PinTypes, SetupTypes
<1>3. DropOlderThan(held, Later(read)) \subseteq Epochs
  BY <1>2 DEF DropOlderThan
<1>4. \A h \in DropOlderThan(held, Later(read)) : Later(read) <= h /\ h <= Later(read) + 1
  BY <1>1, <1>2 DEF HeldCommitteesAreFresh, DropOlderThan
<1> QED
  BY <1>1, <1>3, <1>4

\* A chain read is of an epoch the chain reached, and it is young: it shows at
\* least the epoch of the time when a read last became too old, less the lag.
LEMMA ReadsAreYoung ==
    ASSUME PinTypeOK, HeldCommitteesAreFresh, ReadInv, NEW read \in Reads
    PROVE  read \in Epochs /\ agedAt <= Later(read) + MaxLag
<1>1. read \in Epochs /\ chain <= read + MaxLag
  BY PinAssumption DEF PinTypeOK, PinTypes, SetupTypes, Reads, Epochs
<1>2. read <= Later(read) /\ Later(read) \in 0 .. MaxEpoch
  BY <1>1, Recorded
<1>3. agedAt \in Nat /\ chain \in Nat /\ MaxLag \in Nat /\ MaxEpoch \in Nat /\ read \in Nat
  BY <1>1, PinAssumption DEF PinTypeOK, PinTypes, SetupTypes, Epochs
<1>4. agedAt <= chain
  BY DEF ReadInv
<1> QED
  BY <1>1, <1>2, <1>3, <1>4

\* A new client satisfies the invariant.
LEMMA PinInvInit == PinInit => PinInv
<1> SUFFICES ASSUME PinInit PROVE PinInv
  OBVIOUS
<1> USE PinAssumption DEF PinInit, Epochs
<1>1. PinTypeOK
  BY DEF PinTypeOK, PinTypes, SetupTypes, Running
<1>2. HeldCommitteesAreFresh /\ ReadInv /\ SetupsInv /\ MembersAreNotRefused
  BY DEF HeldCommitteesAreFresh, ReadInv, SetupsInv, MembersAreNotRefused
<1> QED
  BY <1>1, <1>2 DEF PinInv

\* Every step keeps the invariant.
LEMMA PinInvStep == PinInv /\ [PinNext]_connectVars => PinInv'
<1> SUFFICES ASSUME PinInv, [PinNext]_connectVars PROVE PinInv'
  OBVIOUS
<1> USE PinAssumption DEF PinInv, Epochs
<1>1. CASE Sign
  <2> USE <1>1 DEF Sign, pinVars, setupVars, readVars
  <2>1. PinTypeOK' /\ HeldCommitteesAreFresh' /\ ReadInv'
    BY DEF PinTypeOK, PinTypes, SetupTypes, HeldCommitteesAreFresh, ReadInv
  <2>2. SetupsInv' /\ MembersAreNotRefused'
    BY DEF SetupsInv, MembersAreNotRefused, Lacked
  <2> QED
    BY <2>1, <2>2
<1>2. CASE Advance
  <2> USE <1>2 DEF Advance, pinVars, setupVars, readVars
  <2>1. PinTypeOK' /\ HeldCommitteesAreFresh' /\ ReadInv'
    BY DEF PinTypeOK, PinTypes, SetupTypes, HeldCommitteesAreFresh, ReadInv
  <2>2. SetupsInv' /\ MembersAreNotRefused'
    BY DEF SetupsInv, MembersAreNotRefused, Lacked
  <2> QED
    BY <2>1, <2>2
<1>3. CASE Age
  <2> USE <1>3 DEF Age, worldVars, setupVars, readVars
  <2>1. PinTypeOK' /\ HeldCommitteesAreFresh' /\ ReadInv'
    BY DEF PinTypeOK, PinTypes, SetupTypes, HeldCommitteesAreFresh, ReadInv
  <2>2. SetupsInv' /\ MembersAreNotRefused'
    BY DEF SetupsInv, MembersAreNotRefused, Lacked, Immediate
  <2> QED
    BY <2>1, <2>2
<1>4. ASSUME NEW s \in Setups, BeginSetup(s) PROVE PinInv'
  <2> USE <1>4 DEF BeginSetup, Goto, worldVars, pinVars, readVars
  <2>1. PinTypeOK'
    BY DEF PinTypeOK, PinTypes, SetupTypes, Running
  <2>2. HeldCommitteesAreFresh' /\ ReadInv'
    BY DEF HeldCommitteesAreFresh, ReadInv
  <2>3. SetupsInv' /\ MembersAreNotRefused'
    BY DEF SetupsInv, MembersAreNotRefused, Lacked, PinTypeOK, PinTypes, SetupTypes
  <2> QED
    BY <2>1, <2>2, <2>3
<1>5. ASSUME NEW s \in Setups, FetchCertificate(s) PROVE PinInv'
  <2> USE <1>5 DEF FetchCertificate, Goto, worldVars, pinVars, readVars
  <2>1. PinTypeOK'
    BY DEF PinTypeOK, PinTypes, SetupTypes, Running
  <2>2. HeldCommitteesAreFresh' /\ ReadInv'
    BY DEF HeldCommitteesAreFresh, ReadInv
  <2>3. SetupsInv' /\ MembersAreNotRefused'
    BY DEF SetupsInv, MembersAreNotRefused, Lacked, PinTypeOK, PinTypes, SetupTypes
  <2> QED
    BY <2>1, <2>2, <2>3
<1>6. ASSUME NEW s \in Setups, RefreshChainEpoch(s) PROVE PinInv'
  <2>1. PICK read \in Reads : RecordChainEpoch(read)
    BY <1>6 DEF RefreshChainEpoch
  <2>2. read \in Epochs /\ agedAt <= Later(read) + MaxLag
    BY ReadsAreYoung
  <2>3. /\ Later(read) \in 0 .. MaxEpoch /\ chainEpoch <= Later(read)
        /\ DropOlderThan(held, Later(read)) \subseteq Epochs
        /\ \A h \in DropOlderThan(held, Later(read)) :
              Later(read) <= h /\ h <= Later(read) + 1
    BY <2>2, Recorded
  <2> USE <1>6, <2>1 DEF RefreshChainEpoch, RecordChainEpoch, Goto, worldVars, readVars
  <2>4. PinTypeOK' /\ HeldCommitteesAreFresh'
    BY <2>3 DEF PinTypeOK, PinTypes, SetupTypes, HeldCommitteesAreFresh, Running
  <2>5. ReadInv'
    BY <2>2 DEF ReadInv
  <2>6. SetupsInv'
    BY <2>2, <2>3, SMTT(30) DEF SetupsInv, Lacked, PinTypeOK, PinTypes, SetupTypes
  <2>7. MembersAreNotRefused'
    BY DEF MembersAreNotRefused, PinTypeOK, PinTypes, SetupTypes
  <2> QED
    BY <2>4, <2>5, <2>6, <2>7
<1>7. ASSUME NEW s \in Setups, CheckHeld(s) PROVE PinInv'
  <2> USE <1>7 DEF CheckHeld, Goto, worldVars, pinVars, readVars
  <2>1. PinTypeOK'
    BY DEF PinTypeOK, PinTypes, SetupTypes, Running
  <2>2. HeldCommitteesAreFresh' /\ ReadInv'
    BY DEF HeldCommitteesAreFresh, ReadInv
  <2>3. SetupsInv' /\ MembersAreNotRefused'
    BY DEF SetupsInv, MembersAreNotRefused, Lacked, PinTypeOK, PinTypes, SetupTypes
  <2> QED
    BY <2>1, <2>2, <2>3
<1>8. ASSUME NEW s \in Setups, CommitteeAnswered(s) PROVE PinInv'
  <2> USE <1>8 DEF CommitteeAnswered, Goto, worldVars, pinVars
  <2>1. PinTypeOK'
    BY DEF PinTypeOK, PinTypes, SetupTypes, Running
  <2>2. HeldCommitteesAreFresh' /\ ReadInv'
    BY DEF HeldCommitteesAreFresh, ReadInv
  <2>3. SetupsInv' /\ MembersAreNotRefused'
    BY DEF SetupsInv, MembersAreNotRefused, Lacked, PinTypeOK, PinTypes, SetupTypes
  <2> QED
    BY <2>1, <2>2, <2>3
<1>9. ASSUME NEW s \in Setups, ReadFreshEpoch(s) PROVE PinInv'
  <2>1. PICK read \in Reads :
          /\ RecordChainEpoch(read)
          /\ \/ End(s) /\ EndRead(s)
             \/ /\ Standing(answer[s], read) = "fresh"
                /\ Goto(s, "keeping")
                /\ seen' = [seen EXCEPT ![s] = read]
                /\ UNCHANGED <<answer, next, key, since>>
             \/ UNCHANGED <<stage, readVars, key, since>>
    BY <1>9 DEF ReadFreshEpoch
  <2>2. read \in Epochs /\ agedAt <= Later(read) + MaxLag
    BY ReadsAreYoung
  <2>3. /\ Later(read) \in 0 .. MaxEpoch
        /\ chainEpoch <= Later(read) /\ read <= Later(read)
        /\ DropOlderThan(held, Later(read)) \subseteq Epochs
    BY <2>2, Recorded
  <2>4. /\ stage[s] = "verifying"
        /\ UNCHANGED <<committee, signed, chain, isMember, connected>>
    BY <1>9 DEF ReadFreshEpoch, worldVars
  <2> USE <2>1 DEF RecordChainEpoch
  <2>5. HeldCommitteesAreFresh' /\ ReadInv'
    BY <2>2, <2>4, Recorded DEF HeldCommitteesAreFresh, ReadInv
  <2>6. CASE End(s) /\ EndRead(s)
    <3> USE <2>6 DEF End, EndRead, Goto
    <3>1. PinTypeOK'
      <4>1. PinTypes'
        BY <2>3, <2>4 DEF PinTypeOK, PinTypes
      <4>2. SetupTypes'
        BY <2>3, <2>4 DEF PinTypeOK, SetupTypes, Running
      <4> QED
        BY <2>3, <2>4, <4>1, <4>2 DEF PinTypeOK, SetupTypes, Running
    <3>2. SetupsInv'
      BY <2>2, <2>3, <2>4, SMTT(30) DEF SetupsInv, Lacked, PinTypeOK, PinTypes, SetupTypes
    <3>3. MembersAreNotRefused'
      BY <2>2, <2>3, <2>4, SMTT(30) DEF MembersAreNotRefused, PinTypeOK, PinTypes, SetupTypes
    <3> QED
      BY <2>5, <3>1, <3>2, <3>3
  <2>7. CASE /\ Standing(answer[s], read) = "fresh"
             /\ Goto(s, "keeping")
             /\ seen' = [seen EXCEPT ![s] = read]
             /\ UNCHANGED <<answer, next, key, since>>
    <3> USE <2>7 DEF Goto
    <3>1. PinTypeOK'
      <4>1. PinTypes'
        BY <2>2, <2>3, <2>4 DEF PinTypeOK, PinTypes
      <4>2. SetupTypes'
        BY <2>2, <2>3, <2>4 DEF PinTypeOK, SetupTypes, Running
      <4> QED
        BY <2>2, <2>3, <2>4, <4>1, <4>2 DEF PinTypeOK, SetupTypes, Running
    <3>2. answer[s] \in Epochs
      BY <2>4 DEF SetupsInv
    <3>3. read <= answer[s] /\ answer[s] <= read + 1
      BY <2>2, <3>2 DEF Standing
    <3>4. SetupsInv'
      BY <2>2, <2>3, <2>4, <3>2, <3>3, SMTT(30) DEF SetupsInv, Lacked, PinTypeOK, PinTypes, SetupTypes
    <3>5. MembersAreNotRefused'
      BY <2>4 DEF MembersAreNotRefused, PinTypeOK, PinTypes, SetupTypes
    <3> QED
      BY <2>5, <3>1, <3>4, <3>5
  <2>8. CASE UNCHANGED <<stage, readVars, key, since>>
    <3> USE <2>8 DEF readVars
    <3>1. PinTypeOK'
      BY <2>3, <2>4 DEF PinTypeOK, PinTypes, SetupTypes, Running
    <3>2. SetupsInv'
      BY <2>2, <2>3, <2>4, SMTT(30) DEF SetupsInv, Lacked, PinTypeOK, PinTypes, SetupTypes
    <3>3. MembersAreNotRefused'
      BY <2>2, <2>3, <2>4, SMTT(30) DEF MembersAreNotRefused, PinTypeOK, PinTypes, SetupTypes
    <3> QED
      BY <2>5, <3>1, <3>2, <3>3
  <2> QED
    BY <2>1, <2>6, <2>7, <2>8
<1>10. ASSUME NEW s \in Setups, KeepCommittees(s) PROVE PinInv'
  <2>1. /\ answer[s] \in Epochs /\ seen[s] \in Epochs /\ seen[s] <= chainEpoch
        /\ answer[s] <= seen[s] + 1
        /\ agedAt <= chainEpoch + MaxLag
    BY <1>10 DEF KeepCommittees, SetupsInv
  <2>2. Later(seen[s]) = chainEpoch
    BY <2>1 DEF Later, PinTypeOK, PinTypes, SetupTypes
  <2>3. /\ stage[s] = "keeping" /\ EndRead(s)
        /\ UNCHANGED <<committee, signed, chain, connected>>
    BY <1>10 DEF KeepCommittees, worldVars
  <2>4. CASE /\ RecordChainEpoch(seen[s])
             /\ End(s)
             /\ UNCHANGED isMember
    <3>1. /\ chainEpoch' = chainEpoch /\ aged' = FALSE /\ agedAt' = agedAt
          /\ held' = DropOlderThan(held, chainEpoch)
      BY <2>2, <2>4 DEF RecordChainEpoch
    <3>2. DropOlderThan(held, chainEpoch) \subseteq Epochs
      BY <2>1, <2>2, Recorded
    <3> USE <2>4 DEF End, EndRead, Goto
    <3>3. PinTypeOK'
      <4>1. PinTypes'
        BY <2>3, <3>1, <3>2 DEF PinTypeOK, PinTypes
      <4>2. SetupTypes'
        BY <2>3, <3>1, <3>2 DEF PinTypeOK, SetupTypes, Running
      <4> QED
        BY <2>3, <3>1, <3>2, <4>1, <4>2 DEF PinTypeOK, SetupTypes, Running
    <3>4. HeldCommitteesAreFresh' /\ ReadInv'
      BY <2>1, <2>2, <2>3, <3>1, Recorded DEF HeldCommitteesAreFresh, ReadInv
    <3>5. SetupsInv' /\ MembersAreNotRefused'
      BY <2>3, <3>1 DEF SetupsInv, MembersAreNotRefused, Lacked, PinTypeOK, PinTypes, SetupTypes
    <3> QED
      BY <3>3, <3>4, <3>5
  <2>5. CASE /\ answer[s] >= Later(seen[s])
             /\ aged' = FALSE
             /\ chainEpoch' = Later(seen[s])
             /\ held' = DropOlderThan(held \cup Verified(s), Later(seen[s]))
             /\ isMember' = [isMember EXCEPT ![s] =
                               \E e \in Verified(s) : key[s] \in committee[e]]
             /\ Goto(s, "concluding")
             /\ UNCHANGED <<agedAt, key, since>>
    <3> DEFINE found == \E e \in Verified(s) : key[s] \in committee[e]
               kept == DropOlderThan(held \cup Verified(s), chainEpoch)
    <3>1. \A e \in Verified(s) : e \in Epochs /\ e <= chainEpoch + 1
      <4>1. \A n \in Nat : Standing(n, seen[s]) = "fresh" => n <= seen[s] + 1
        BY <2>1 DEF Standing
      <4>2. next[s] \in 0 .. MaxEpoch /\ chainEpoch \in 0 .. MaxEpoch
        BY DEF PinTypeOK, PinTypes, SetupTypes
      <4> QED
        BY <2>1, <4>1, <4>2 DEF Verified
    <3>2. kept \subseteq Epochs
      BY <3>1 DEF DropOlderThan, PinTypeOK, PinTypes, SetupTypes
    <3>3. \A h \in kept : chainEpoch <= h /\ h <= chainEpoch + 1
      BY <3>1 DEF DropOlderThan, HeldCommitteesAreFresh, PinTypeOK, PinTypes, SetupTypes
    <3>4. ~found => Lacked(s)
      <4>1. ~found => key[s] \notin committee[answer[s]]
        BY DEF Verified
      <4>2. answer[s] >= since[s]
        BY <2>1, <2>2, <2>5 DEF SetupsInv, PinTypeOK, PinTypes, SetupTypes
      <4> QED
        BY <2>1, <4>1, <4>2 DEF Lacked
    <3>5. PICK m \in BOOLEAN : m = found
      OBVIOUS
    <3>6. /\ chainEpoch' = chainEpoch /\ aged' = FALSE /\ held' = kept
          /\ UNCHANGED <<agedAt, key, since, committee>>
          /\ stage' = [stage EXCEPT ![s] = "concluding"]
          /\ isMember' = [isMember EXCEPT ![s] = m]
      BY <2>2, <2>3, <2>5, <3>5 DEF Goto
    <3> HIDE DEF found, kept
    <3>7. PinTypeOK'
      <4>1. PinTypes'
        BY <2>3, <3>2, <3>6 DEF PinTypeOK, PinTypes
      <4>2. SetupTypes'
        BY <2>3, <3>2, <3>6 DEF PinTypeOK, SetupTypes, Running, EndRead
      <4> QED
        BY <2>3, <3>2, <3>6, <4>1, <4>2 DEF PinTypeOK, SetupTypes, Running, EndRead
    <3>8. HeldCommitteesAreFresh' /\ ReadInv'
      BY <2>1, <2>3, <3>3, <3>6 DEF HeldCommitteesAreFresh, ReadInv
    <3>9. SetupsInv' /\ MembersAreNotRefused'
      BY <2>3, <3>4, <3>5, <3>6, SMTT(30)
         DEF SetupsInv, MembersAreNotRefused, Lacked, EndRead, PinTypeOK, PinTypes, SetupTypes
    <3> QED
      BY <3>7, <3>8, <3>9
  <2> QED
    BY <1>10, <2>4, <2>5 DEF KeepCommittees
<1>11. ASSUME NEW s \in Setups, Conclude(s) PROVE PinInv'
  <2> USE <1>11 DEF Conclude, Goto, worldVars, pinVars, readVars
  <2>1. PinTypeOK'
    BY DEF PinTypeOK, PinTypes, SetupTypes, Running
  <2>2. HeldCommitteesAreFresh' /\ ReadInv'
    BY DEF HeldCommitteesAreFresh, ReadInv
  <2>3. SetupsInv' /\ MembersAreNotRefused'
    BY DEF SetupsInv, MembersAreNotRefused, Lacked, PinTypeOK, PinTypes, SetupTypes
  <2> QED
    BY <2>1, <2>2, <2>3
<1>12. ASSUME NEW s \in Setups, Fails(s) PROVE PinInv'
  <2> USE <1>12 DEF Fails, End, EndRead, Goto, worldVars, pinVars
  <2>1. PinTypeOK'
    BY DEF PinTypeOK, PinTypes, SetupTypes, Running
  <2>2. HeldCommitteesAreFresh' /\ ReadInv'
    BY DEF HeldCommitteesAreFresh, ReadInv
  <2>3. SetupsInv' /\ MembersAreNotRefused'
    BY DEF SetupsInv, MembersAreNotRefused, Lacked, PinTypeOK, PinTypes, SetupTypes
  <2> QED
    BY <2>1, <2>2, <2>3
<1>13. ASSUME NEW s \in Setups, Connect(s) \/ Disconnect(s) PROVE PinInv'
  <2> USE <1>13 DEF Connect, Disconnect, worldVars, pinVars, readVars
  <2>1. PinTypeOK'
    BY ZenonT(60) DEF PinTypeOK, PinTypes, SetupTypes, Running
  <2>2. HeldCommitteesAreFresh' /\ ReadInv'
    BY DEF HeldCommitteesAreFresh, ReadInv
  <2>3. SetupsInv' /\ MembersAreNotRefused'
    BY DEF SetupsInv, MembersAreNotRefused, Lacked
  <2> QED
    BY <2>1, <2>2, <2>3
<1>14. ASSUME NEW s \in Setups, ConnectFails(s) PROVE PinInv'
  <2> USE <1>14 DEF ConnectFails, End, Goto, worldVars, pinVars, readVars
  <2>1. PinTypeOK'
    BY DEF PinTypeOK, PinTypes, SetupTypes, Running
  <2>2. HeldCommitteesAreFresh' /\ ReadInv'
    BY DEF HeldCommitteesAreFresh, ReadInv
  <2>3. SetupsInv' /\ MembersAreNotRefused'
    BY DEF SetupsInv, MembersAreNotRefused, Lacked, PinTypeOK, PinTypes, SetupTypes
  <2> QED
    BY <2>1, <2>2, <2>3
<1>15. CASE UNCHANGED connectVars
  <2> USE <1>15 DEF connectVars, worldVars, pinVars, setupVars, readVars
  <2>1. PinTypeOK' /\ HeldCommitteesAreFresh' /\ ReadInv'
    BY DEF PinTypeOK, PinTypes, SetupTypes, HeldCommitteesAreFresh, ReadInv
  <2>2. SetupsInv' /\ MembersAreNotRefused'
    BY DEF SetupsInv, MembersAreNotRefused, Lacked
  <2> QED
    BY <2>1, <2>2
<1> QED
  BY <1>1, <1>2, <1>3, <1>4, <1>5, <1>6, <1>7, <1>8, <1>9, <1>10, <1>11, <1>12,
     <1>13, <1>14, <1>15 DEF PinNext

\* The invariant holds in every reachable state.
THEOREM PinInvariance == PinSpec => []PinInv
<1>1. PinInit => PinInv
  BY PinInvInit
<1>2. PinInv /\ [PinNext]_connectVars => PinInv'
  BY PinInvStep
<1> QED
  BY <1>1, <1>2, PTL DEF PinSpec

\* The client's and the setups' state keeps its types.
THEOREM PinTypeCorrect == PinSpec => []PinTypeOK
<1>1. PinInv => PinTypeOK
  BY DEF PinInv
<1> QED
  BY PinInvariance, <1>1, PTL

\* VerifiedMembers holds only committees of the highest chain epoch read or the
\* one after, whichever setup's read is kept last.
THEOREM HeldAreFresh == PinSpec => []HeldCommitteesAreFresh
<1>1. PinInv => HeldCommitteesAreFresh
  BY DEF PinInv
<1> QED
  BY PinInvariance, <1>1, PTL

\* connect refuses a key only when a committee that is not old lacks it.
THEOREM NoMemberRefused == PinSpec => []MembersAreNotRefused
<1>1. PinInv => MembersAreNotRefused
  BY DEF PinInv
<1> QED
  BY PinInvariance, <1>1, PTL

\* Only Connect makes a connection, and reconnectCheck has passed then.
LEMMA Connecting ==
    ASSUME PinInv, PinNext, NEW s \in Setups, ~connected[s], connected'[s]
    PROVE  ~aged /\ Contains(key[s])
<1>1. connected \in [Setups -> BOOLEAN]
  BY DEF PinInv, PinTypeOK, PinTypes, SetupTypes
<1>2. ASSUME NEW t \in Setups, Connect(t) PROVE ~aged /\ Contains(key[s])
  <2>1. t = s
    BY <1>1, <1>2 DEF Connect
  <2> QED
    BY <1>2, <2>1 DEF Connect, ReconnectCheck
<1>3. ASSUME NEW t \in Setups, Disconnect(t) PROVE FALSE
  BY <1>1, <1>3 DEF Disconnect
<1>4. ASSUME UNCHANGED connected PROVE FALSE
  BY <1>4
<1>5. CASE Sign \/ Advance \/ Age
  BY <1>4, <1>5 DEF Sign, Advance, Age, setupVars
<1>6. ASSUME NEW t \in Setups,
             \/ BeginSetup(t) \/ FetchCertificate(t) \/ RefreshChainEpoch(t) \/ CheckHeld(t)
             \/ CommitteeAnswered(t) \/ ReadFreshEpoch(t) \/ KeepCommittees(t)
             \/ Conclude(t) \/ Fails(t) \/ ConnectFails(t)
      PROVE  FALSE
  BY <1>4, <1>6 DEF BeginSetup, FetchCertificate, RefreshChainEpoch, CheckHeld,
       CommitteeAnswered, ReadFreshEpoch, KeepCommittees, Conclude, Fails, ConnectFails
<1> QED
  BY <1>2, <1>3, <1>5, <1>6 DEF PinNext

\* A connection is made only to a key in a committee that the chain had not left,
\* but for the lag, when a chain read last became too old.
THEOREM FormerMembersOut == PinSpec => FormerMembersStayOut
<1> DEFINE Out ==
      \A s \in Setups :
         ~connected[s] /\ connected'[s] =>
            \E e \in Epochs : key[s] \in committee[e] /\ agedAt <= e + MaxLag
<1>1. ASSUME PinInv, PinNext PROVE Out
  <2> SUFFICES ASSUME NEW s \in Setups, ~connected[s], connected'[s]
               PROVE  \E e \in Epochs : key[s] \in committee[e] /\ agedAt <= e + MaxLag
    OBVIOUS
  <2>1. ~aged /\ Contains(key[s])
    BY <1>1, Connecting
  <2>2. PICK e \in held : key[s] \in committee[e]
    BY <2>1 DEF Contains
  <2>3. e \in Epochs /\ chainEpoch <= e
    BY <1>1, <2>2 DEF PinInv, PinTypeOK, PinTypes, SetupTypes, HeldCommitteesAreFresh
  <2>4. agedAt <= e + MaxLag
    BY <1>1, <2>1, <2>3, PinAssumption DEF PinInv, PinTypeOK, PinTypes, SetupTypes, ReadInv, Epochs
  <2> QED
    BY <2>2, <2>3, <2>4
<1>2. ASSUME UNCHANGED connectVars PROVE Out
  BY <1>2 DEF connectVars, setupVars
<1>3. PinInv /\ [PinNext]_connectVars => [Out]_connectVars
  BY <1>1, <1>2
<1> QED
  BY PinInvariance, <1>3, PTL DEF PinSpec, FormerMembersStayOut
=============================================================================

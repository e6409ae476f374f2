---------------------------- MODULE EffectsProofs ----------------------------
(***************************************************************************)
(* What the run of the components that write files or hand them out shows  *)
(* on a small instance, for any constants: each component has an inductive *)
(* invariant of its own, and a step of one leaves the others as they are.  *)
(***************************************************************************)
EXTENDS MCEffects, FiniteSetTheorems, SequenceTheorems, WellFoundedInduction, TLAPS

-----------------------------------------------------------------------------
(* The bounded run machine, for any tools, sizes, times and limits: its    *)
(* limits hold, and what runs was allowed.  The invariant adds to the      *)
(* properties what holds of a call before it runs.                         *)

\* A call that waits for the policy or for the user may run once it is let through.
CallIsReady == phase \in {"policy", "awaiting_approval"} =>
    pending # NoTool /\ pending.name \in allowed /\ calls < MaxToolCalls

MachineInv == MachineTypeOK /\ ToolRunsAsAllowed /\ LimitsHold /\ TurnsAreAccounted /\ CallIsReady

\* The initial state is as the invariant says: no limit is below zero.
LEMMA MachineInvInitially == MachineInit => MachineInv
  BY MachineAssumption
  DEF MachineInit, MachineInv, MachineTypeOK, ToolRunsAsAllowed, LimitsHold, TurnsAreAccounted, CallIsReady,
      Phases, Reasons, Limits

\* A machine that stops keeps the invariant, if it was within its limits or stops for the one it passed.
LEMMA StopKeepsMachine ==
  ASSUME MachineInv, phase \notin {"completed", "stopped"},
         NEW reason \in Reasons \ {"none"}, Stop(reason),
         turns' \in 0 .. MaxModelTurns, calls' \in 0 .. MaxToolCalls, retries' \in 0 .. MaxRetries,
         bytes' \in Nat, bytes' > MaxOutputBytes => reason = "output_bytes",
         observed' \in Nat, observed' > MaxWallTime => reason = "wall_time"
  PROVE  MachineInv'
  BY MachineAssumption
  DEF Stop, MachineInv, MachineTypeOK, ToolRunsAsAllowed, LimitsHold, TurnsAreAccounted, CallIsReady,
      Phases, Reasons, Limits

\* What a step that is in time reports leaves the longest time within its limit.
LEMMA InTimeIsWithin ==
  ASSUME MachineInv, phase \notin {"completed", "stopped"},
         NEW elapsed \in Times, InTime(elapsed), Observe(elapsed)
  PROVE  observed' \in Nat /\ observed' <= MaxWallTime
  BY MachineAssumption
  DEF MachineInv, MachineTypeOK, LimitsHold, InTime, Observe, Reasons, Limits

\* While the machine has not stopped, it is within every limit and has no reason to have.
LEMMA WithinWhileLive ==
  ASSUME MachineInv, phase # "stopped"
  PROVE  /\ stopReason = "none"
         /\ turns \in 0 .. MaxModelTurns /\ calls \in 0 .. MaxToolCalls /\ retries \in 0 .. MaxRetries
         /\ bytes \in 0 .. MaxOutputBytes /\ observed \in 0 .. MaxWallTime
  BY MachineAssumption
  DEF MachineInv, MachineTypeOK, LimitsHold, Reasons, Limits

\* Every step keeps the invariant.
LEMMA MachineStepKeepsInv == MachineInv /\ [MachineNext]_machineVars => MachineInv'
<1> SUFFICES ASSUME MachineInv, [MachineNext]_machineVars
             PROVE  MachineInv'
  OBVIOUS
<1> USE MachineAssumption
<1> DEFINE Parts == <<turns, calls, retries, bytes>>
<1>1. CASE Propose
  BY <1>1 DEF Propose, Go, usageVars, MachineInv, MachineTypeOK, ToolRunsAsAllowed, LimitsHold,
              TurnsAreAccounted, CallIsReady, Phases
<1>2. CASE Cancel
  <2>1. "cancelled" \in Reasons \ {"none"} /\ phase # "stopped"
    BY <1>2 DEF Cancel, Reasons, Limits
  <2> QED
    BY <1>2, <2>1, WithinWhileLive, StopKeepsMachine DEF Cancel, usageVars
<1>3. ASSUME NEW tools \in SUBSET ToolNames, Confirm(tools)
      PROVE  MachineInv'
  BY <1>3 DEF Confirm, usageVars, MachineInv, MachineTypeOK, ToolRunsAsAllowed, LimitsHold,
              TurnsAreAccounted, CallIsReady, Phases
<1>4. ASSUME NEW elapsed \in Times, OutOfTime(elapsed)
      PROVE  MachineInv'
  <2>1. "wall_time" \in Reasons \ {"none"} /\ phase \notin {"completed", "stopped"}
    BY <1>4 DEF OutOfTime, Reasons, Limits
  <2>2. observed' \in Nat
    BY <1>4 DEF OutOfTime, Observe, MachineInv, MachineTypeOK
  <2> QED
    BY <1>4, <2>1, <2>2, WithinWhileLive, StopKeepsMachine DEF OutOfTime
<1>5. ASSUME NEW elapsed \in Times, NoTurnLeft(elapsed)
      PROVE  MachineInv'
  <2>1. "model_turns" \in Reasons \ {"none"} /\ phase \notin {"completed", "stopped"}
    BY <1>5 DEF NoTurnLeft, BeginStep, Reasons, Limits
  <2>2. observed' \in Nat /\ observed' <= MaxWallTime
    BY <1>5, <2>1, InTimeIsWithin DEF NoTurnLeft, BeginStep
  <2> QED
    BY <1>5, <2>1, <2>2, WithinWhileLive, StopKeepsMachine DEF NoTurnLeft
<1>6. ASSUME NEW elapsed \in Times, NEW size \in Sizes, CompleteWithArtifact(size, elapsed)
      PROVE  MachineInv'
  <2>1. phase = "model"
    BY <1>6 DEF CompleteWithArtifact, BeginStep
  <2>2. observed' \in Nat /\ observed' <= MaxWallTime
    BY <1>6, <2>1, InTimeIsWithin DEF CompleteWithArtifact, BeginStep
  <2>3. bytes' \in Nat /\ turns' = turns + 1 /\ turns' \in 0 .. MaxModelTurns
    BY <1>6, <2>1, WithinWhileLive DEF CompleteWithArtifact, Saturated, TurnLeft
  <2>4. CASE bytes' > MaxOutputBytes
    <3>1. "output_bytes" \in Reasons \ {"none"}
      BY DEF Reasons, Limits
    <3> QED
      BY <1>6, <2>1, <2>2, <2>3, <2>4, <3>1, WithinWhileLive, StopKeepsMachine DEF CompleteWithArtifact
  <2>5. CASE ~(bytes' > MaxOutputBytes)
    BY <1>6, <2>1, <2>2, <2>3, <2>5
    DEF CompleteWithArtifact, Go, MachineInv, MachineTypeOK, ToolRunsAsAllowed, LimitsHold,
        TurnsAreAccounted, CallIsReady, Phases
  <2> QED
    BY <2>4, <2>5
<1>7. ASSUME NEW elapsed \in Times, NEW request \in Requests, CompleteWithCall(request, elapsed)
      PROVE  MachineInv'
  <2>1. phase = "model"
    BY <1>7 DEF CompleteWithCall, BeginStep
  <2>2. observed' \in Nat /\ observed' <= MaxWallTime
    BY <1>7, <2>1, InTimeIsWithin DEF CompleteWithCall, BeginStep
  <2>3. turns' = turns + 1 /\ turns' \in 0 .. MaxModelTurns
    BY <1>7, <2>1, WithinWhileLive DEF CompleteWithCall, TurnLeft
  <2>4. {"capability_denied", "tool_calls"} \subseteq Reasons \ {"none"}
    BY DEF Reasons, Limits
  <2>5. CASE request.name \in allowed /\ CallLeft
    BY <1>7, <2>1, <2>2, <2>3, <2>5
    DEF CompleteWithCall, CallLeft, Requests, Go, MachineInv, MachineTypeOK, ToolRunsAsAllowed, LimitsHold,
        TurnsAreAccounted, CallIsReady, Phases
  <2>6. CASE request.name \notin allowed
    BY <1>7, <2>1, <2>2, <2>3, <2>4, <2>6, WithinWhileLive, StopKeepsMachine DEF CompleteWithCall
  <2>7. CASE request.name \in allowed /\ ~CallLeft
    BY <1>7, <2>1, <2>2, <2>3, <2>4, <2>7, WithinWhileLive, StopKeepsMachine DEF CompleteWithCall
  <2> QED
    BY <2>5, <2>6, <2>7
<1>8. ASSUME NEW elapsed \in Times, NEW decision \in Decisions, ApplyPolicy(decision, elapsed)
      PROVE  MachineInv'
  <2>1. phase = "policy"
    BY <1>8 DEF ApplyPolicy
  <2>2. observed' \in Nat /\ observed' <= MaxWallTime
    BY <1>8, <2>1, InTimeIsWithin DEF ApplyPolicy
  <2>3. {"policy_denied", "policy_mismatch"} \subseteq Reasons \ {"none"}
    BY DEF Reasons, Limits
  <2>4. CASE MayGoUnasked(decision)
    <3>1. Go("tool") /\ UNCHANGED <<pending, approved>> /\ UNCHANGED Parts
      BY <1>8, <2>4 DEF ApplyPolicy, MayGoUnasked
    <3> QED
      BY <2>1, <2>2, <2>4, <3>1
      DEF MayGoUnasked, Go, MachineInv, MachineTypeOK, ToolRunsAsAllowed, LimitsHold,
          TurnsAreAccounted, CallIsReady, Phases
  <2>5. CASE decision = "require_approval"
    <3>1. Go("awaiting_approval") /\ UNCHANGED <<pending, approved>> /\ UNCHANGED Parts
      BY <1>8, <2>5 DEF ApplyPolicy, MayGoUnasked
    <3> QED
      BY <2>1, <2>2, <3>1
      DEF Go, MachineInv, MachineTypeOK, ToolRunsAsAllowed, LimitsHold, TurnsAreAccounted, CallIsReady, Phases
  <2>6. CASE ~MayGoUnasked(decision) /\ decision # "require_approval"
    <3>1. \E reason \in {"policy_denied", "policy_mismatch"} : Stop(reason)
      BY <1>8, <2>6 DEF ApplyPolicy
    <3>2. UNCHANGED Parts
      BY <1>8 DEF ApplyPolicy
    <3> QED
      BY <2>1, <2>2, <2>3, <3>1, <3>2, WithinWhileLive, StopKeepsMachine
  <2> QED
    BY <2>4, <2>5, <2>6
<1>9. ASSUME NEW elapsed \in Times, ApproveEffect(elapsed)
      PROVE  MachineInv'
  <2>1. observed' \in Nat /\ observed' <= MaxWallTime
    BY <1>9, InTimeIsWithin DEF ApproveEffect
  <2> QED
    BY <1>9, <2>1
    DEF ApproveEffect, Go, MachineInv, MachineTypeOK, ToolRunsAsAllowed, LimitsHold, TurnsAreAccounted,
        CallIsReady, Phases
<1>10. ASSUME NEW elapsed \in Times, RejectEffect(elapsed) \/ Reject(elapsed)
       PROVE  MachineInv'
  <2>1. phase \in {"awaiting_approval", "validation"}
    BY <1>10 DEF RejectEffect, Reject
  <2>2. observed' \in Nat /\ observed' <= MaxWallTime
    BY <1>10, <2>1, InTimeIsWithin DEF RejectEffect, Reject
  <2>3. \E reason \in Reasons \ {"none"} : Stop(reason)
    BY <1>10 DEF RejectEffect, Reject, Reasons, Limits
  <2> QED
    BY <1>10, <2>1, <2>2, <2>3, WithinWhileLive, StopKeepsMachine DEF RejectEffect, Reject
<1>11. ASSUME NEW elapsed \in Times, CompleteTool(elapsed)
       PROVE  MachineInv'
  <2>1. phase = "tool"
    BY <1>11 DEF CompleteTool
  <2>2. observed' \in Nat /\ observed' <= MaxWallTime
    BY <1>11, <2>1, InTimeIsWithin DEF CompleteTool
  <2>3. CASE CallLeft
    BY <1>11, <2>1, <2>2, <2>3
    DEF CompleteTool, CallLeft, Go, MachineInv, MachineTypeOK, ToolRunsAsAllowed, LimitsHold, TurnsAreAccounted,
        CallIsReady, Phases
  <2>4. CASE ~CallLeft
    <3>1. "tool_calls" \in Reasons \ {"none"}
      BY DEF Reasons, Limits
    <3> QED
      BY <1>11, <2>1, <2>2, <2>4, <3>1, WithinWhileLive, StopKeepsMachine DEF CompleteTool
  <2> QED
    BY <2>3, <2>4
<1>12. ASSUME NEW elapsed \in Times, Accept(elapsed)
       PROVE  MachineInv'
  <2>1. observed' \in Nat /\ observed' <= MaxWallTime
    BY <1>12, InTimeIsWithin DEF Accept
  <2> QED
    BY <1>12, <2>1
    DEF Accept, Go, MachineInv, MachineTypeOK, ToolRunsAsAllowed, LimitsHold, TurnsAreAccounted, CallIsReady, Phases
<1>13. ASSUME NEW elapsed \in Times, Repair(elapsed)
       PROVE  MachineInv'
  <2>1. phase = "validation"
    BY <1>13 DEF Repair
  <2>2. observed' \in Nat /\ observed' <= MaxWallTime
    BY <1>13, <2>1, InTimeIsWithin DEF Repair
  <2>3. CASE retries < MaxRetries
    BY <1>13, <2>1, <2>2, <2>3
    DEF Repair, Go, MachineInv, MachineTypeOK, ToolRunsAsAllowed, LimitsHold, TurnsAreAccounted, CallIsReady, Phases
  <2>4. CASE ~(retries < MaxRetries)
    <3>1. "retries" \in Reasons \ {"none"}
      BY DEF Reasons, Limits
    <3> QED
      BY <1>13, <2>1, <2>2, <2>4, <3>1, WithinWhileLive, StopKeepsMachine DEF Repair
  <2> QED
    BY <2>3, <2>4
<1>14. CASE UNCHANGED machineVars
  BY <1>14 DEF machineVars, MachineInv, MachineTypeOK, ToolRunsAsAllowed, LimitsHold, TurnsAreAccounted, CallIsReady
<1> QED
  BY <1>1, <1>2, <1>3, <1>4, <1>5, <1>6, <1>7, <1>8, <1>9, <1>10, <1>11, <1>12, <1>13, <1>14 DEF MachineNext

\* The invariant holds of every reachable state.
THEOREM MachineAlways == MachineSpec => []MachineInv
<1>1. MachineInit => MachineInv
  BY MachineInvInitially
<1>2. MachineInv /\ [MachineNext]_machineVars => MachineInv'
  BY MachineStepKeepsInv
<1> QED
  BY <1>1, <1>2, PTL DEF MachineSpec

\* Tools run only as the manifest, the limits and the user allow: complete_model_step,
\* apply_policy and approve_effect leave no other way into the phase of a tool.
THEOREM ToolsRunAsAllowed == MachineSpec => []ToolRunsAsAllowed
<1>1. MachineInv => ToolRunsAsAllowed
  BY DEF MachineInv
<1> QED
  BY <1>1, MachineAlways, PTL

\* No limit of RunLimits is passed by a run that goes on.
THEOREM LimitsAlwaysHold == MachineSpec => []LimitsHold
<1>1. MachineInv => LimitsHold
  BY DEF MachineInv
<1> QED
  BY <1>1, MachineAlways, PTL

\* Every turn went to a call, a repair, or what is under way.
THEOREM TurnsAlwaysAccounted == MachineSpec => []TurnsAreAccounted
<1>1. MachineInv => TurnsAreAccounted
  BY DEF MachineInv
<1> QED
  BY <1>1, MachineAlways, PTL

-----------------------------------------------------------------------------
(* The file of the store, for any releases, and any number of opens and    *)
(* writes: what a Core has worked on is in a whole copy before a migration *)
(* changes its schema.  The invariant says what is known of the file while *)
(* it is being opened, and that nothing but a Core that has opened it      *)
(* writes rows.                                                            *)

StoreSpec == StoreInit /\ [][StoreFileNext]_storeVars

ServedCopy == [whole |-> TRUE, version |-> served.version, rows |-> served.rows]

\* The file was not written to since it was last worked on, but by migrations.
ServedIsBehind ==
    /\ store.version \in Nat /\ served.version \in Nat /\ served.version <= store.version
    /\ served.version = store.version => served.rows = store.rows

\* Whoever is opening the file copies what there is before it migrates it.
OpenerCopies ==
    /\ opener.step # "closed" => opener.release \in Releases
    /\ opener.step = "read" =>
          store.version <= opener.release /\ (store.version \in 1 .. opener.release - 1 => opener.copies)
    /\ opener.step = "migrating" /\ served.version = store.version /\ store.version \in 1 .. opener.release - 1 =>
          ServedCopy \in backups
    /\ opener.step = "open" => served = store

StoreInv == ServedIsBehind /\ OpenerCopies /\ MigratedIsBackedUp

\* A file nobody has opened yet is as it was left.
LEMMA StoreInvInitially == StoreInit => StoreInv
<1> SUFFICES ASSUME StoreInit PROVE StoreInv
  OBVIOUS
<1>1. PICK version \in Releases \cup {0} : \E sums \in [1 .. version -> Checksums] :
          store = [version |-> version, ledger |-> sums, rows |-> 0]
  BY DEF StoreInit
<1>2. store.version = version /\ store.version \in Nat
  BY <1>1, StoreFileAssumption
<1>3. served = store /\ opener.step = "closed"
  BY DEF StoreInit, NoOpener
<1> QED
  BY <1>2, <1>3 DEF StoreInv, ServedIsBehind, OpenerCopies, MigratedIsBackedUp

\* Every step keeps the invariant.
LEMMA StoreStepKeepsInv == StoreInv /\ [StoreFileNext]_storeVars => StoreInv'
<1> SUFFICES ASSUME StoreInv, [StoreFileNext]_storeVars
             PROVE  StoreInv'
  OBVIOUS
<1> USE StoreFileAssumption
<1>1. ASSUME NEW release \in Releases, BeginOpen(release)
      PROVE  StoreInv'
  <2>1. PICK hadData \in BOOLEAN :
            /\ store.version > 0 => hadData = TRUE
            /\ opener' = [step |-> "read", release |-> release, copies |-> hadData /\ store.version < release]
    BY <1>1 DEF BeginOpen
  <2>2. opener'.step = "read" /\ opener'.release = release
    BY <2>1
  <2>3. opener'.copies = (hadData /\ store.version < release)
    BY <2>1
  <2>4. store.version <= release /\ UNCHANGED <<store, backups, served>>
    BY <1>1 DEF BeginOpen, Openable
  <2>5. ServedIsBehind' /\ MigratedIsBackedUp'
    BY <2>4 DEF StoreInv, ServedIsBehind, MigratedIsBackedUp
  <2>6. store.version \in 1 .. release - 1 => opener'.copies
    BY <2>1, <2>3
  <2>7. OpenerCopies'
    BY <2>2, <2>4, <2>6 DEF OpenerCopies
  <2> QED
    BY <2>5, <2>7 DEF StoreInv
<1>2. CASE Backup
  <2>1. opener.step = "read" /\ opener'.step = "migrating" /\ opener'.release = opener.release
    BY <1>2 DEF Backup
  <2>2. UNCHANGED <<store, served>> /\ backups \subseteq backups'
    BY <1>2 DEF Backup
  <2>3. ASSUME served.version = store.version, store.version \in 1 .. opener.release - 1
        PROVE  ServedCopy \in backups'
    <3>1. opener.copies /\ served.rows = store.rows
      BY <2>1, <2>3 DEF StoreInv, OpenerCopies, ServedIsBehind
    <3> QED
      BY <1>2, <2>3, <3>1 DEF Backup, CopyOf, ServedCopy
  <2>4. ServedIsBehind' /\ MigratedIsBackedUp'
    BY <2>2 DEF StoreInv, ServedIsBehind, MigratedIsBackedUp
  <2>5. opener.release \in Releases
    BY <2>1 DEF StoreInv, OpenerCopies
  <2>6. ServedCopy' = ServedCopy
    BY <2>2 DEF ServedCopy
  <2>7. OpenerCopies'
    BY <2>1, <2>2, <2>3, <2>5, <2>6 DEF OpenerCopies
  <2> QED
    BY <2>4, <2>7 DEF StoreInv
<1>3. CASE BackupFails \/ LeaveStore
  <2>1. UNCHANGED <<store, served>> /\ backups \subseteq backups' /\ opener'.step = "closed"
    <3>1. CASE BackupFails
      <4>1. backups' = backups \cup {CopyOf(FALSE)}
        BY <3>1 DEF BackupFails
      <4> QED
        BY <3>1, <4>1 DEF BackupFails, NoOpener
    <3>2. CASE LeaveStore
      BY <3>2 DEF LeaveStore, NoOpener
    <3> QED
      BY <1>3, <3>1, <3>2
  <2> QED
    BY <2>1 DEF StoreInv, ServedIsBehind, OpenerCopies, MigratedIsBackedUp
<1>4. CASE Migrate
  <2>1. opener.step = "migrating" /\ store.version < opener.release /\ UNCHANGED <<backups, opener, served>>
    BY <1>4 DEF Migrate
  <2>2. store'.version = store.version + 1
    BY <1>4 DEF Migrate
  <2>3. store.version \in Nat /\ served.version \in Nat /\ served.version <= store.version
    BY DEF StoreInv, ServedIsBehind
  <2>4. opener.release \in Nat
    BY <2>1 DEF StoreInv, OpenerCopies
  <2>5. ServedIsBehind'
    BY <2>1, <2>2, <2>3 DEF ServedIsBehind
  <2>6. OpenerCopies'
    BY <2>1, <2>2, <2>3 DEF StoreInv, OpenerCopies
  <2>7. MigratedIsBackedUp'
    <3>1. CASE served.version = store.version /\ served.version # 0
      BY <2>1, <2>2, <2>3, <2>4, <3>1 DEF StoreInv, OpenerCopies, MigratedIsBackedUp, ServedCopy
    <3>2. CASE served.version < store.version
      BY <2>1, <2>2, <2>3, <3>2 DEF StoreInv, MigratedIsBackedUp
    <3>3. CASE served.version = 0
      BY <2>1, <3>3 DEF MigratedIsBackedUp
    <3> QED
      BY <2>3, <3>1, <3>2, <3>3
  <2> QED
    BY <2>5, <2>6, <2>7 DEF StoreInv
<1>5. CASE FinishOpen
  <2>1. UNCHANGED <<store, backups>> /\ opener.step = "migrating" /\ opener.release \in Releases
    BY <1>5 DEF FinishOpen, StoreInv, OpenerCopies
  <2>2. CASE HistoryMatches
    <3>1. served' = store /\ opener'.step = "open" /\ opener'.release = opener.release
      BY <1>5, <2>2 DEF FinishOpen
    <3> QED
      BY <2>1, <3>1 DEF StoreInv, ServedIsBehind, OpenerCopies, MigratedIsBackedUp
  <2>3. CASE ~HistoryMatches
    <3>1. served' = served /\ opener'.step = "closed"
      BY <1>5, <2>3 DEF FinishOpen, NoOpener
    <3> QED
      BY <2>1, <3>1 DEF StoreInv, ServedIsBehind, OpenerCopies, MigratedIsBackedUp
  <2> QED
    BY <2>2, <2>3
<1>6. CASE WriteRow
  <2>1. store'.version = store.version /\ served' = store' /\ UNCHANGED <<backups, opener>> /\ opener.step = "open"
    BY <1>6 DEF WriteRow
  <2> QED
    BY <2>1 DEF StoreInv, ServedIsBehind, OpenerCopies, MigratedIsBackedUp
<1>7. CASE UNCHANGED storeVars
  BY <1>7 DEF storeVars, StoreInv, ServedIsBehind, OpenerCopies, MigratedIsBackedUp, ServedCopy
<1> QED
  BY <1>1, <1>2, <1>3, <1>4, <1>5, <1>6, <1>7 DEF StoreFileNext

\* Database::open never leaves a store migrated that no whole copy was made of: for
\* any releases of Core, failures and stops in between.
THEOREM MigrationsAreBackedUp == StoreSpec => []MigratedIsBackedUp
<1>1. StoreInit => StoreInv
  BY StoreInvInitially
<1>2. StoreInv /\ [StoreFileNext]_storeVars => StoreInv'
  BY StoreStepKeepsInv
<1>3. StoreInv => MigratedIsBackedUp
  BY DEF StoreInv
<1> QED
  BY <1>1, <1>2, <1>3, PTL DEF StoreSpec

\* A Core that has opened the file knows its schema, and so it stays.
LEMMA KnownStaysKnown == ServedIsKnown /\ [StoreFileNext]_storeVars => ServedIsKnown'
<1> SUFFICES ASSUME ServedIsKnown, [StoreFileNext]_storeVars, opener'.step = "open"
             PROVE  store'.version = opener'.release /\ HistoryMatches'
  BY DEF ServedIsKnown
<1>1. CASE FinishOpen
  <2>1. HistoryMatches
    BY <1>1 DEF FinishOpen, NoOpener
  <2>2. opener'.release = opener.release /\ store' = store
    BY <1>1, <2>1 DEF FinishOpen
  <2> QED
    BY <1>1, <2>1, <2>2 DEF FinishOpen, HistoryMatches
<1>2. CASE WriteRow
  <2>1. store'.version = store.version /\ store'.ledger = store.ledger /\ opener' = opener
    BY <1>2 DEF WriteRow
  <2> QED
    BY <2>1 DEF ServedIsKnown, HistoryMatches
<1>3. CASE UNCHANGED storeVars
  BY <1>3 DEF storeVars, ServedIsKnown, HistoryMatches
<1>4. ASSUME NEW release \in Releases, BeginOpen(release)
      PROVE  FALSE
  <2>1. \E hadData : opener' = [step |-> "read", release |-> release, copies |-> hadData /\ store.version < release]
    BY <1>4 DEF BeginOpen
  <2>2. opener'.step = "read"
    BY <2>1
  <2> QED
    BY <2>2
<1>5. CASE Backup
  BY <1>5 DEF Backup
<1>6. CASE BackupFails
  <2>1. opener' = NoOpener
    BY <1>6 DEF BackupFails
  <2> QED
    BY <2>1 DEF NoOpener
<1>7. CASE LeaveStore
  <2>1. opener' = NoOpener
    BY <1>7 DEF LeaveStore
  <2> QED
    BY <2>1 DEF NoOpener
<1>8. CASE Migrate
  BY <1>8 DEF Migrate
<1> QED
  BY <1>1, <1>2, <1>3, <1>4, <1>5, <1>6, <1>7, <1>8 DEF StoreFileNext

-----------------------------------------------------------------------------
(* The updates of the Desktop, for any versions and any number of checks,  *)
(* downloads and launches.  A version is clicked before a task is at work  *)
(* on it, archived before the ledger names it, and installed only when the *)
(* ledger names it: so every version on disk was clicked, once every       *)
(* archived one was.  The ledger names no file that is gone as long as one *)
(* task at a time is writing: then what it has read of the ledger is still *)
(* archived when it writes the ledger anew, and what it removes afterwards *)
(* is what that ledger leaves out.                                         *)

\* Tasks that are at work on what they were asked for.
AtWork == {"asking", "downloading"} \cup Writing

Alone == \A d, e \in Downloads : task[d].step \in Writing /\ task[e].step \in Writing => d = e

\* What a task that writes alone has read, and has left to remove.
Filed(d) ==
    /\ task[d].step \in {"reading", "recording"} => task[d].version \in archive
    /\ task[d].step = "recording" => task[d].named \subseteq archive
    /\ task[d].step = "pruning" => ledger.artifacts \subseteq Newest(task[d].named)

DownloadInv ==
    /\ status.phase = "available" => status.available # 0
    /\ archive \subseteq clicked
    /\ \A d \in Downloads : task[d].step \in AtWork => task[d].version \in clicked /\ task[d].version # 0
    /\ overlapped \/ (Alone /\ \A d \in Downloads : Filed(d))

UpdateInv == UpdateTypeOK /\ DownloadInv /\ UpdatesAreVerified

\* A set of numbers within a bound that has an element has a greatest one.
LEMMA GreatestOf ==
  ASSUME NEW n \in Nat, NEW S \in SUBSET (0 .. n), S # {}
  PROVE  \E x \in S : \A y \in S : y <= x
<1> DEFINE T == {k \in 0 .. n : n - k \in S}
<1>1. T \in SUBSET Nat
  OBVIOUS
<1>2. T # {}
  <2>1. PICK y \in S : TRUE
    OBVIOUS
  <2>2. n - y \in 0 .. n /\ n - (n - y) = y
    BY <2>1
  <2>3. n - y \in T
    BY <2>1, <2>2
  <2> QED
    BY <2>3
<1>3. PICK k \in T : \A j \in T : ~(<<j, k>> \in OpToRel(<, Nat))
  BY <1>1, <1>2, NatLessThanWellFounded, WFMin
<1>4. \A j \in T : ~(j < k)
  BY <1>1, <1>3 DEF OpToRel
<1>5. n - k \in S
  OBVIOUS
<1>6. ASSUME NEW y \in S
      PROVE  y <= n - k
  <2>1. y \in 0 .. n
    OBVIOUS
  <2>2. n - y \in 0 .. n /\ n - (n - y) = y
    BY <2>1
  <2>3. n - y \in T
    BY <2>2
  <2>4. ~(n - y < k)
    BY <1>4, <2>3
  <2> QED
    BY <2>1, <2>4, k \in 0 .. n
<1> QED
  BY <1>5, <1>6

\* What is dropped when it cannot be stored leaves the file as it was.
LEMMA PersistKeepsType ==
  ASSUME stored \in Preferences, status' \in Statuses, Persist(status')
  PROVE  stored' \in Preferences
<1>1. CASE stored' = Persisted(status')
  BY <1>1 DEF Persisted, Statuses, Preferences
<1>2. CASE UNCHANGED stored
  BY <1>2
<1> QED
  BY <1>1, <1>2 DEF Persist

\* A step of the coordinator leaves the files and the launches alone, and what the tasks
\* that write have read.
LEMMA CoordinatorKeeps ==
  ASSUME UpdateInv, Untouched, clicked \subseteq clicked', overlapped' \in BOOLEAN,
         overlapped => overlapped', overlapped' \/ Alone',
         status' \in Statuses, stored' \in Preferences, checks' \subseteq Checkers,
         task' \in [Downloads -> DownloadTasks], handle' \in {0} \cup Downloads,
         status'.phase = "available" => status'.available # 0,
         \A d \in Downloads :
             /\ task'[d].step \in AtWork => task'[d].version \in clicked' /\ task'[d].version # 0
             /\ task'[d].step \in Writing \ {"archiving"} =>
                    /\ task'[d].step = task[d].step /\ task'[d].version = task[d].version
                    /\ task'[d].named = task[d].named
  PROVE  UpdateInv'
<1>1. UNCHANGED <<running, onDisk, offered, launch, ledger, archive>>
  BY DEF Untouched
<1>2. UpdateTypeOK'
  BY <1>1 DEF UpdateInv, UpdateTypeOK
<1>3. UpdatesAreVerified'
  BY <1>1 DEF UpdateInv, UpdatesAreVerified, LedgerNamesFiles
<1>4. archive' \subseteq clicked'
  BY <1>1 DEF UpdateInv, DownloadInv
<1>5. ASSUME NEW d \in Downloads, ~overlapped'
      PROVE  Filed(d)'
  <2>1. Filed(d)
    BY <1>5 DEF UpdateInv, DownloadInv
  <2>2. CASE task'[d].step \in Writing \ {"archiving"}
    <3>1. /\ task'[d].step = task[d].step /\ task'[d].version = task[d].version
          /\ task'[d].named = task[d].named
      BY <2>2
    <3>2. Newest(task[d].named)' = Newest(task[d].named)
      BY <3>1 DEF Newest
    <3> QED
      BY <1>1, <2>1, <3>1, <3>2 DEF Filed
  <2>3. CASE task'[d].step \notin Writing \ {"archiving"}
    BY <2>3 DEF Filed, Writing
  <2> QED
    BY <2>2, <2>3
<1>6. DownloadInv'
  BY <1>4, <1>5 DEF DownloadInv
<1> QED
  BY <1>2, <1>3, <1>6 DEF UpdateInv

\* No task that does not begin to write joins those that do.
LEMMA AloneStays ==
  ASSUME UpdateInv, UNCHANGED overlapped,
         \A d \in Downloads : task'[d].step \in Writing => task[d].step \in Writing
  PROVE  overlapped' \/ Alone'
BY DEF UpdateInv, DownloadInv, Alone

\* The facts every step of an update starts from.
LEMMA UpdateFacts ==
  ASSUME UpdateInv
  PROVE  /\ status \in Statuses /\ stored \in Preferences /\ checks \subseteq Checkers
         /\ task \in [Downloads -> DownloadTasks] /\ handle \in {0} \cup Downloads
         /\ offered \in AnyVersion /\ Found \in AnyVersion
         /\ Versions \subseteq AnyVersion /\ AnyVersion \ {0} \subseteq Versions /\ 0 \in AnyVersion
         /\ status.phase = "available" => status.available # 0
         /\ \A d \in Downloads : task[d].step \in AtWork => task[d].version \in clicked /\ task[d].version # 0
         /\ archive \subseteq clicked /\ archive \subseteq Versions /\ ledger.artifacts \subseteq Versions
         /\ overlapped \in BOOLEAN
         /\ ledger \in [highest : AnyVersion, artifacts : SUBSET Versions]
<1>1. LastVersion \in Nat
  BY UpdateAssumption
<1>2. 0 .. LastVersion = {0} \cup (1 .. LastVersion)
  BY <1>1
<1>3. Found \in AnyVersion
  BY <1>2 DEF UpdateInv, UpdateTypeOK, Found, AnyVersion
<1>4. Versions \subseteq AnyVersion /\ AnyVersion \ {0} \subseteq Versions /\ 0 \in AnyVersion
  BY <1>2 DEF AnyVersion, Versions
<1> QED
  BY <1>3, <1>4 DEF UpdateInv, UpdateTypeOK, DownloadInv, UpdatesAreVerified

\* Checks and decisions of the user keep the invariant.
LEMMA ChecksKeepUpdates ==
  ASSUME UpdateInv,
         BeginCheck \/ BeginBackgroundCheck \/ Checking \/ DismissUpdate \/ ScheduleUpdate
  PROVE  UpdateInv'
<1> USE UpdateFacts
<1>1. UNCHANGED <<task, handle, clicked, overlapped>> /\ Untouched
  BY DEF BeginCheck, BeginBackgroundCheck, Checking, CheckEnds, DismissUpdate, ScheduleUpdate, Elsewhere
<1>2. status' \in Statuses /\ stored' \in Preferences /\ checks' \subseteq Checkers
      /\ (status'.phase = "available" => status'.available # 0)
  <2>1. CASE BeginCheck
    BY <2>1 DEF BeginCheck, Statuses, Checkers
  <2>2. CASE BeginBackgroundCheck
    BY <2>2 DEF BeginBackgroundCheck, Checkers
  <2>3. ASSUME NEW by \in Checkers, CheckEnds(by)
        PROVE  status' \in Statuses /\ stored' \in Preferences /\ checks' \subseteq Checkers
               /\ (status'.phase = "available" => status'.available # 0)
    <3>1. checks' \subseteq Checkers
      BY <2>3 DEF CheckEnds
    <3>2. CASE Checked(Found) /\ Persist(status')
      <4>1. status' \in Statuses /\ (status'.phase = "available" => status'.available # 0)
        BY <3>2 DEF Checked, Statuses
      <4> QED
        BY <3>1, <3>2, <4>1, PersistKeepsType
    <3>3. CASE UNCHANGED <<status, stored>>
      BY <3>1, <3>3
    <3>4. CASE status' = [status EXCEPT !.phase = "failed"] /\ stored' = Persisted(status)
      BY <3>1, <3>4 DEF Persisted, Statuses, Preferences
    <3>5. CASE Checked(Found) /\ stored' = Persisted(status')
      <4>1. status' \in Statuses /\ (status'.phase = "available" => status'.available # 0)
        BY <3>5 DEF Checked, Statuses
      <4> QED
        BY <3>1, <3>5, <4>1 DEF Persisted, Statuses, Preferences
    <3> QED
      BY <2>3, <3>2, <3>3, <3>4, <3>5 DEF CheckEnds
  <2>4. CASE DismissUpdate
    <3>1. status' \in Statuses /\ (status'.phase = "available" => status'.available # 0)
      BY <2>4 DEF DismissUpdate, Statuses
    <3> QED
      BY <2>4, <3>1, PersistKeepsType DEF DismissUpdate
  <2>5. CASE ScheduleUpdate
    <3>1. status' \in Statuses /\ status'.phase = "waiting_for_idle"
      BY <2>5 DEF ScheduleUpdate, Statuses
    <3> QED
      BY <2>5, <3>1, PersistKeepsType DEF ScheduleUpdate
  <2> QED
    BY <2>1, <2>2, <2>3, <2>4, <2>5 DEF Checking
<1>3. overlapped' \/ Alone'
  BY <1>1, AloneStays
<1> QED
  BY <1>1, <1>2, <1>3, CoordinatorKeeps DEF Writing, AtWork

\* Beginning, cancelling and ending a download, and the steps before its archive, keep it.
LEMMA DownloadsKeepUpdates ==
  ASSUME UpdateInv, NEW d \in Downloads,
         BeginDownload(d) \/ CancelDownload \/ AskForUpdate(d) \/ DownloadUpdate(d) \/ EndDownload(d)
  PROVE  UpdateInv'
<1> USE UpdateFacts
<1>1. CASE BeginDownload(d)
  <2>1. Untouched /\ UNCHANGED <<stored, checks, overlapped>> /\ clicked' = clicked \cup {status.available}
        /\ handle' = d /\ status.available # 0 /\ task[d].step = "none"
    BY <1>1 DEF BeginDownload, Elsewhere
  <2>2. status' \in Statuses /\ status'.phase = "downloading"
    BY <1>1 DEF BeginDownload, Statuses
  <2>3. task' \in [Downloads -> DownloadTasks] /\ \A x \in Downloads \ {d} : task'[x] = task[x]
    <3>1. /\ task \in [Downloads -> DownloadTasks] /\ status.available \in AnyVersion
          /\ task' = [task EXCEPT ![d].step = "asking", ![d].version = status.available]
      BY <1>1 DEF BeginDownload, Statuses
    <3>2. task[d] \in DownloadTasks
      BY <3>1
    <3>3. [task[d] EXCEPT !.step = "asking", !.version = status.available] \in DownloadTasks
      BY <3>1, <3>2 DEF DownloadTasks
    <3>4. task' = [task EXCEPT ![d] = [task[d] EXCEPT !.step = "asking", !.version = status.available]]
      BY <3>1, <3>2 DEF DownloadTasks
    <3> QED BY <3>1, <3>3, <3>4
  <2>4. task'[d].step = "asking" /\ task'[d].version = status.available
    BY <1>1 DEF BeginDownload, DownloadTasks
  <2>5. \A x \in Downloads :
             /\ task'[x].step \in AtWork => task'[x].version \in clicked' /\ task'[x].version # 0
             /\ task'[x].step \in Writing \ {"archiving"} =>
                    /\ task'[x].step = task[x].step /\ task'[x].version = task[x].version
                    /\ task'[x].named = task[x].named
    BY <2>1, <2>3, <2>4 DEF Writing
  <2>6. overlapped' \/ Alone'
    BY <2>1, <2>3, <2>4, AloneStays DEF Writing
  <2> QED
    BY <2>1, <2>2, <2>3, <2>5, <2>6, CoordinatorKeeps
<1>2. CASE CancelDownload
  <2>1. Untouched /\ UNCHANGED <<checks, clicked, overlapped>> /\ handle' = 0 /\ Persist(status')
    BY <1>2 DEF CancelDownload, Elsewhere
  <2>2. status' \in Statuses /\ (status'.phase = "available" => status'.available # 0)
    BY <1>2 DEF CancelDownload, Statuses
  <2>3. task' = [task EXCEPT ![handle].step = IF @ \in {"asking", "downloading"} THEN "ended" ELSE @]
    BY <1>2 DEF CancelDownload
  <2>4. ASSUME NEW x \in Downloads
        PROVE  task'[x] \in DownloadTasks /\ task'[x].version = task[x].version
               /\ task'[x].named = task[x].named /\ task'[x].step \in {task[x].step, "ended"}
    BY <2>3, <2>4 DEF DownloadTasks
  <2>5. task' \in [Downloads -> DownloadTasks]
    BY <2>3, <2>4
  <2>6. \A x \in Downloads :
             /\ task'[x].step \in AtWork => task'[x].version \in clicked' /\ task'[x].version # 0
             /\ task'[x].step \in Writing \ {"archiving"} =>
                    /\ task'[x].step = task[x].step /\ task'[x].version = task[x].version
                    /\ task'[x].named = task[x].named
    BY <2>1, <2>4 DEF AtWork, Writing
  <2>7. overlapped' \/ Alone'
    BY <2>1, <2>4, AloneStays DEF Writing
  <2> QED
    BY <2>1, <2>2, <2>5, <2>6, <2>7, CoordinatorKeeps, PersistKeepsType
<1>3. CASE AskForUpdate(d) \/ DownloadUpdate(d)
  <2>1. Untouched /\ UNCHANGED <<status, stored, checks, handle, clicked>>
        /\ task[d].step \in {"asking", "downloading"}
    BY <1>3 DEF AskForUpdate, DownloadUpdate, Elsewhere
  <2>2. \/ /\ task' = [task EXCEPT ![d].step = "downloading", ![d].version = Found] /\ Found = task[d].version
           /\ UNCHANGED overlapped
        \/ /\ task' = [task EXCEPT ![d].step = "archiving"]
           /\ overlapped' = (overlapped \/ \E e \in Downloads : task[e].step \in Writing)
        \/ /\ task' = [task EXCEPT ![d].step = "ending", ![d].outcome = "failed"]
           /\ UNCHANGED overlapped
    BY <1>3 DEF AskForUpdate, DownloadUpdate, AskedFor, Fails, ToStep, Elsewhere
  <2>3. task' \in [Downloads -> DownloadTasks] /\ \A x \in Downloads \ {d} : task'[x] = task[x]
    BY <2>2 DEF DownloadTasks
  <2>4. task'[d].version = task[d].version /\ task'[d].step \in {"downloading", "archiving", "ending"}
    BY <2>2 DEF DownloadTasks
  <2>5. \A x \in Downloads :
             /\ task'[x].step \in AtWork => task'[x].version \in clicked' /\ task'[x].version # 0
             /\ task'[x].step \in Writing \ {"archiving"} =>
                    /\ task'[x].step = task[x].step /\ task'[x].version = task[x].version
                    /\ task'[x].named = task[x].named
    BY <2>1, <2>3, <2>4 DEF AtWork, Writing
  <2>6. overlapped' \in BOOLEAN /\ (overlapped => overlapped')
    BY <2>2
  <2>7. overlapped' \/ Alone'
    <3>1. CASE UNCHANGED overlapped /\ task'[d].step \in {"downloading", "ending"}
      BY <2>3, <3>1, AloneStays DEF Writing
    <3>2. CASE overlapped' = (overlapped \/ \E e \in Downloads : task[e].step \in Writing)
      BY <2>3, <3>2 DEF Alone
    <3> QED
      BY <2>2, <3>1, <3>2 DEF DownloadTasks
  <2> QED
    BY <2>1, <2>3, <2>5, <2>6, <2>7, CoordinatorKeeps
<1>4. CASE EndDownload(d)
  <2>1. Untouched /\ UNCHANGED <<checks, clicked, overlapped>> /\ handle' = 0 /\ Persist(status')
    BY <1>4 DEF EndDownload, Elsewhere
  <2>2. status' \in Statuses /\ status'.phase # "available"
    BY <1>4 DEF EndDownload, Statuses, DownloadTasks
  <2>3. task' = [task EXCEPT ![d].step = "ended"]
    BY <1>4 DEF EndDownload, ToStep
  <2>4. task' \in [Downloads -> DownloadTasks] /\ \A x \in Downloads \ {d} : task'[x] = task[x]
    BY <2>3 DEF DownloadTasks
  <2>5. task'[d].step = "ended"
    BY <2>3 DEF DownloadTasks
  <2>6. \A x \in Downloads :
             /\ task'[x].step \in AtWork => task'[x].version \in clicked' /\ task'[x].version # 0
             /\ task'[x].step \in Writing \ {"archiving"} =>
                    /\ task'[x].step = task[x].step /\ task'[x].version = task[x].version
                    /\ task'[x].named = task[x].named
    BY <2>1, <2>4, <2>5 DEF AtWork, Writing
  <2>7. overlapped' \/ Alone'
    BY <2>1, <2>4, <2>5, AloneStays DEF Writing
  <2> QED
    BY <2>1, <2>2, <2>4, <2>6, <2>7, CoordinatorKeeps, PersistKeepsType
<1> QED
  BY <1>1, <1>2, <1>3, <1>4

\* What a step of a task that writes is about: its own files, and no other task's if it
\* writes alone.
LEMMA FilingKeepsUpdates ==
  ASSUME UpdateInv, NEW d \in Downloads, Filing, task[d].step \in Writing,
         task' \in [Downloads -> DownloadTasks], \A x \in Downloads \ {d} : task'[x] = task[x],
         task'[d].step \in Writing \cup {"ending"}, task'[d].version = task[d].version,
         archive' \subseteq archive \cup {task[d].version},
         ledger' \in [highest : AnyVersion, artifacts : SUBSET Versions],
         overlapped \/ (Filed(d)' /\ LedgerNamesFiles')
  PROVE  UpdateInv'
<1> USE UpdateFacts
<1>1. UNCHANGED <<running, onDisk, offered, launch, status, stored, checks, handle, clicked, overlapped>>
  BY DEF Filing
<1>2. task[d].version \in clicked /\ task[d].version # 0 /\ task[d].version \in Versions
  BY DEF AtWork, DownloadTasks
<1>3. UpdateTypeOK'
  BY <1>1, <1>2 DEF UpdateInv, UpdateTypeOK
<1>4. UpdatesAreVerified'
  BY <1>1 DEF UpdateInv, UpdatesAreVerified
<1>5. archive' \subseteq clicked'
  BY <1>1, <1>2
<1>6. \A x \in Downloads : task'[x].step \in AtWork => task'[x].version \in clicked' /\ task'[x].version # 0
  BY <1>1, <1>2
<1>7. overlapped' \/ Alone'
  BY <1>1, AloneStays
<1>8. ASSUME ~overlapped', NEW x \in Downloads
      PROVE  Filed(x)'
  <2>1. CASE x = d
    BY <1>1, <1>8, <2>1
  <2>2. CASE x # d
    <3>1. task'[x] = task[x] /\ task[x].step \notin Writing
      BY <1>1, <1>8, <2>2 DEF UpdateInv, DownloadInv, Alone
    <3> QED
      BY <3>1 DEF Filed, Writing
  <2> QED
    BY <2>1, <2>2
<1>9. DownloadInv'
  BY <1>1, <1>5, <1>6, <1>7, <1>8 DEF DownloadInv
<1> QED
  BY <1>3, <1>4, <1>9 DEF UpdateInv

\* A file is archived before the ledger may name it.
LEMMA ArchivingKeepsUpdates ==
  ASSUME UpdateInv, NEW d \in Downloads, ArchiveUpdate(d)
  PROVE  UpdateInv'
<1> USE UpdateFacts
<1>1. task[d].step = "archiving" /\ Filing /\ UNCHANGED ledger
  BY DEF ArchiveUpdate
<1>2. archive \subseteq archive' /\ archive' \subseteq archive \cup {task[d].version}
  BY DEF ArchiveUpdate
<1>3. \/ task' = [task EXCEPT ![d].step = "reading"] /\ task[d].version \in archive'
      \/ task' = [task EXCEPT ![d].step = "ending", ![d].outcome = "failed"]
  BY DEF ArchiveUpdate, ToStep, Fails
<1>4. task' \in [Downloads -> DownloadTasks] /\ \A x \in Downloads \ {d} : task'[x] = task[x]
  BY <1>3 DEF DownloadTasks
<1>5. task'[d].version = task[d].version /\ (task'[d].step = "reading" => task[d].version \in archive')
      /\ task'[d].step \in {"reading", "ending"}
  BY <1>3 DEF DownloadTasks
<1>6. Filed(d)'
  BY <1>5 DEF Filed
<1>7. overlapped \/ LedgerNamesFiles'
  BY <1>1, <1>2 DEF UpdateInv, UpdatesAreVerified, LedgerNamesFiles
<1> QED
  BY <1>1, <1>2, <1>4, <1>5, <1>6, <1>7, FilingKeepsUpdates DEF Writing

\* What the ledger names is archived when it is read.
LEMMA ReadingKeepsUpdates ==
  ASSUME UpdateInv, NEW d \in Downloads, ReadLedger(d)
  PROVE  UpdateInv'
<1> USE UpdateFacts
<1>1. task[d].step = "reading" /\ Filing /\ UNCHANGED <<ledger, archive>>
  BY DEF ReadLedger
<1>2. PICK artifacts \in {ledger.artifacts, {}} :
          task' = [task EXCEPT ![d].step = "recording", ![d].named = artifacts \cup {task[d].version}]
  BY DEF ReadLedger
<1>3. task[d].version \in Versions
  BY <1>1 DEF AtWork, Writing, DownloadTasks
<1>4. artifacts \cup {task[d].version} \subseteq Versions
  BY <1>3
<1>5. task' \in [Downloads -> DownloadTasks] /\ \A x \in Downloads \ {d} : task'[x] = task[x]
  <2> DEFINE reader == [task[d] EXCEPT !.step = "recording", !.named = artifacts \cup {task[d].version}]
  <2>1. reader \in DownloadTasks
    <3>1. task[d] \in DownloadTasks
      OBVIOUS
    <3> QED
      BY <1>4, <3>1 DEF DownloadTasks
  <2>2. task' = [task EXCEPT ![d] = reader]
    BY <1>2
  <2> HIDE DEF reader
  <2> QED
    BY <2>1, <2>2
<1>6. /\ task'[d].step = "recording" /\ task'[d].version = task[d].version
      /\ task'[d].named = artifacts \cup {task[d].version}
  BY <1>2 DEF DownloadTasks
<1>7. ASSUME ~overlapped
      PROVE  Filed(d)' /\ LedgerNamesFiles'
  <2>1. task[d].version \in archive /\ ledger.artifacts \subseteq archive
    BY <1>1, <1>7 DEF UpdateInv, DownloadInv, UpdatesAreVerified, LedgerNamesFiles, Filed
  <2> QED
    BY <1>1, <1>6, <2>1 DEF Filed, LedgerNamesFiles
<1> QED
  BY <1>1, <1>5, <1>6, <1>7, FilingKeepsUpdates DEF Writing

\* A ledger is written of what is archived still.
LEMMA RecordingKeepsUpdates ==
  ASSUME UpdateInv, NEW d \in Downloads, RecordUpdate(d)
  PROVE  UpdateInv'
<1> USE UpdateFacts
<1> DEFINE recorded == [highest |-> task[d].version, artifacts |-> Newest(task[d].named)]
<1>1. task[d].step = "recording" /\ Filing /\ UNCHANGED archive
  BY DEF RecordUpdate
<1>2. task[d].version \in AnyVersion /\ task[d].named \subseteq Versions
  BY DEF DownloadTasks
<1>3. Newest(task[d].named) \subseteq task[d].named
  BY DEF Newest
<1>4. ledger' \in {ledger, recorded}
      /\ \/ task' = [task EXCEPT ![d].step = "pruning"] /\ ledger' = recorded
         \/ task' = [task EXCEPT ![d].step = "ending", ![d].outcome = "failed"]
  BY DEF RecordUpdate, ToStep, Fails
<1>5. task' \in [Downloads -> DownloadTasks] /\ \A x \in Downloads \ {d} : task'[x] = task[x]
  BY <1>4 DEF DownloadTasks
<1>6. /\ task'[d].step \in {"pruning", "ending"} /\ task'[d].version = task[d].version
      /\ task'[d].named = task[d].named /\ (task'[d].step = "pruning" => ledger' = recorded)
  BY <1>4 DEF DownloadTasks
<1>7. ledger' \in [highest : AnyVersion, artifacts : SUBSET Versions]
  BY <1>2, <1>3, <1>4
<1>8. Newest(task[d].named)' = Newest(task[d].named)
  BY <1>6 DEF Newest
<1>9. Filed(d)'
  BY <1>6, <1>8 DEF Filed
<1>10. ASSUME ~overlapped
       PROVE  LedgerNamesFiles'
  <2>1. task[d].named \subseteq archive /\ ledger.artifacts \subseteq archive
    BY <1>1, <1>10 DEF UpdateInv, DownloadInv, UpdatesAreVerified, LedgerNamesFiles, Filed
  <2> QED
    BY <1>1, <1>3, <1>4, <2>1 DEF LedgerNamesFiles
<1> QED
  BY <1>1, <1>5, <1>6, <1>7, <1>9, <1>10, FilingKeepsUpdates DEF Writing

\* What is removed is what the ledger has left out.
LEMMA PruningKeepsUpdates ==
  ASSUME UpdateInv, NEW d \in Downloads, PruneArchive(d)
  PROVE  UpdateInv'
<1> USE UpdateFacts
<1>1. task[d].step = "pruning" /\ Filing /\ UNCHANGED ledger
  BY DEF PruneArchive
<1>2. task' = [task EXCEPT ![d].step = "ending", ![d].outcome = "ready_to_restart"]
  BY DEF PruneArchive
<1>3. archive' \subseteq archive /\ archive \ (task[d].named \ Newest(task[d].named)) \subseteq archive'
  BY DEF PruneArchive
<1>4. task' \in [Downloads -> DownloadTasks] /\ \A x \in Downloads \ {d} : task'[x] = task[x]
  <2> DEFINE done == [task[d] EXCEPT !.step = "ending", !.outcome = "ready_to_restart"]
  <2>1. done \in DownloadTasks
    <3>1. task[d] \in DownloadTasks
      OBVIOUS
    <3> QED
      BY <3>1 DEF DownloadTasks
  <2>2. task' = [task EXCEPT ![d] = done]
    BY <1>2
  <2> HIDE DEF done
  <2> QED
    BY <2>1, <2>2
<1>5. task'[d].step = "ending" /\ task'[d].version = task[d].version
  BY <1>2 DEF DownloadTasks
<1>6. Filed(d)'
  BY <1>5 DEF Filed
<1>7. ASSUME ~overlapped
      PROVE  LedgerNamesFiles'
  <2>1. ledger.artifacts \subseteq Newest(task[d].named) /\ ledger.artifacts \subseteq archive
    BY <1>1, <1>7 DEF UpdateInv, DownloadInv, UpdatesAreVerified, LedgerNamesFiles, Filed
  <2> QED
    BY <1>1, <1>3, <2>1 DEF LedgerNamesFiles
<1> QED
  BY <1>1, <1>3, <1>4, <1>5, <1>6, <1>7, FilingKeepsUpdates DEF Writing

\* A launch ends what was at work, and runs what is on disk.
LEMMA LaunchesKeepUpdates ==
  ASSUME UpdateInv, Relaunch \/ BeginInstall \/ EndInstall \/ \E v \in AnyVersion : Publish(v)
  PROVE  UpdateInv'
<1> USE UpdateFacts
<1>1. CASE Relaunch
  <2>1. UNCHANGED <<onDisk, offered, ledger, archive, clicked, overlapped>> /\ running' = onDisk /\ launch' = "restored"
        /\ checks' = {} /\ handle' = 0 /\ Persist(status')
    BY <1>1 DEF Relaunch
  <2>2. status' \in Statuses /\ status'.phase # "available"
    BY <1>1 DEF Relaunch, Statuses, Preferences
  <2>3. stored' \in Preferences
    BY <2>1, <2>2, PersistKeepsType
  <2>4. task' = [x \in Downloads |-> IF task[x].step = "none" THEN task[x] ELSE [task[x] EXCEPT !.step = "ended"]]
    BY <1>1 DEF Relaunch
  <2>5. task' \in [Downloads -> DownloadTasks] /\ \A x \in Downloads : task'[x].step \in {"none", "ended"}
    BY <2>4 DEF DownloadTasks
  <2>6. UpdateTypeOK' /\ UpdatesAreVerified'
    BY <2>1, <2>2, <2>3, <2>5 DEF UpdateInv, UpdateTypeOK, UpdatesAreVerified, LedgerNamesFiles
  <2>7. DownloadInv'
    BY <2>1, <2>2, <2>5 DEF DownloadInv, AtWork, Writing, Alone, Filed
  <2> QED
    BY <2>6, <2>7 DEF UpdateInv
<1>2. CASE BeginInstall
  <2>1. UNCHANGED <<running, onDisk, offered, stored, checks, task, handle, ledger, archive, clicked, overlapped>>
    BY <1>2 DEF BeginInstall
  <2>2. status' \in Statuses /\ launch' \in {"installing", "open"} /\ (status'.phase = "available" => status'.available # 0)
    BY <1>2 DEF BeginInstall, Statuses
  <2>3. UpdateTypeOK' /\ UpdatesAreVerified'
    BY <2>1, <2>2 DEF UpdateInv, UpdateTypeOK, UpdatesAreVerified, LedgerNamesFiles
  <2>4. DownloadInv'
    BY <2>1, <2>2 DEF UpdateInv, DownloadInv, Alone, Filed, Newest
  <2> QED
    BY <2>3, <2>4 DEF UpdateInv
<1>3. CASE EndInstall
  <2>1. UNCHANGED <<running, offered, checks, task, handle, ledger, archive, clicked, overlapped>> /\ Persist(status')
    BY <1>3 DEF EndInstall
  <2>2. onDisk' = onDisk \/ onDisk' \in archive
    BY <1>3 DEF EndInstall, Installable
  <2>3. status' \in Statuses /\ launch' \in {"installed", "open"} /\ status'.phase # "available"
    BY <1>3 DEF EndInstall, Statuses
  <2>4. stored' \in Preferences
    BY <2>1, <2>3, PersistKeepsType
  <2>5. UpdateTypeOK' /\ UpdatesAreVerified'
    BY <2>1, <2>2, <2>3, <2>4 DEF UpdateInv, UpdateTypeOK, UpdatesAreVerified, LedgerNamesFiles
  <2>6. DownloadInv'
    BY <2>1, <2>3 DEF UpdateInv, DownloadInv, Alone, Filed, Newest
  <2> QED
    BY <2>5, <2>6 DEF UpdateInv
<1>4. ASSUME NEW v \in AnyVersion, Publish(v)
      PROVE  UpdateInv'
  <2>1. UNCHANGED <<running, onDisk, launch, status, stored, checks, task, handle, ledger, archive, clicked, overlapped>> /\ offered' = v
    BY <1>4 DEF Publish
  <2> QED
    BY <2>1 DEF UpdateInv, UpdateTypeOK, DownloadInv, UpdatesAreVerified, LedgerNamesFiles,
                Alone, Filed, Newest
<1> QED
  BY <1>1, <1>2, <1>3, <1>4

LEMMA UpdateInvInitially == UpdateInit => UpdateInv
<1> SUFFICES ASSUME UpdateInit PROVE UpdateInv
  OBVIOUS
<1>1. LastVersion \in Nat /\ LastVersion # 0
  BY UpdateAssumption
<1>2. 1 \in Versions /\ 0 \in AnyVersion
  BY <1>1 DEF Versions, AnyVersion
<1> QED
  BY <1>2 DEF UpdateInit, UpdateInv, UpdateTypeOK, DownloadInv, UpdatesAreVerified, LedgerNamesFiles,
              Statuses, Preferences, DownloadTasks, AtWork, Writing, Alone, Filed

LEMMA UpdateStepKeepsInv == UpdateInv /\ [UpdateNext]_updateVars => UpdateInv'
<1> SUFFICES ASSUME UpdateInv, [UpdateNext]_updateVars
             PROVE  UpdateInv'
  OBVIOUS
<1>1. CASE BeginCheck \/ BeginBackgroundCheck \/ Checking \/ DismissUpdate \/ ScheduleUpdate
  BY <1>1, ChecksKeepUpdates
<1>2. CASE CancelDownload
  <2>1. PICK d \in Downloads : TRUE
    BY <1>2, UpdateFacts DEF CancelDownload
  <2> QED
    BY <1>2, <2>1, DownloadsKeepUpdates
<1>3. ASSUME NEW d \in Downloads,
             BeginDownload(d) \/ AskForUpdate(d) \/ DownloadUpdate(d) \/ EndDownload(d)
      PROVE  UpdateInv'
  BY <1>3, DownloadsKeepUpdates
<1>4. ASSUME NEW d \in Downloads, ArchiveUpdate(d)
      PROVE  UpdateInv'
  BY <1>4, ArchivingKeepsUpdates
<1>5. ASSUME NEW d \in Downloads, ReadLedger(d) \/ RecordUpdate(d) \/ PruneArchive(d)
      PROVE  UpdateInv'
  BY <1>5, ReadingKeepsUpdates, RecordingKeepsUpdates, PruningKeepsUpdates
<1>6. CASE Relaunch \/ BeginInstall \/ EndInstall \/ \E v \in AnyVersion : Publish(v)
  BY <1>6, LaunchesKeepUpdates
<1>7. CASE UNCHANGED updateVars
  BY <1>7 DEF updateVars, UpdateInv, UpdateTypeOK, DownloadInv, UpdatesAreVerified, LedgerNamesFiles,
                Alone, Filed, Newest
<1> QED
  BY <1>1, <1>2, <1>3, <1>4, <1>5, <1>6, <1>7 DEF UpdateNext, Downloading

-----------------------------------------------------------------------------
(* Changes to a note, for any number of requests, edits, stops and Vaults. *)
(* An approval is one row, which the request that uses it up takes for     *)
(* itself: no other request has it when the note is replaced, and none     *)
(* will.                                                                   *)

\* One row for each preview, and what is approved was approved on this Vault.
ApprovalRowsInv ==
    /\ \A a, b \in taskApprovals : a.preview = b.preview => a = b
    /\ \A a \in taskApprovals : a.decision = "approved" => <<a.preview, vault>> \in approvedIn

Written(p) == \E i \in DOMAIN writes : writes[i][1] = p

\* The requests that have an approval of their own to write by.
Holds(h) == taskHandler[h].phase \in {"consumed", "compared"}

RequestsInv ==
    \A h \in TaskHandlers :
        /\ taskHandler[h].phase = "read" => taskHandler[h].about \subseteq TaskKeys
        /\ taskHandler[h].phase \notin {"idle", "read"} => taskHandler[h].about \subseteq Previews
        /\ \A p, q \in taskHandler[h].about : p = q
        /\ Holds(h) => \A p \in taskHandler[h].about :
               /\ <<p, vault>> \in approvedIn /\ Decided(p, "consumed") /\ ~Written(p)
               /\ \A g \in TaskHandlers \ {h} : Holds(g) => p \notin taskHandler[g].about

WrittenInv ==
    /\ \A i \in DOMAIN writes : writes[i] \in approvedIn /\ Decided(writes[i][1], "consumed")
    /\ \A i, j \in DOMAIN writes : writes[i][1] = writes[j][1] => i = j

TaskInv == TaskTypeOK /\ ApprovalRowsInv /\ RequestsInv /\ WrittenInv

LEMMA TaskInvInitially == TaskInit => TaskInv
<1> SUFFICES ASSUME TaskInit PROVE TaskInv
  OBVIOUS
<1>1. Blank \in Contents
  BY TaskAssumption DEF Blank, Contents
<1>2. DOMAIN writes = {}
  BY DEF TaskInit
<1>3. taskHandler \in [TaskHandlers -> TaskRequest] /\ \A h \in TaskHandlers : taskHandler[h] = IdleRequest
  BY <1>1 DEF TaskInit, TaskRequest, IdleRequest
<1>4. \A h \in TaskHandlers : taskHandler[h].phase = "idle" /\ taskHandler[h].about = {}
  BY <1>3 DEF IdleRequest
<1>5. writes \in Seq(Previews \X Vaults)
  BY DEF TaskInit
<1>6. TaskTypeOK
  BY <1>1, <1>3, <1>5 DEF TaskInit, TaskTypeOK
<1> QED
  BY <1>2, <1>4, <1>6 DEF TaskInit, TaskInv, ApprovalRowsInv, RequestsInv, WrittenInv, Holds

\* A request that goes on with nothing new to write by.
LEMMA RequestMovesKeepTasks ==
  ASSUME TaskInv, NEW h \in TaskHandlers, NEW r \in TaskRequest,
         taskHandler' = [taskHandler EXCEPT ![h] = r],
         UNCHANGED <<vault, taskApprovals, approvedIn, writes>>,
         note' \in Contents, taskPreviews' \subseteq Previews, expired' \subseteq Previews,
         r.phase = "read" => r.about \subseteq TaskKeys,
         r.phase \notin {"idle", "read"} => r.about \subseteq Previews,
         \A p, q \in r.about : p = q,
         r.phase \in {"consumed", "compared"} => Holds(h) /\ r.about = taskHandler[h].about
  PROVE  TaskInv'
<1>1. taskHandler'[h] = r /\ \A g \in TaskHandlers \ {h} : taskHandler'[g] = taskHandler[g]
  BY DEF TaskInv, TaskTypeOK
<1>2. taskHandler' \in [TaskHandlers -> TaskRequest]
  BY DEF TaskInv, TaskTypeOK
<1>3. TaskTypeOK'
  BY <1>2 DEF TaskInv, TaskTypeOK
<1>4. ApprovalRowsInv' /\ WrittenInv'
  BY DEF TaskInv, ApprovalRowsInv, WrittenInv, Decided
<1>5. \A g \in TaskHandlers : Holds(g)' => Holds(g) /\ taskHandler'[g].about = taskHandler[g].about
  BY <1>1 DEF Holds
<1>6. \A p : (Decided(p, "consumed")' <=> Decided(p, "consumed")) /\ (Written(p)' <=> Written(p))
  BY DEF Decided, Written
<1>7. RequestsInv'
  BY <1>1, <1>5, <1>6 DEF TaskInv, RequestsInv
<1> QED
  BY <1>3, <1>4, <1>7 DEF TaskInv

\* The rows, when one decision becomes another: no other row changes.
LEMMA Redecided ==
  ASSUME TaskInv, NEW p, NEW from, NEW to \in TaskDecisions,
         Decided(p, from), from # "consumed", Redecide(p, from, to)
  PROVE  /\ taskApprovals' \subseteq [preview : Previews, decision : TaskDecisions]
         /\ \A a, b \in taskApprovals' : a.preview = b.preview => a = b
         /\ \A a \in taskApprovals' : a \in taskApprovals \/ (a.preview = p /\ a.decision = to)
         /\ \A q : Decided(q, "consumed") => Decided(q, "consumed")'
         /\ Decided(p, to)'
<1> DEFINE old == [preview |-> p, decision |-> from]
<1> DEFINE new == [preview |-> p, decision |-> to]
<1>1. taskApprovals' = (taskApprovals \ {old}) \cup {new} /\ old \in taskApprovals
  BY DEF Redecide, Decided
<1>2. taskApprovals \subseteq [preview : Previews, decision : TaskDecisions]
  BY DEF TaskInv, TaskTypeOK
<1>3. p \in Previews /\ new \in [preview : Previews, decision : TaskDecisions] /\ new.preview = p /\ new.decision = to
      /\ old.preview = p
  BY <1>1, <1>2
<1>4. \A a \in taskApprovals : a.preview = p => a = old
  BY <1>1, <1>3 DEF TaskInv, ApprovalRowsInv
<1>5. \A a, b \in taskApprovals : a.preview = b.preview => a = b
  BY DEF TaskInv, ApprovalRowsInv
<1> HIDE DEF old, new
<1>6. \A a \in taskApprovals' : a = new \/ (a \in taskApprovals /\ a.preview # p)
  BY <1>1, <1>4
<1>7. \A a, b \in taskApprovals' : a.preview = b.preview => a = b
  BY <1>3, <1>5, <1>6
<1>8. \A q : Decided(q, "consumed") => Decided(q, "consumed")'
  <2>1. \A q : [preview |-> q, decision |-> "consumed"] # old
    BY DEF old
  <2> QED
    BY <1>1, <2>1 DEF Decided
<1>9. Decided(p, to)'
  BY <1>1 DEF Decided, new
<1> QED
  BY <1>1, <1>2, <1>3, <1>6, <1>7, <1>8, <1>9

\* What the previews and the note are while a request is served.
LEMMA TaskFacts ==
  ASSUME TaskInv
  PROVE  /\ vault \in Vaults /\ note \in Contents /\ taskPreviews \subseteq Previews /\ expired \subseteq Previews
         /\ taskApprovals \subseteq [preview : Previews, decision : TaskDecisions]
         /\ taskHandler \in [TaskHandlers -> TaskRequest]
         /\ approvedIn \subseteq Previews \X Vaults /\ writes \in Seq(Previews \X Vaults)
         /\ \A p \in Previews : p.content \in Contents
         /\ Blank \in Contents /\ IdleRequest \in TaskRequest
<1>1. Blank \in Contents
  BY TaskAssumption DEF Blank, Contents
<1> QED
  BY <1>1 DEF TaskInv, TaskTypeOK, Previews, IdleRequest, TaskRequest

LEMMA PreviewingKeepsTasks ==
  ASSUME TaskInv, NEW h \in TaskHandlers,
         PreviewWrite(h) \/ SavePreview(h) \/ SaveApproval(h) \/ \E k \in TaskKeys : ReadNote(h, k)
  PROVE  TaskInv'
<1> USE TaskFacts
<1>1. ASSUME NEW k \in TaskKeys, ReadNote(h, k)
      PROVE  TaskInv'
  <2> DEFINE r == [phase |-> "read", about |-> {k}, base |-> note]
  <2>1. r \in TaskRequest /\ r.phase = "read" /\ r.about = {k}
    BY DEF TaskRequest
  <2>2. taskHandler' = [taskHandler EXCEPT ![h] = r]
        /\ UNCHANGED <<vault, taskApprovals, approvedIn, writes, note, taskPreviews, expired>>
    BY <1>1 DEF ReadNote, RequestOnly, taskRows
  <2> HIDE DEF r
  <2> QED
    BY <2>1, <2>2, RequestMovesKeepTasks
<1>2. CASE PreviewWrite(h)
  <2>1. PICK k \in taskHandler[h].about :
            taskHandler' = [taskHandler EXCEPT ![h] =
                [phase |-> "previewed", base |-> taskHandler[h].base,
                 about |-> {[key |-> k, content |-> [taskHandler[h].base EXCEPT !.tasks = @ \cup {k}], expected |-> note]}]]
    BY <1>2 DEF PreviewWrite
  <2> DEFINE base == taskHandler[h].base
  <2> DEFINE p == [key |-> k, content |-> [base EXCEPT !.tasks = @ \cup {k}], expected |-> note]
  <2> DEFINE r == [phase |-> "previewed", about |-> {p}, base |-> base]
  <2>2. k \in TaskKeys /\ base \in Contents
    BY <1>2, <2>1 DEF PreviewWrite, At, TaskInv, RequestsInv, TaskRequest
  <2>3. [base EXCEPT !.tasks = @ \cup {k}] \in Contents
    BY <2>2 DEF Contents
  <2>4. p \in Previews
    BY <2>2, <2>3 DEF Previews
  <2> HIDE DEF p
  <2>5. r \in TaskRequest /\ r.phase = "previewed" /\ r.about = {p}
    BY <2>2, <2>4 DEF TaskRequest
  <2>6. taskHandler' = [taskHandler EXCEPT ![h] = r]
        /\ UNCHANGED <<vault, taskApprovals, approvedIn, writes, note, taskPreviews, expired>>
    BY <1>2, <2>1 DEF PreviewWrite, RequestOnly, taskRows, p
  <2> HIDE DEF r
  <2> QED
    BY <2>4, <2>5, <2>6, RequestMovesKeepTasks
<1>3. CASE SavePreview(h)
  <2>1. PICK p \in taskHandler[h].about :
            \/ taskHandler' = [taskHandler EXCEPT ![h] = IdleRequest] /\ UNCHANGED taskPreviews
            \/ /\ taskPreviews' = taskPreviews \cup {p}
               /\ taskHandler' = [taskHandler EXCEPT ![h].phase = "saved"]
    BY <1>3 DEF SavePreview, Answer, Goes
  <2>2. UNCHANGED <<vault, taskApprovals, approvedIn, writes, note, expired>> /\ taskHandler[h].phase = "previewed"
    BY <1>3 DEF SavePreview, RequestOnly, At
  <2>3. p \in Previews /\ taskHandler[h].about \subseteq Previews /\ \A q, x \in taskHandler[h].about : q = x
    BY <2>1, <2>2 DEF TaskInv, RequestsInv
  <2>4. taskPreviews' \subseteq Previews
    BY <2>1, <2>3
  <2> DEFINE r == [taskHandler[h] EXCEPT !.phase = "saved"]
  <2>5. r \in TaskRequest /\ r.phase = "saved" /\ r.about = taskHandler[h].about
    BY DEF TaskRequest
  <2>6. IdleRequest.phase = "idle" /\ IdleRequest.about = {}
    BY DEF IdleRequest
  <2>7. \/ taskHandler' = [taskHandler EXCEPT ![h] = IdleRequest]
        \/ taskHandler' = [taskHandler EXCEPT ![h] = r]
    BY <2>1
  <2> HIDE DEF r
  <2>8. CASE taskHandler' = [taskHandler EXCEPT ![h] = IdleRequest]
    BY <2>2, <2>4, <2>6, <2>8, RequestMovesKeepTasks
  <2>9. CASE taskHandler' = [taskHandler EXCEPT ![h] = r]
    BY <2>2, <2>3, <2>4, <2>5, <2>9, RequestMovesKeepTasks
  <2> QED
    BY <2>7, <2>8, <2>9
<1>4. CASE SaveApproval(h)
  <2>1. PICK p \in taskHandler[h].about :
            taskApprovals' = IF Known(p) THEN taskApprovals
                             ELSE taskApprovals \cup {[preview |-> p, decision |-> "pending"]}
    BY <1>4 DEF SaveApproval
  <2>2. UNCHANGED <<vault, approvedIn, writes, note, expired, taskPreviews>> /\ taskHandler[h].phase = "saved"
        /\ taskHandler' = [taskHandler EXCEPT ![h] = IdleRequest]
    BY <1>4 DEF SaveApproval, RequestOnly, At, Answer
  <2>3. p \in Previews
    BY <2>1, <2>2 DEF TaskInv, RequestsInv
  <2> DEFINE new == [preview |-> p, decision |-> "pending"]
  <2>4. new \in [preview : Previews, decision : TaskDecisions] /\ new.preview = p /\ new.decision = "pending"
    BY <2>3 DEF TaskDecisions
  <2>5. taskApprovals' = taskApprovals
        \/ (taskApprovals' = taskApprovals \cup {new} /\ \A a \in taskApprovals : a.preview # p)
    BY <2>1 DEF Known
  <2> HIDE DEF new
  <2>6. taskHandler'[h] = IdleRequest /\ \A g \in TaskHandlers \ {h} : taskHandler'[g] = taskHandler[g]
    BY <2>2
  <2>7. TaskTypeOK'
    BY <2>2, <2>4, <2>5 DEF TaskTypeOK, TaskInv
  <2>8. ApprovalRowsInv'
    BY <2>2, <2>4, <2>5 DEF ApprovalRowsInv, TaskInv
  <2>9. \A q : (Decided(q, "consumed") => Decided(q, "consumed")') /\ (Written(q)' <=> Written(q))
    BY <2>2, <2>5 DEF Decided, Written
  <2>10. WrittenInv'
    BY <2>2, <2>9 DEF WrittenInv, TaskInv, Decided
  <2>11. taskHandler'[h].phase = "idle" /\ taskHandler'[h].about = {}
    BY <2>6 DEF IdleRequest
  <2>12. \A g \in TaskHandlers : Holds(g)' => Holds(g) /\ taskHandler'[g] = taskHandler[g]
    BY <2>6, <2>11 DEF Holds
  <2>13. RequestsInv'
    BY <2>2, <2>6, <2>9, <2>11, <2>12 DEF RequestsInv, TaskInv
  <2> QED
    BY <2>7, <2>8, <2>10, <2>13 DEF TaskInv
<1> QED
  BY <1>1, <1>2, <1>3, <1>4

\* The request that uses an approval up is the only one that has it.
LEMMA ConsumingKeepsTasks ==
  ASSUME TaskInv, NEW h \in TaskHandlers, ConsumeApproval(h)
  PROVE  TaskInv'
<1> USE TaskFacts
<1>1. PICK p \in taskHandler[h].about :
          \/ Decided(p, "approved") /\ Redecide(p, "approved", "consumed") /\ Goes(h, "consumed")
          \/ Answer(h) /\ UNCHANGED taskApprovals
  BY DEF ConsumeApproval, Consumable
<1>2. UNCHANGED <<vault, approvedIn, writes, note, expired, taskPreviews>> /\ taskHandler[h].phase = "checked"
  BY DEF ConsumeApproval, RequestOnly, At
<1>3. CASE Answer(h) /\ UNCHANGED taskApprovals
  <2>1. IdleRequest.phase = "idle" /\ IdleRequest.about = {}
    BY DEF IdleRequest
  <2>2. taskHandler' = [taskHandler EXCEPT ![h] = IdleRequest]
    BY <1>3 DEF Answer
  <2> QED
    BY <1>2, <1>3, <2>1, <2>2, RequestMovesKeepTasks
<1>4. CASE Decided(p, "approved") /\ Redecide(p, "approved", "consumed") /\ Goes(h, "consumed")
  <2> DEFINE r == [taskHandler[h] EXCEPT !.phase = "consumed"]
  <2>1. r \in TaskRequest /\ r.phase = "consumed" /\ r.about = taskHandler[h].about
    BY DEF TaskRequest
  <2>2. taskHandler' = [taskHandler EXCEPT ![h] = r]
    BY <1>4 DEF Goes
  <2> HIDE DEF r
  <2>3. taskHandler'[h] = r /\ \A g \in TaskHandlers \ {h} : taskHandler'[g] = taskHandler[g]
    BY <2>2
  <2>4. "consumed" \in TaskDecisions /\ "approved" # "consumed"
    BY DEF TaskDecisions
  <2>5. /\ taskApprovals' \subseteq [preview : Previews, decision : TaskDecisions]
        /\ \A a, b \in taskApprovals' : a.preview = b.preview => a = b
        /\ \A a \in taskApprovals' : a \in taskApprovals \/ (a.preview = p /\ a.decision = "consumed")
        /\ \A q : Decided(q, "consumed") => Decided(q, "consumed")'
        /\ Decided(p, "consumed")'
    BY <1>4, <2>4, Redecided
  <2>6. TaskTypeOK'
    BY <1>2, <2>1, <2>2, <2>5 DEF TaskTypeOK, TaskInv
  <2>7. ApprovalRowsInv'
    BY <1>2, <2>5 DEF ApprovalRowsInv, TaskInv
  <2>8. WrittenInv'
    BY <1>2, <2>5 DEF WrittenInv, TaskInv, Decided
  <2>9. \A q : Written(q)' <=> Written(q)
    BY <1>2 DEF Written
  <2>10. <<p, vault>> \in approvedIn /\ ~Decided(p, "consumed")
    <3>1. [preview |-> p, decision |-> "approved"] \in taskApprovals
      BY <1>4 DEF Decided
    <3>2. ASSUME Decided(p, "consumed") PROVE FALSE
      <4>1. [preview |-> p, decision |-> "consumed"] \in taskApprovals
        BY <3>2 DEF Decided
      <4>2. [preview |-> p, decision |-> "consumed"] = [preview |-> p, decision |-> "approved"]
        BY <3>1, <4>1 DEF TaskInv, ApprovalRowsInv
      <4> QED
        BY <4>2
    <3> QED
      BY <3>1, <3>2 DEF TaskInv, ApprovalRowsInv
  <2>11. ~Written(p) /\ \A g \in TaskHandlers : Holds(g) => p \notin taskHandler[g].about
    BY <2>10 DEF TaskInv, RequestsInv, WrittenInv, Written
  <2>12. \A q \in taskHandler[h].about : q = p
    BY DEF TaskInv, RequestsInv
  <2>13. ~Holds(h) /\ \A g \in TaskHandlers \ {h} : Holds(g)' <=> Holds(g)
    BY <1>2, <2>3 DEF Holds
  <2>14. taskHandler[h].about \subseteq Previews
    BY <1>2 DEF TaskInv, RequestsInv
  <2>15. ASSUME NEW g \in TaskHandlers, Holds(g)', NEW q \in taskHandler'[g].about
         PROVE  /\ <<q, vault>> \in approvedIn /\ Decided(q, "consumed")' /\ ~Written(q)
                /\ \A x \in TaskHandlers \ {g} : Holds(x)' => q \notin taskHandler'[x].about
    <3>1. CASE g = h
      <4>1. q = p
        BY <2>1, <2>3, <2>12, <2>15, <3>1
      <4> QED
        BY <2>3, <2>5, <2>10, <2>11, <2>13, <3>1, <4>1
    <3>2. CASE g # h
      <4>1. Holds(g) /\ taskHandler'[g] = taskHandler[g]
        BY <2>3, <2>13, <2>15, <3>2
      <4>2. q # p /\ <<q, vault>> \in approvedIn /\ Decided(q, "consumed") /\ ~Written(q)
            /\ \A x \in TaskHandlers \ {g} : Holds(x) => q \notin taskHandler[x].about
        BY <2>11, <2>15, <4>1 DEF TaskInv, RequestsInv
      <4> QED
        BY <2>1, <2>3, <2>5, <2>12, <2>13, <4>2
    <3> QED
      BY <3>1, <3>2
  <2>16. RequestsInv'
    BY <1>2, <2>1, <2>3, <2>9, <2>14, <2>15 DEF RequestsInv, TaskInv
  <2> QED
    BY <2>6, <2>7, <2>8, <2>16 DEF TaskInv
<1> QED
  BY <1>1, <1>3, <1>4

\* The note is replaced by a request that has the approval, which it has no more then.
LEMMA ReplacingKeepsTasks ==
  ASSUME TaskInv, NEW h \in TaskHandlers, ReplaceNote(h)
  PROVE  TaskInv'
<1> USE TaskFacts
<1>1. PICK p \in taskHandler[h].about : note' = p.content /\ writes' = Append(writes, <<p, vault>>)
  BY DEF ReplaceNote
<1>2. UNCHANGED <<vault, approvedIn, expired, taskPreviews, taskApprovals>> /\ Holds(h)
      /\ taskHandler[h].phase = "compared"
  BY DEF ReplaceNote, RequestOnly, At, taskRows, Holds
<1> DEFINE r == [taskHandler[h] EXCEPT !.phase = "written"]
<1>3. r \in TaskRequest /\ r.phase = "written" /\ r.about = taskHandler[h].about
  BY DEF TaskRequest
<1>4. taskHandler' = [taskHandler EXCEPT ![h] = r]
  BY DEF Goes, ReplaceNote
<1> HIDE DEF r
<1>5. taskHandler'[h] = r /\ \A g \in TaskHandlers \ {h} : taskHandler'[g] = taskHandler[g]
  BY <1>4
<1>6. p \in Previews /\ <<p, vault>> \in approvedIn /\ Decided(p, "consumed") /\ ~Written(p)
      /\ \A g \in TaskHandlers \ {h} : Holds(g) => p \notin taskHandler[g].about
  BY <1>2 DEF TaskInv, RequestsInv
<1>7. writes' \in Seq(Previews \X Vaults)
  BY <1>1, <1>6
<1>8. /\ DOMAIN writes' = 1 .. Len(writes) + 1 /\ DOMAIN writes = 1 .. Len(writes) /\ Len(writes) \in Nat
      /\ \A i \in DOMAIN writes : writes'[i] = writes[i]
      /\ writes'[Len(writes) + 1] = <<p, vault>>
  BY <1>1, <1>6
<1>9. \A i \in DOMAIN writes' : i \in DOMAIN writes \/ i = Len(writes) + 1
  BY <1>8
<1>10. TaskTypeOK'
  BY <1>1, <1>2, <1>3, <1>4, <1>6, <1>7 DEF TaskTypeOK, TaskInv
<1>11. ApprovalRowsInv'
  BY <1>2 DEF ApprovalRowsInv, TaskInv
<1>12. \A i \in DOMAIN writes : writes[i][1] # p
  BY <1>6 DEF Written
<1>13. \A q : Decided(q, "consumed")' <=> Decided(q, "consumed")
  BY <1>2 DEF Decided
<1>14. ASSUME NEW i \in DOMAIN writes'
       PROVE  writes'[i] \in approvedIn /\ Decided(writes'[i][1], "consumed")
  <2>1. CASE i \in DOMAIN writes
    BY <1>8, <2>1 DEF TaskInv, WrittenInv
  <2>2. CASE i = Len(writes) + 1
    <3>1. writes'[i] = <<p, vault>>
      BY <1>8, <2>2
    <3> QED
      BY <1>6, <3>1
  <2> QED
    BY <1>9, <2>1, <2>2
<1>15. ASSUME NEW i \in DOMAIN writes', NEW j \in DOMAIN writes', writes'[i][1] = writes'[j][1]
       PROVE  i = j
  BY <1>8, <1>9, <1>12, <1>15 DEF TaskInv, WrittenInv
<1>16. WrittenInv'
  BY <1>2, <1>14, <1>15 DEF WrittenInv, Decided
<1>17. \A q : Written(q)' => Written(q) \/ q = p
  BY <1>8, <1>9 DEF Written
<1>18. ~Holds(h)' /\ \A g \in TaskHandlers : Holds(g)' => Holds(g) /\ g # h /\ taskHandler'[g] = taskHandler[g]
  BY <1>3, <1>5 DEF Holds
<1>19. ASSUME NEW g \in TaskHandlers, Holds(g)', NEW q \in taskHandler'[g].about
       PROVE  /\ <<q, vault>> \in approvedIn /\ Decided(q, "consumed") /\ ~Written(q)'
              /\ \A x \in TaskHandlers \ {g} : Holds(x)' => q \notin taskHandler'[x].about
  BY <1>6, <1>17, <1>18, <1>19 DEF TaskInv, RequestsInv
<1>20. ASSUME NEW g \in TaskHandlers
       PROVE  /\ taskHandler'[g].phase = "read" => taskHandler'[g].about \subseteq TaskKeys
              /\ taskHandler'[g].phase \notin {"idle", "read"} => taskHandler'[g].about \subseteq Previews
              /\ \A q, x \in taskHandler'[g].about : q = x
  <2>1. CASE g = h
    BY <1>2, <1>3, <1>5, <2>1 DEF TaskInv, RequestsInv
  <2>2. CASE g # h
    BY <1>5, <2>2 DEF TaskInv, RequestsInv
  <2> QED
    BY <2>1, <2>2
<1>21. RequestsInv'
  BY <1>2, <1>13, <1>19, <1>20 DEF RequestsInv
<1> QED
  BY <1>10, <1>11, <1>16, <1>21 DEF TaskInv

LEMMA ApplyingKeepsTasks ==
  ASSUME TaskInv, NEW h \in TaskHandlers,
         CompareNote(h) \/ DropPreview(h) \/ \E p \in taskPreviews : CheckApproval(h, p)
  PROVE  TaskInv'
<1> USE TaskFacts
<1>1. IdleRequest.phase = "idle" /\ IdleRequest.about = {}
  BY DEF IdleRequest
<1>2. ASSUME NEW p \in taskPreviews, CheckApproval(h, p)
      PROVE  TaskInv'
  <2> DEFINE r == [phase |-> "checked", about |-> {p}, base |-> Blank]
  <2>1. r \in TaskRequest /\ r.phase = "checked" /\ r.about = {p} /\ p \in Previews
    BY DEF TaskRequest
  <2>2. taskHandler' = [taskHandler EXCEPT ![h] = r]
        /\ UNCHANGED <<vault, taskApprovals, approvedIn, writes, note, taskPreviews, expired>>
    BY <1>2 DEF CheckApproval, RequestOnly, taskRows
  <2> HIDE DEF r
  <2> QED
    BY <2>1, <2>2, RequestMovesKeepTasks
<1>3. CASE CompareNote(h)
  <2>1. UNCHANGED <<vault, taskApprovals, approvedIn, writes, note, taskPreviews, expired>>
        /\ taskHandler[h].phase = "consumed"
    BY <1>3 DEF CompareNote, RequestOnly, taskRows, At
  <2>2. Answer(h) \/ Goes(h, "written") \/ Goes(h, "compared")
    BY <1>3 DEF CompareNote
  <2>3. taskHandler[h].about \subseteq Previews /\ (\A q, x \in taskHandler[h].about : q = x) /\ Holds(h)
    BY <2>1 DEF TaskInv, RequestsInv, Holds
  <2>4. CASE Answer(h)
    <3>1. taskHandler' = [taskHandler EXCEPT ![h] = IdleRequest]
      BY <2>4 DEF Answer
    <3> QED
      BY <1>1, <2>1, <3>1, RequestMovesKeepTasks
  <2>5. ASSUME NEW next \in {"written", "compared"}, Goes(h, next)
        PROVE  TaskInv'
    <3> DEFINE r == [taskHandler[h] EXCEPT !.phase = next]
    <3>1. r \in TaskRequest /\ r.phase = next /\ r.about = taskHandler[h].about
      BY DEF TaskRequest
    <3>2. taskHandler' = [taskHandler EXCEPT ![h] = r]
      BY <2>5 DEF Goes
    <3> HIDE DEF r
    <3>3. r.phase # "read" /\ r.about \subseteq Previews /\ \A q, x \in r.about : q = x
      BY <2>3, <3>1
    <3>4. note' \in Contents /\ taskPreviews' \subseteq Previews /\ expired' \subseteq Previews
      BY <2>1
    <3>5. Holds(h) /\ r.about = taskHandler[h].about
      BY <2>3, <3>1
    <3> QED
      BY <2>1, <3>1, <3>2, <3>3, <3>4, <3>5, RequestMovesKeepTasks
  <2> QED
    BY <2>2, <2>4, <2>5
<1>4. CASE DropPreview(h)
  <2>1. UNCHANGED <<vault, taskApprovals, approvedIn, writes, note, expired>> /\ taskPreviews' \subseteq taskPreviews
        /\ taskHandler' = [taskHandler EXCEPT ![h] = IdleRequest]
    BY <1>4 DEF DropPreview, RequestOnly, Answer
  <2>2. taskPreviews' \subseteq Previews
    BY <2>1
  <2> QED
    BY <1>1, <2>1, <2>2, RequestMovesKeepTasks
<1> QED
  BY <1>2, <1>3, <1>4

\* Decisions, edits and time: no request has anything it had not.
LEMMA OthersKeepTasks ==
  ASSUME TaskInv,
         EditNote \/ (\E a \in taskApprovals : Decide(a.preview)) \/ \E p \in taskPreviews : Expire(p)
  PROVE  TaskInv'
<1> USE TaskFacts
<1>1. ASSUME NEW a \in taskApprovals, Decide(a.preview)
      PROVE  TaskInv'
  <2> DEFINE p == a.preview
  <2>1. PICK decision \in {"approved", "rejected"} :
            /\ Redecide(p, "pending", decision)
            /\ approvedIn' = IF decision = "approved" THEN approvedIn \cup {<<p, vault>>} ELSE approvedIn
    BY <1>1 DEF Decide
  <2>2. UNCHANGED <<vault, note, taskPreviews, expired, taskHandler, writes>> /\ Decided(p, "pending")
    BY <1>1 DEF Decide
  <2>3. decision \in TaskDecisions /\ "pending" # "consumed"
    BY DEF TaskDecisions
  <2>4. p \in Previews
    OBVIOUS
  <2> HIDE DEF p
  <2>5. /\ taskApprovals' \subseteq [preview : Previews, decision : TaskDecisions]
        /\ \A x, y \in taskApprovals' : x.preview = y.preview => x = y
        /\ \A x \in taskApprovals' : x \in taskApprovals \/ (x.preview = p /\ x.decision = decision)
        /\ \A q : Decided(q, "consumed") => Decided(q, "consumed")'
    BY <2>1, <2>2, <2>3, Redecided
  <2>6. approvedIn \subseteq approvedIn' /\ approvedIn' \subseteq Previews \X Vaults
        /\ (decision = "approved" => <<p, vault>> \in approvedIn')
    BY <2>1, <2>4
  <2>7. TaskTypeOK'
    BY <2>2, <2>5, <2>6 DEF TaskTypeOK, TaskInv
  <2>8. ApprovalRowsInv'
    BY <2>2, <2>5, <2>6 DEF ApprovalRowsInv, TaskInv
  <2>9. WrittenInv'
    BY <2>2, <2>5, <2>6 DEF WrittenInv, TaskInv, Decided
  <2>10. \A q : Written(q)' <=> Written(q)
    BY <2>2 DEF Written
  <2>11. \A h \in TaskHandlers : Holds(h)' <=> Holds(h)
    BY <2>2 DEF Holds
  <2>12. RequestsInv'
    BY <2>2, <2>5, <2>6, <2>10, <2>11 DEF RequestsInv, TaskInv
  <2> QED
    BY <2>7, <2>8, <2>9, <2>12 DEF TaskInv
<1>2. CASE EditNote
  <2>1. UNCHANGED <<vault, taskPreviews, taskApprovals, expired, taskHandler, approvedIn, writes>>
    BY <1>2 DEF EditNote, taskRows, taskHistory
  <2>2. note' \in Contents
    BY <1>2, TaskAssumption DEF EditNote, Contents
  <2> QED
    BY <2>1, <2>2 DEF TaskInv, TaskTypeOK, ApprovalRowsInv, RequestsInv, WrittenInv, Holds, Decided, Written
<1>3. ASSUME NEW p \in taskPreviews, Expire(p)
      PROVE  TaskInv'
  <2>1. UNCHANGED <<vault, note, taskPreviews, taskApprovals, taskHandler, approvedIn, writes>>
        /\ expired' \subseteq Previews
    BY <1>3 DEF Expire, taskRows, taskHistory
  <2> QED
    BY <2>1 DEF TaskInv, TaskTypeOK, ApprovalRowsInv, RequestsInv, WrittenInv, Holds, Decided, Written
<1> QED
  BY <1>1, <1>2, <1>3

\* A stop of Core ends the requests; another Vault has no approval of the old one's.
LEMMA StopsKeepTasks ==
  ASSUME TaskInv, RestartOnVault \/ SwitchVault
  PROVE  TaskInv'
<1> USE TaskFacts
<1>1. taskHandler' = [h \in TaskHandlers |-> IdleRequest] /\ UNCHANGED <<expired, approvedIn, writes>>
  BY DEF RestartOnVault, SwitchVault, StopCore, taskHistory
<1>2. taskHandler' \in [TaskHandlers -> TaskRequest]
  BY <1>1
<1>3. \A h \in TaskHandlers : taskHandler'[h].phase = "idle" /\ taskHandler'[h].about = {}
  BY <1>1 DEF IdleRequest
<1>4. RequestsInv'
  BY <1>3 DEF RequestsInv, Holds
<1>5. CASE RestartOnVault
  <2>1. UNCHANGED <<vault, note, taskPreviews, taskApprovals>>
    BY <1>5 DEF RestartOnVault, taskRows
  <2>2. TaskTypeOK' /\ ApprovalRowsInv' /\ WrittenInv'
    BY <1>1, <1>2, <2>1 DEF TaskInv, TaskTypeOK, ApprovalRowsInv, WrittenInv, Decided
  <2> QED
    BY <1>4, <2>2 DEF TaskInv
<1>6. CASE SwitchVault
  <2>1. vault' \in Vaults /\ note' = Blank /\ taskPreviews' = {}
        /\ taskApprovals' = {IF RevokedBySwitch(a) THEN [a EXCEPT !.decision = "rejected"] ELSE a : a \in taskApprovals}
    BY <1>6 DEF SwitchVault
  <2> DEFINE Kept(a) == IF RevokedBySwitch(a) THEN [a EXCEPT !.decision = "rejected"] ELSE a
  <2>2. ASSUME NEW a \in taskApprovals
        PROVE  /\ Kept(a) \in [preview : Previews, decision : TaskDecisions]
               /\ Kept(a).preview = a.preview /\ Kept(a).decision # "approved"
               /\ a.decision = "consumed" => Kept(a) = a
    <3>1. a \in [preview : Previews, decision : TaskDecisions]
      OBVIOUS
    <3> QED
      BY <3>1 DEF RevokedBySwitch, TaskDecisions
  <2>3. taskApprovals' = {Kept(a) : a \in taskApprovals}
    BY <2>1
  <2> HIDE DEF Kept
  <2>4. taskApprovals' \subseteq [preview : Previews, decision : TaskDecisions]
    BY <2>2, <2>3
  <2>5. \A a, b \in taskApprovals' : a.preview = b.preview => a = b
    BY <2>2, <2>3 DEF TaskInv, ApprovalRowsInv
  <2>6. \A a \in taskApprovals' : a.decision # "approved"
    BY <2>2, <2>3
  <2>7. ASSUME NEW q, Decided(q, "consumed")
        PROVE  Decided(q, "consumed")'
    <3> DEFINE a == [preview |-> q, decision |-> "consumed"]
    <3>1. a \in taskApprovals /\ a.decision = "consumed"
      BY <2>7 DEF Decided
    <3>2. Kept(a) = a
      BY <2>2, <3>1
    <3> QED
      BY <2>3, <3>1, <3>2 DEF Decided
  <2>8. TaskTypeOK'
    BY <1>1, <1>2, <2>1, <2>4 DEF TaskInv, TaskTypeOK
  <2>9. ApprovalRowsInv'
    BY <2>5, <2>6 DEF ApprovalRowsInv
  <2>10. WrittenInv'
    BY <1>1, <2>7 DEF TaskInv, WrittenInv, Decided
  <2> QED
    BY <1>4, <2>8, <2>9, <2>10 DEF TaskInv
<1> QED
  BY <1>5, <1>6

LEMMA TaskStepKeepsInv == TaskInv /\ [TaskNext]_taskVars => TaskInv'
<1> SUFFICES ASSUME TaskInv, [TaskNext]_taskVars
             PROVE  TaskInv'
  OBVIOUS
<1>1. ASSUME NEW h \in TaskHandlers,
             PreviewWrite(h) \/ SavePreview(h) \/ SaveApproval(h) \/ \E k \in TaskKeys : ReadNote(h, k)
      PROVE  TaskInv'
  BY <1>1, PreviewingKeepsTasks
<1>2. ASSUME NEW h \in TaskHandlers,
             CompareNote(h) \/ DropPreview(h) \/ \E p \in taskPreviews : CheckApproval(h, p)
      PROVE  TaskInv'
  BY <1>2, ApplyingKeepsTasks
<1>3. ASSUME NEW h \in TaskHandlers, ConsumeApproval(h)
      PROVE  TaskInv'
  BY <1>3, ConsumingKeepsTasks
<1>4. ASSUME NEW h \in TaskHandlers, ReplaceNote(h)
      PROVE  TaskInv'
  BY <1>4, ReplacingKeepsTasks
<1>5. CASE EditNote \/ (\E a \in taskApprovals : Decide(a.preview)) \/ \E p \in taskPreviews : Expire(p)
  BY <1>5, OthersKeepTasks
<1>6. CASE RestartOnVault \/ SwitchVault
  BY <1>6, StopsKeepTasks
<1>7. CASE UNCHANGED taskVars
  BY <1>7 DEF taskVars, TaskInv, TaskTypeOK, ApprovalRowsInv, RequestsInv, WrittenInv, Holds, Decided, Written
<1> QED
  BY <1>1, <1>2, <1>3, <1>4, <1>5, <1>6, <1>7 DEF TaskNext, TaskSteps, TaskRequests

-----------------------------------------------------------------------------
(* Reports and decks, for any ledgers, templates and requests.  A saved    *)
(* revision stays as it is, so that what was rendered of it can be         *)
(* rendered again; and an entry is as weak as the weakest of its sources,  *)
(* through facts, entries and decks that cite reports.                     *)

States == {"verified", "observed", "self_asserted", "unverified", "stale", "contradicted"}

\* What is shown of an entry or a fact rests on sources no weaker.
IsSound(entry) ==
    /\ entry.shown \in States /\ entry.sources # {}
    /\ \A x \in entry.sources : x.state \in States /\ Risk(x.state) <= Risk(entry.shown) /\ CanGround(x)

RevisionsInv ==
    \A k \in DOMAIN deliverables : \A e \in deliverables[k].entries : IsSound(e) /\ IsPublishable(e.shown)

ReviewInv ==
    /\ \A r \in previewed : r.deck \in DOMAIN deliverables /\ Rendered(r.deck) = r
    /\ \A g \in given : g.under \in DOMAIN exports /\ g.file \in previewed /\ exports[g.under] = g.file

DeliverablesInv == DeliverablesTypeOK /\ RevisionsInv /\ ReviewInv

\* The states in their order.
LEMMA RiskOrders ==
    /\ \A v \in States : Risk(v) \in 1 .. 6 /\ Verifications[Risk(v)] = v
    /\ \A k \in 1 .. 6 : Verifications[k] \in States /\ Risk(Verifications[k]) = k
    /\ \A v \in States : IsPublishable(v) <=> Risk(v) <= 4
<1> DEFINE ordered == <<"verified", "observed", "self_asserted", "unverified", "stale", "contradicted">>
<1>1. Verifications = ordered /\ DOMAIN ordered = 1 .. 6
  BY DEF Verifications
<1>2. /\ ordered[1] = "verified" /\ ordered[2] = "observed" /\ ordered[3] = "self_asserted"
      /\ ordered[4] = "unverified" /\ ordered[5] = "stale" /\ ordered[6] = "contradicted"
  OBVIOUS
<1> HIDE DEF ordered
<1>3. \A v : Risk(v) = CHOOSE k \in 1 .. 6 : ordered[k] = v
  BY <1>1 DEF Risk
<1>4. \A k \in 1 .. 6 : k = 1 \/ k = 2 \/ k = 3 \/ k = 4 \/ k = 5 \/ k = 6
  OBVIOUS
<1>5. \A k, j \in 1 .. 6 : ordered[k] = ordered[j] => k = j
  BY <1>2, <1>4
<1>6. \A k \in 1 .. 6 : ordered[k] \in States
  BY <1>2, <1>4 DEF States
<1>7. \A v \in States : \E k \in 1 .. 6 : ordered[k] = v
  BY <1>2 DEF States
<1>8. \A v \in States : Risk(v) \in 1 .. 6 /\ ordered[Risk(v)] = v
  BY <1>3, <1>7
<1>9. \A k \in 1 .. 6 : Risk(ordered[k]) = k
  BY <1>5, <1>6, <1>8
<1>10. \A k \in 1 .. 6 : IsPublishable(ordered[k]) <=> k <= 4
  BY <1>2, <1>4 DEF IsPublishable
<1>11. \A v \in States : IsPublishable(v) <=> Risk(v) <= 4
  BY <1>8, <1>10
<1> QED
  BY <1>1, <1>6, <1>8, <1>9, <1>11

\* The weakest of some states is one of them.
LEMMA WeakestIsWeakest ==
  ASSUME NEW vs \in SUBSET States, vs # {}
  PROVE  Weakest(vs) \in States /\ \A v \in vs : Risk(v) <= Risk(Weakest(vs))
<1> DEFINE risks == {Risk(v) : v \in vs}
<1>1. risks \in SUBSET (0 .. 6) /\ risks # {} /\ risks \subseteq 1 .. 6
  <2>1. \A v \in vs : Risk(v) \in 1 .. 6 /\ Risk(v) \in 0 .. 6
    BY RiskOrders
  <2> QED
    BY <2>1
<1>2. PICK x \in risks : \A y \in risks : y <= x
  BY <1>1, GreatestOf, 6 \in Nat
<1> HIDE DEF risks
<1>3. Max(risks) \in risks /\ \A y \in risks : Max(risks) >= y
  <2>1. \E y \in risks : \A z \in risks : y >= z
    BY <1>1, <1>2
  <2> QED
    BY <2>1 DEF Max
<1>4. Weakest(vs) = Verifications[Max(risks)]
  BY DEF Weakest, risks
<1>5. Weakest(vs) \in States /\ Risk(Weakest(vs)) = Max(risks)
  BY <1>1, <1>3, <1>4, RiskOrders
<1>6. \A v \in vs : Risk(v) \in risks
  BY DEF risks
<1> QED
  BY <1>1, <1>3, <1>5, <1>6

\* A fact is sound of the sources it may have, ...
LEMMA FactIsSound ==
  ASSUME NEW S, S # {}, \A x \in S : x.state \in States /\ CanGround(x)
  PROVE  IsSound(Fact(S))
<1> DEFINE vs == {x.state : x \in S}
<1>1. vs \in SUBSET States /\ vs # {}
  OBVIOUS
<1>2. Weakest(vs) \in States /\ \A v \in vs : Risk(v) <= Risk(Weakest(vs))
  BY <1>1, WeakestIsWeakest
<1>3. Fact(S).shown = Weakest(vs) /\ Fact(S).sources = S
  BY DEF Fact
<1> QED
  BY <1>2, <1>3 DEF IsSound

\* ... and an entry of the facts it cites.
LEMMA EntryIsSound ==
  ASSUME NEW F, F # {}, \A f \in F : IsSound(f)
  PROVE  IsSound(Entry(F))
<1> DEFINE vs == {f.shown : f \in F}
<1>1. vs \in SUBSET States /\ vs # {}
  BY DEF IsSound
<1>2. Weakest(vs) \in States /\ \A v \in vs : Risk(v) <= Risk(Weakest(vs))
  BY <1>1, WeakestIsWeakest
<1>3. Entry(F).shown = Weakest(vs) /\ Entry(F).sources = UNION {f.sources : f \in F}
  BY DEF Entry
<1> HIDE DEF vs
<1>4. ASSUME NEW x \in Entry(F).sources
      PROVE  x.state \in States /\ Risk(x.state) <= Risk(Weakest(vs)) /\ CanGround(x)
  <2>1. PICK f \in F : x \in f.sources
    BY <1>3
  <2>2. x.state \in States /\ Risk(x.state) <= Risk(f.shown) /\ CanGround(x) /\ f.shown \in States
    BY <2>1 DEF IsSound
  <2>3. Risk(f.shown) <= Risk(Weakest(vs))
    BY <1>2 DEF vs
  <2>4. Risk(x.state) \in Int /\ Risk(f.shown) \in Int /\ Risk(Weakest(vs)) \in Int
    BY <1>2, <2>2, RiskOrders
  <2> QED
    BY <2>2, <2>3, <2>4
<1>5. Entry(F).sources # {}
  <2>1. PICK f \in F : TRUE
    OBVIOUS
  <2>2. PICK x \in f.sources : TRUE
    BY <2>1 DEF IsSound
  <2> QED
    BY <1>3, <2>2
<1> QED
  BY <1>2, <1>3, <1>4, <1>5 DEF IsSound

\* The facts of the program, and those of a ledger it admits.
LEMMA ProgramsFactsAreSound == \A f \in {Activity, Assertion, OfReport} : IsSound(f)
<1>1. \A x \in {Source("run_event", "verified"), Source("user_assertion", "self_asserted"),
                Source("validated_artifact", "verified")} : x.state \in States /\ CanGround(x)
  BY DEF Source, States, CanGround
<1> QED
  BY <1>1, FactIsSound DEF Activity, Assertion, OfReport

LEMMA AdmittedFactsAreSound ==
  ASSUME NEW sent \in Ledgers, Admitted(sent)
  PROVE  \A f \in FactsOf(sent) : IsSound(f)
<1>1. ASSUME NEW f \in DOMAIN sent
      PROVE  IsSound(Fact(sent[f]))
  <2>1. \A x \in sent[f] : x.state \in States /\ CanGround(x)
    BY DEF Admitted, MayBe, States
  <2>2. sent[f] # {}
    BY DeliverablesAssumption
  <2> QED
    BY <2>1, <2>2, FactIsSound
<1> QED
  BY <1>1 DEF FactsOf

LEMMA DeliverablesInvInitially == DeliverablesInit => DeliverablesInv
<1> SUFFICES ASSUME DeliverablesInit PROVE DeliverablesInv
  OBVIOUS
<1>1. DOMAIN deliverables = {} /\ DOMAIN exports = {}
  BY DEF DeliverablesInit
<1>2. DeliverablesTypeOK
  BY <1>1 DEF DeliverablesInit, DeliverablesTypeOK
<1> QED
  BY <1>1, <1>2 DEF DeliverablesInit, DeliverablesInv, RevisionsInv, ReviewInv

\* A new revision leaves those there are as they are.
LEMMA SavingKeepsDeliverables ==
  ASSUME DeliverablesInv, NEW k \in ReportKeys \cup DeckKeys, NEW E, NEW look \in Looks \cup {BuiltIn},
         Save(k, [entries |-> E, look |-> look]), \A e \in E : IsSound(e),
         UNCHANGED <<templates, previewed, exports, given>>,
         writer' = writer \/ \E w \in Writers : writer' = [writer EXCEPT ![w] = NotWriting]
  PROVE  DeliverablesInv'
<1> DEFINE document == [entries |-> E, look |-> look]
<1>1. document.entries = E /\ document.look = look
  OBVIOUS
<1> HIDE DEF document
<1>2. k \notin DOMAIN deliverables /\ Buildable(document.entries) /\ deliverables' = With(deliverables, k, document)
  BY DEF Save, Saved, document
<1>3. DOMAIN deliverables' = DOMAIN deliverables \cup {k} /\ deliverables'[k] = document
      /\ \A j \in DOMAIN deliverables : deliverables'[j] = deliverables[j]
  BY <1>2 DEF With
<1>4. writer' \in [Writers -> {NotWriting} \cup
           [step : {"asking"}, key : ReportKeys \cup DeckKeys, facts : SUBSET {Activity, Assertion, OfReport},
            look : Looks \cup {BuiltIn}]]
  BY DEF DeliverablesInv, DeliverablesTypeOK
<1>5. \A j \in DOMAIN deliverables' : deliverables'[j].look \in Looks \cup {BuiltIn}
  BY <1>1, <1>3 DEF DeliverablesInv, DeliverablesTypeOK
<1>6. DeliverablesTypeOK'
  BY <1>3, <1>4, <1>5 DEF DeliverablesInv, DeliverablesTypeOK
<1>7. \A e \in E : IsPublishable(e.shown)
  BY <1>1, <1>2 DEF Buildable
<1>8. RevisionsInv'
  BY <1>1, <1>3, <1>7 DEF DeliverablesInv, RevisionsInv
<1>9. ReviewInv'
  BY <1>3 DEF DeliverablesInv, ReviewInv, Rendered
<1> QED
  BY <1>6, <1>8, <1>9 DEF DeliverablesInv

\* The looks a deck may be given now are looks.
LEMMA LooksNowAreLooks == DeliverablesInv => LooksNow \subseteq Looks \cup {BuiltIn}
<1> SUFFICES ASSUME DeliverablesInv, NEW t \in Templates, templates[t].state = "active"
             PROVE  templates[t].look \in Looks
  BY DEF LooksNow
<1>1. templates[t] \in {NoTemplate} \cup [state : {"active", "deleted"}, look : Looks]
  BY DEF DeliverablesInv, DeliverablesTypeOK
<1>2. templates[t] # NoTemplate
  BY DEF NoTemplate
<1> QED
  BY <1>1, <1>2

LEMMA ComposingKeepsDeliverables ==
  ASSUME DeliverablesInv,
         \/ \E k \in ReportKeys : ComposeManually(k) \/ \E l \in Ledgers : ComposeReport(k, l)
         \/ \E k \in DeckKeys, l \in Ledgers : ComposeDeck(k, l)
         \/ \E k \in DeckKeys, r \in ReportKeys : ComposeFromReport(k, r)
  PROVE  DeliverablesInv'
<1>1. ASSUME NEW k \in ReportKeys, ComposeManually(k)
      PROVE  DeliverablesInv'
  <2>1. Save(k, [entries |-> {Entry({Assertion})}, look |-> BuiltIn])
        /\ UNCHANGED <<templates, writer, previewed, exports, given>>
    BY <1>1 DEF ComposeManually, ReportOf
  <2>2. \A e \in {Entry({Assertion})} : IsSound(e)
    BY ProgramsFactsAreSound, EntryIsSound
  <2> QED
    BY <2>1, <2>2, SavingKeepsDeliverables
<1>2. ASSUME NEW k \in ReportKeys, NEW sent \in Ledgers, ComposeReport(k, sent)
      PROVE  DeliverablesInv'
  <2>1. PICK F \in (SUBSET FactsOf(sent)) \ {{}} : Save(k, [entries |-> {Entry(F)}, look |-> BuiltIn])
    BY <1>2 DEF ComposeReport, ReportOf
  <2>2. Admitted(sent) /\ UNCHANGED <<templates, writer, previewed, exports, given>>
    BY <1>2 DEF ComposeReport
  <2>3. \A f \in F : IsSound(f)
    BY <2>1, <2>2, AdmittedFactsAreSound
  <2>4. F # {}
    BY <2>1
  <2>5. IsSound(Entry(F))
    BY <2>3, <2>4, EntryIsSound
  <2>6. \A e \in {Entry(F)} : IsSound(e)
    BY <2>5
  <2> QED
    BY <2>1, <2>2, <2>6, SavingKeepsDeliverables
<1>3. ASSUME NEW k \in DeckKeys, NEW sent \in Ledgers, ComposeDeck(k, sent)
      PROVE  DeliverablesInv'
  <2>1. PICK F, G \in (SUBSET FactsOf(sent)) \ {{}} : Save(k, [entries |-> {Entry(F), Entry(G)}, look |-> BuiltIn])
    BY <1>3 DEF ComposeDeck, DeckOf, WithNote
  <2>2. Admitted(sent) /\ UNCHANGED <<templates, writer, previewed, exports, given>>
    BY <1>3 DEF ComposeDeck
  <2>3. (\A f \in F : IsSound(f)) /\ (\A f \in G : IsSound(f))
    BY <2>1, <2>2, AdmittedFactsAreSound
  <2>4. F # {} /\ G # {}
    BY <2>1
  <2>5. IsSound(Entry(F))
    BY <2>3, <2>4, EntryIsSound
  <2>6. IsSound(Entry(G))
    BY <2>3, <2>4, EntryIsSound
  <2>7. \A e \in {Entry(F), Entry(G)} : IsSound(e)
    BY <2>5, <2>6
  <2> QED
    BY <2>1, <2>2, <2>7, SavingKeepsDeliverables
<1>4. ASSUME NEW k \in DeckKeys, NEW r \in ReportKeys, ComposeFromReport(k, r)
      PROVE  DeliverablesInv'
  <2>1. PICK look \in LooksNow : Save(k, [entries |-> {Entry({f}) : f \in FactsOfReport(r)}, look |-> look])
    BY <1>4 DEF ComposeFromReport, DeckOf
  <2>2. UNCHANGED <<templates, writer, previewed, exports, given>>
    BY <1>4 DEF ComposeFromReport
  <2>3. ASSUME NEW f \in FactsOfReport(r)
        PROVE  IsSound(Entry({f}))
    <3>1. IsSound(f)
      BY ProgramsFactsAreSound DEF FactsOfReport
    <3> QED
      BY <3>1, EntryIsSound
  <2>4. look \in Looks \cup {BuiltIn}
    BY <2>1, LooksNowAreLooks
  <2>5. \A e \in {Entry({f}) : f \in FactsOfReport(r)} : IsSound(e)
    BY <2>3
  <2> QED
    BY <2>1, <2>2, <2>4, <2>5, SavingKeepsDeliverables
<1> QED
  BY <1>1, <1>2, <1>3, <1>4

\* What a model is asked for, and what it answers.
LEMMA AskingKeepsDeliverables ==
  ASSUME DeliverablesInv, NEW w \in Writers, NEW k \in ReportKeys \cup DeckKeys, NEW look \in Looks \cup {BuiltIn},
         NEW F \in SUBSET {Activity, Assertion, OfReport}, Asking(w, k, F, look)
  PROVE  DeliverablesInv'
<1>1. UNCHANGED <<deliverables, templates, previewed, exports, given>>
      /\ writer' = [writer EXCEPT ![w] = [step |-> "asking", key |-> k, facts |-> F, look |-> look]]
  BY DEF Asking
<1>2. DeliverablesTypeOK'
  BY <1>1 DEF DeliverablesInv, DeliverablesTypeOK
<1> QED
  BY <1>1, <1>2 DEF DeliverablesInv, RevisionsInv, ReviewInv, Rendered

LEMMA WritersKeepDeliverables ==
  ASSUME DeliverablesInv, NEW w \in Writers,
         \/ \E k \in ReportKeys : BeginReportDraft(w, k) \/ BeginScheduledDraft(w, k)
         \/ \E k \in DeckKeys : BeginDeckDraft(w, k)
         \/ ModelDraftsReport(w) \/ ModelDraftsDeck(w) \/ DraftFails(w)
  PROVE  DeliverablesInv'
<1> DEFINE Drafts == [step : {"asking"}, key : ReportKeys \cup DeckKeys,
                      facts : SUBSET {Activity, Assertion, OfReport}, look : Looks \cup {BuiltIn}]
<1>1. writer[w] # NotWriting => writer[w] \in Drafts
  BY DEF DeliverablesInv, DeliverablesTypeOK
<1>2. ASSUME NEW k \in ReportKeys, BeginReportDraft(w, k)
      PROVE  DeliverablesInv'
  BY <1>2, AskingKeepsDeliverables DEF BeginReportDraft
<1>3. ASSUME NEW k \in DeckKeys, BeginDeckDraft(w, k)
      PROVE  DeliverablesInv'
  <2>1. PICK look \in LooksNow, R \in {{}} \cup {FactsOfReport(r) : r \in ReportKeys \cap DOMAIN deliverables} :
            Asking(w, k, {Assertion} \cup R, look)
    BY <1>3 DEF BeginDeckDraft
  <2>2. {Assertion} \cup R \in SUBSET {Activity, Assertion, OfReport}
    BY <2>1 DEF FactsOfReport
  <2>3. look \in Looks \cup {BuiltIn}
    BY <2>1, LooksNowAreLooks
  <2> QED
    BY <2>1, <2>2, <2>3, AskingKeepsDeliverables
<1>4. CASE ModelDraftsReport(w)
  <2>1. PICK F \in (SUBSET writer[w].facts) \ {{}} : Save(writer[w].key, [entries |-> {Entry(F)}, look |-> BuiltIn])
    BY <1>4 DEF ModelDraftsReport, ReportOf
  <2>2. writer[w] \in Drafts /\ UNCHANGED <<templates, previewed, exports, given>>
        /\ writer' = [writer EXCEPT ![w] = NotWriting]
    BY <1>1, <1>4 DEF ModelDraftsReport
  <2>3. writer[w].key \in ReportKeys \cup DeckKeys /\ F \subseteq {Activity, Assertion, OfReport} /\ F # {}
    <3>1. writer[w].key \in ReportKeys \cup DeckKeys /\ writer[w].facts \subseteq {Activity, Assertion, OfReport}
      BY <2>2
    <3>2. F \subseteq writer[w].facts /\ F # {}
      BY <2>1
    <3> QED
      BY <3>1, <3>2
  <2>4. \A f \in F : IsSound(f)
    BY <2>3, ProgramsFactsAreSound
  <2>5. IsSound(Entry(F))
    BY <2>3, <2>4, EntryIsSound
  <2>6. \A e \in {Entry(F)} : IsSound(e)
    BY <2>5
  <2>7. /\ writer' = writer \/ \E x \in Writers : writer' = [writer EXCEPT ![x] = NotWriting]
        /\ UNCHANGED <<templates, previewed, exports, given>>
    BY <2>2
  <2> DEFINE key == writer[w].key
  <2> DEFINE look == BuiltIn
  <2>8. Save(key, [entries |-> {Entry(F)}, look |-> look]) /\ key \in ReportKeys \cup DeckKeys
        /\ look \in Looks \cup {BuiltIn}
    BY <2>1, <2>3
  <2> HIDE DEF key, look
  <2> QED
    BY <2>6, <2>7, <2>8, SavingKeepsDeliverables
<1>5. CASE ModelDraftsDeck(w)
  <2>1. PICK F \in (SUBSET writer[w].facts) \ {{}} :
            Save(writer[w].key, [entries |-> {Entry(F), Entry(F)}, look |-> writer[w].look])
    BY <1>5 DEF ModelDraftsDeck, DeckOf, WithNote
  <2>2. writer[w] \in Drafts /\ UNCHANGED <<templates, previewed, exports, given>>
        /\ writer' = [writer EXCEPT ![w] = NotWriting]
    BY <1>1, <1>5 DEF ModelDraftsDeck
  <2>3. writer[w].key \in ReportKeys \cup DeckKeys /\ F \subseteq {Activity, Assertion, OfReport} /\ F # {}
        /\ writer[w].look \in Looks \cup {BuiltIn}
    <3>1. writer[w].key \in ReportKeys \cup DeckKeys /\ writer[w].facts \subseteq {Activity, Assertion, OfReport}
          /\ writer[w].look \in Looks \cup {BuiltIn}
      BY <2>2
    <3>2. F \subseteq writer[w].facts /\ F # {}
      BY <2>1
    <3> QED
      BY <3>1, <3>2
  <2>4. \A f \in F : IsSound(f)
    BY <2>3, ProgramsFactsAreSound
  <2>5. IsSound(Entry(F))
    BY <2>3, <2>4, EntryIsSound
  <2>6. \A e \in {Entry(F), Entry(F)} : IsSound(e)
    BY <2>5
  <2>7. /\ writer' = writer \/ \E x \in Writers : writer' = [writer EXCEPT ![x] = NotWriting]
        /\ UNCHANGED <<templates, previewed, exports, given>>
    BY <2>2
  <2> DEFINE key == writer[w].key
  <2> DEFINE look == writer[w].look
  <2>8. Save(key, [entries |-> {Entry(F), Entry(F)}, look |-> look]) /\ key \in ReportKeys \cup DeckKeys
        /\ look \in Looks \cup {BuiltIn}
    BY <2>1, <2>3
  <2> HIDE DEF key, look
  <2> QED
    BY <2>6, <2>7, <2>8, SavingKeepsDeliverables
<1>6. CASE DraftFails(w)
  <2>1. UNCHANGED <<deliverables, templates, previewed, exports, given>>
        /\ writer' = [writer EXCEPT ![w] = NotWriting]
    BY <1>6 DEF DraftFails
  <2>2. DeliverablesTypeOK'
    BY <2>1 DEF DeliverablesInv, DeliverablesTypeOK
  <2> QED
    BY <2>1, <2>2 DEF DeliverablesInv, RevisionsInv, ReviewInv, Rendered
<1> QED
  BY <1>2, <1>3, <1>4, <1>5, <1>6 DEF BeginScheduledDraft

\* Templates change, and what was made with them does not.
LEMMA TemplatesKeepDeliverables ==
  ASSUME DeliverablesInv, NEW t \in Templates,
         DeleteOrRestoreTemplate(t) \/ \E look \in Looks : CreateTemplate(t, look) \/ UpdateTemplate(t, look)
  PROVE  DeliverablesInv'
<1> DEFINE There == [state : {"active", "deleted"}, look : Looks]
<1>1. templates \in [Templates -> {NoTemplate} \cup There]
  BY DEF DeliverablesInv, DeliverablesTypeOK
<1>2. UNCHANGED <<deliverables, writer, previewed, exports, given>>
  BY DEF DeleteOrRestoreTemplate, CreateTemplate, UpdateTemplate
<1>3. \E next \in There : templates' = [templates EXCEPT ![t] = next]
  <2>1. CASE DeleteOrRestoreTemplate(t)
    <3> DEFINE next == [templates[t] EXCEPT !.state = IF @ = "active" THEN "deleted" ELSE "active"]
    <3>1. templates[t] \in There
      BY <1>1, <2>1 DEF DeleteOrRestoreTemplate
    <3>2. next \in There
      BY <3>1
    <3>3. templates' = [templates EXCEPT ![t] = next]
      BY <2>1 DEF DeleteOrRestoreTemplate
    <3> QED
      BY <3>2, <3>3
  <2>2. ASSUME NEW look \in Looks, CreateTemplate(t, look)
        PROVE  \E next \in There : templates' = [templates EXCEPT ![t] = next]
    <3>1. [state |-> "active", look |-> look] \in There
      OBVIOUS
    <3> QED
      BY <2>2, <3>1 DEF CreateTemplate
  <2>3. ASSUME NEW look \in Looks, UpdateTemplate(t, look)
        PROVE  \E next \in There : templates' = [templates EXCEPT ![t] = next]
    <3> DEFINE next == [templates[t] EXCEPT !.look = look]
    <3>1. templates[t] # NoTemplate
      BY <2>3 DEF UpdateTemplate, NoTemplate
    <3>2. next \in There
      BY <1>1, <3>1
    <3>3. templates' = [templates EXCEPT ![t] = next]
      BY <2>3 DEF UpdateTemplate
    <3> QED
      BY <3>2, <3>3
  <2> QED
    BY <2>1, <2>2, <2>3
<1>4. templates' \in [Templates -> {NoTemplate} \cup There]
  BY <1>1, <1>3
<1>5. DeliverablesTypeOK'
  BY <1>2, <1>4 DEF DeliverablesInv, DeliverablesTypeOK
<1> QED
  BY <1>2, <1>5 DEF DeliverablesInv, RevisionsInv, ReviewInv, Rendered

\* A file is recorded under its key before it is handed out, and a key keeps its file.
LEMMA ExportingKeepsDeliverables ==
  ASSUME DeliverablesInv,
         (\E k \in DeckKeys : Preview(k)) \/ \E r \in previewed, x \in ExportKeys : Export(r, x)
  PROVE  DeliverablesInv'
<1>1. ASSUME NEW k \in DeckKeys, Preview(k)
      PROVE  DeliverablesInv'
  <2>1. UNCHANGED <<deliverables, templates, writer, exports, given>> /\ k \in DOMAIN deliverables
        /\ previewed' = previewed \cup {Rendered(k)}
    BY <1>1 DEF Preview
  <2>2. Rendered(k).deck = k
    BY DEF Rendered
  <2>3. DeliverablesTypeOK' /\ RevisionsInv'
    BY <2>1 DEF DeliverablesInv, DeliverablesTypeOK, RevisionsInv
  <2>4. ReviewInv'
    BY <2>1, <2>2 DEF DeliverablesInv, ReviewInv, Rendered
  <2> QED
    BY <2>3, <2>4 DEF DeliverablesInv
<1>2. ASSUME NEW r \in previewed, NEW x \in ExportKeys, Export(r, x)
      PROVE  DeliverablesInv'
  <2>1. UNCHANGED <<deliverables, templates, writer, previewed>> /\ Recordable(x, r)
        /\ exports' = With(exports, x, r)
    BY <1>2 DEF Export
  <2>2. given' = given \/ given' = given \cup {[under |-> x, file |-> r]}
    BY <1>2 DEF Export
  <2>3. DOMAIN exports' = DOMAIN exports \cup {x} /\ exports'[x] = r
        /\ \A y \in DOMAIN exports : exports'[y] = exports[y]
    BY <2>1 DEF With, Recordable
  <2>4. \A g \in given' : g \in given \/ (g.under = x /\ g.file = r)
    BY <2>2
  <2>5. DeliverablesTypeOK' /\ RevisionsInv'
    BY <2>1, <2>3, <2>4 DEF DeliverablesInv, DeliverablesTypeOK, RevisionsInv
  <2>6. ReviewInv'
    BY <2>1, <2>3, <2>4 DEF DeliverablesInv, ReviewInv, Rendered
  <2> QED
    BY <2>5, <2>6 DEF DeliverablesInv
<1> QED
  BY <1>1, <1>2

LEMMA DeliverablesStepKeepsInv == DeliverablesInv /\ [DeliverablesNext]_deliverableVars => DeliverablesInv'
<1> SUFFICES ASSUME DeliverablesInv, [DeliverablesNext]_deliverableVars
             PROVE  DeliverablesInv'
  OBVIOUS
<1>1. CASE UNCHANGED deliverableVars
  BY <1>1 DEF deliverableVars, DeliverablesInv, DeliverablesTypeOK, RevisionsInv, ReviewInv, Rendered
<1>2. CASE DeliverablesNext
  BY <1>2, ComposingKeepsDeliverables, WritersKeepDeliverables, TemplatesKeepDeliverables,
     ExportingKeepsDeliverables
  DEF DeliverablesNext
<1> QED
  BY <1>1, <1>2

\* The properties of the run, of the invariant.
LEMMA DeliverablesAreSound == DeliverablesInv => ReviewedIsExportable /\ NothingIsOverstated
<1> SUFFICES ASSUME DeliverablesInv PROVE ReviewedIsExportable /\ NothingIsOverstated
  OBVIOUS
<1>1. ReviewedIsExportable
  BY DEF DeliverablesInv, ReviewInv, ReviewedIsExportable
<1>2. ASSUME NEW k \in DOMAIN deliverables, NEW e \in deliverables[k].entries, NEW x \in e.sources
      PROVE  Risk(x.state) <= Risk(e.shown) /\ IsPublishable(x.state) /\ CanGround(x)
  <2>1. IsSound(e) /\ IsPublishable(e.shown)
    BY DEF DeliverablesInv, RevisionsInv
  <2>2. e.shown \in States /\ x.state \in States /\ Risk(x.state) <= Risk(e.shown) /\ CanGround(x)
    BY <2>1 DEF IsSound
  <2>3. Risk(e.shown) \in Int /\ Risk(x.state) \in Int /\ Risk(e.shown) <= 4
    BY <2>1, <2>2, RiskOrders
  <2>4. Risk(x.state) <= 4
    BY <2>2, <2>3
  <2> QED
    BY <2>2, <2>4, RiskOrders
<1> QED
  BY <1>1, <1>2 DEF NothingIsOverstated

-----------------------------------------------------------------------------
(* The Work package, for any number of requests, files and packages.  The   *)
(* row takes one package and keeps it, so that whatever is written under   *)
(* either name is of that package; it gets its final name once its         *)
(* approval is used up.  That it is whole needs more: either nothing stops *)
(* Core, and whoever emptied the file fills it; or one request is served   *)
(* at a time, and has filled it before it is renamed.                      *)

Offering == {"built", "previewed"}
Exporting == {"approved", "pending", "writing", "written", "consumed", "renamed"}

\* What a request has read and done is of the package of the row.
RequestOK(r) ==
    /\ r.phase \notin Offering \cup Exporting => r.package = 0
    /\ r.phase \in Offering => r.package \in Packages /\ workApprovals[r.package] = "none"
    /\ r.phase = "built" => r.package # handoff
    /\ r.phase = "previewed" => r.package = handoff
    /\ r.phase \in Exporting =>
           /\ r.package = handoff /\ handoff # 0
           /\ r.decision \in {"approved", "consumed"} /\ workApprovals[handoff] \in {"approved", "consumed"}
           /\ r.decision = "consumed" => workApprovals[handoff] = "consumed"
    /\ r.phase = "writing" => r.file # 0 /\ files[r.file] # 0
    /\ r.phase = "consumed" => workApprovals[handoff] = "consumed"
    /\ r.phase = "renamed" => finalFile # 0

\* A package is offered by one request.
OfferedOnce ==
    \A h, g \in WorkHandlers :
        h # g /\ workHandler[h].phase \in Offering => workHandler[g].package # workHandler[h].package

HandoffInv ==
    \A p \in Packages :
        /\ workApprovals[p] # "none" => p = handoff
        /\ workApprovals[p] \in {"approved", "consumed"} => p \in userApproved

PackageFilesInv ==
    /\ \A f \in 1..MaxFiles : files[f] # 0 => files[f] = handoff
    /\ pendingFile # 0 => files[pendingFile] # 0 /\ finalFile # pendingFile
    /\ finalFile # 0 => files[finalFile] # 0 /\ workApprovals[handoff] = "consumed"
    /\ export # 0 => export = handoff /\ finalFile # 0

WorkInv ==
    /\ WorkTypeOK /\ HandoffInv /\ PackageFilesInv /\ OfferedOnce
    /\ \A h \in WorkHandlers : RequestOK(workHandler[h])
    /\ EvidenceIsComplete

\* What is kept when nothing stops Core.
FilledOrFilling ==
    \A f \in 1..MaxFiles : files[f] # 0 =>
        f \in whole \/ \E h \in WorkHandlers : In(h, "writing") /\ workHandler[h].file = f

\* What is kept when one request is served at a time.
FilledBeforeRenamed(h) ==
    /\ \A g \in WorkHandlers \ {h} : In(g, "idle")
    /\ finalFile # 0 => finalFile \in whole
    /\ In(h, "writing") /\ pendingFile # 0 => pendingFile = workHandler[h].file
    /\ workHandler[h].phase \in {"written", "consumed"} /\ pendingFile # 0 => pendingFile \in whole

LEMMA WorkFacts ==
  ASSUME WorkInv
  PROVE  /\ repo \in Snapshots /\ snapshot \in Snapshots /\ repoEdits \in 0..MaxRepoEdits
         /\ handoff \in 0..MaxPackages /\ export \in 0..MaxPackages
         /\ workApprovals \in [Packages -> HandoffDecisions] /\ workHandler \in [WorkHandlers -> WorkRequest]
         /\ files \in [1..MaxFiles -> 0..MaxPackages] /\ pendingFile \in 0..MaxFiles /\ finalFile \in 0..MaxFiles
         /\ whole \subseteq 1..MaxFiles /\ userApproved \subseteq Packages
         /\ Waiting \in WorkRequest /\ RequestOK(Waiting)
         /\ Packages \subseteq 0..MaxPackages /\ 0 \notin Packages /\ 0 \in 0..MaxPackages
         /\ \A p \in 0..MaxPackages : p # 0 => p \in Packages
         /\ 0 \in 0..MaxFiles /\ 1..MaxFiles \subseteq 0..MaxFiles /\ 0 \notin 1..MaxFiles
         /\ \A f \in 0..MaxFiles : f # 0 => f \in 1..MaxFiles
<1>1. MaxPackages \in Nat /\ MaxFiles \in Nat
  BY WorkAssumption
<1>2. /\ Packages \subseteq 0..MaxPackages /\ 0 \notin Packages /\ 0 \in 0..MaxPackages
      /\ \A p \in 0..MaxPackages : p # 0 => p \in Packages
  BY <1>1 DEF Packages
<1>3. /\ 0 \in 0..MaxFiles /\ 1..MaxFiles \subseteq 0..MaxFiles /\ 0 \notin 1..MaxFiles
      /\ \A f \in 0..MaxFiles : f # 0 => f \in 1..MaxFiles
  BY <1>1
<1>4. Waiting \in WorkRequest /\ RequestOK(Waiting)
  BY <1>2, <1>3 DEF Waiting, WorkRequest, HandoffDecisions, RequestOK, Offering, Exporting
<1> QED
  BY <1>2, <1>3, <1>4 DEF WorkInv, WorkTypeOK

\* A request that goes on and leaves the row, the approval and the files as they are.
LEMMA RequestKeepsWork ==
  ASSUME WorkInv, NEW h \in WorkHandlers, NEW r \in WorkRequest,
         workHandler' = [workHandler EXCEPT ![h] = r],
         UNCHANGED <<handoff, export, workApprovals, userApproved, pendingFile, finalFile, files, report>>,
         whole' \subseteq 1..MaxFiles,
         repo' \in Snapshots, snapshot' \in Snapshots, repoEdits' \in 0..MaxRepoEdits,
         planStatus' \in {"none", "pending", "ready", "invalid_output"},
         workRun' \in {"proposed", "specified", "running", "completed"},
         RequestOK(r),
         \A g \in WorkHandlers \ {h} :
             r.phase \in Offering \/ workHandler[g].phase \in Offering => workHandler[g].package # r.package
  PROVE  WorkInv'
<1> USE WorkFacts
<1>1. workHandler' \in [WorkHandlers -> WorkRequest] /\ workHandler'[h] = r
      /\ \A g \in WorkHandlers \ {h} : workHandler'[g] = workHandler[g]
  OBVIOUS
<1>2. WorkTypeOK'
  BY <1>1 DEF WorkInv, WorkTypeOK
<1>3. HandoffInv' /\ PackageFilesInv' /\ EvidenceIsComplete'
  BY DEF WorkInv, HandoffInv, PackageFilesInv, EvidenceIsComplete
<1>4. \A s : RequestOK(s)' <=> RequestOK(s)
  BY DEF RequestOK
<1>5. \A g \in WorkHandlers : RequestOK(workHandler'[g])
  BY <1>1 DEF WorkInv
<1>6. OfferedOnce'
  BY <1>1 DEF WorkInv, OfferedOnce
<1> QED
  BY <1>2, <1>3, <1>5, <1>6 DEF WorkInv, RequestOK

\* No request offers a package another one exports.
LEMMA OfferedIsNotExported ==
  ASSUME WorkInv, NEW g \in WorkHandlers, workHandler[g].phase \in Offering,
         handoff # 0, workApprovals[handoff] \in {"approved", "consumed"}
  PROVE  workHandler[g].package # handoff /\ workHandler[g].package # 0
  BY WorkFacts DEF WorkInv, RequestOK

\* The plan and the repository are no part of what is exported.
LEMMA PlanningKeepsWork ==
  ASSUME WorkInv,
         (\E h \in WorkHandlers : PlanSteps(h)) \/ StartPlanner \/ PlannerCompletes \/ EditRepo
  PROVE  WorkInv'
<1> USE WorkFacts
<1>1. ASSUME NEW h \in WorkHandlers, PlanSteps(h)
      PROVE  WorkInv'
  <2>1. /\ UNCHANGED <<handoff, export, workApprovals, userApproved, fileVars, report, repoVars>>
        /\ workHandler[h].phase \notin Offering \cup Exporting
        /\ snapshot' \in {snapshot, repo} /\ planStatus' \in {planStatus, "pending"}
        /\ workRun' \in {workRun, "specified", "running"}
    BY <1>1 DEF PlanSteps, PlanWork, SavePlan, ReplaceSpec, SpawnPlanner, In, sessionVars, workHistory,
                Offering, Exporting
  <2>2. \E next \in {"planning", "planned", "specified"} :
            workHandler' = [workHandler EXCEPT ![h] = Waiting] \/ workHandler' = [workHandler EXCEPT ![h].phase = next]
    BY <1>1 DEF PlanSteps, PlanWork, SavePlan, ReplaceSpec, SpawnPlanner, Proceed, Respond
  <2>3. PICK next \in {"planning", "planned", "specified"} :
            workHandler' = [workHandler EXCEPT ![h] = Waiting] \/ workHandler' = [workHandler EXCEPT ![h].phase = next]
    BY <2>2
  <2> DEFINE r == [workHandler[h] EXCEPT !.phase = next]
  <2>4. workHandler[h].package = 0
    BY <2>1 DEF WorkInv, RequestOK
  <2>5. r \in WorkRequest /\ r.phase = next /\ r.package = 0
    BY <2>4 DEF WorkRequest
  <2>6. workHandler' = [workHandler EXCEPT ![h] = Waiting] \/ workHandler' = [workHandler EXCEPT ![h] = r]
    BY <2>3
  <2> HIDE DEF r
  <2>7. RequestOK(r) /\ r.phase \notin Offering
    BY <2>5 DEF RequestOK, Offering, Exporting
  <2>8. Waiting.package = 0 /\ Waiting.phase \notin Offering
    BY DEF Waiting, Offering
  <2>9. \A g \in WorkHandlers : workHandler[g].phase \in Offering => workHandler[g].package # 0
    BY DEF WorkInv, RequestOK
  <2>10. /\ UNCHANGED <<handoff, export, workApprovals, userApproved, pendingFile, finalFile, files, report>>
         /\ whole' \subseteq 1..MaxFiles /\ repo' \in Snapshots /\ snapshot' \in Snapshots /\ repoEdits' \in 0..MaxRepoEdits
         /\ planStatus' \in {"none", "pending", "ready", "invalid_output"}
         /\ workRun' \in {"proposed", "specified", "running", "completed"}
    BY <2>1 DEF fileVars, repoVars, WorkInv, WorkTypeOK
  <2>11. CASE workHandler' = [workHandler EXCEPT ![h] = Waiting]
    BY <2>8, <2>9, <2>10, <2>11, RequestKeepsWork
  <2>12. CASE workHandler' = [workHandler EXCEPT ![h] = r]
    BY <2>5, <2>7, <2>9, <2>10, <2>12, RequestKeepsWork
  <2> QED
    BY <2>6, <2>11, <2>12
<1>2. CASE StartPlanner \/ PlannerCompletes \/ EditRepo
  <2>1. UNCHANGED <<handoff, export, workApprovals, userApproved, fileVars, report, snapshot, workHandler>>
    BY <1>2 DEF StartPlanner, PlannerCompletes, EditRepo, sessionVars, workHistory
  <2>2. /\ planStatus' \in {"none", "pending", "ready", "invalid_output"}
        /\ workRun' \in {"proposed", "specified", "running", "completed"}
    BY <1>2 DEF StartPlanner, PlannerCompletes, EditRepo, sessionVars, WorkInv, WorkTypeOK
  <2>3. repo' \in Snapshots /\ repoEdits' \in 0..MaxRepoEdits
    <3>1. CASE StartPlanner \/ PlannerCompletes
      BY <3>1 DEF StartPlanner, PlannerCompletes, repoVars
    <3>2. CASE EditRepo
      <4>1. repoEdits' = repoEdits + 1 /\ repoEdits < MaxRepoEdits /\ MaxRepoEdits \in Nat
        BY <3>2, WorkAssumption DEF EditRepo
      <4>2. repo' \in Snapshots
        BY <3>2 DEF EditRepo, Snapshots
      <4> QED
        BY <4>1, <4>2
    <3> QED
      BY <1>2, <3>1, <3>2
  <2>4. WorkTypeOK'
    BY <2>1, <2>2, <2>3 DEF fileVars, WorkInv, WorkTypeOK
  <2> QED
    BY <2>1, <2>4 DEF fileVars, WorkInv, HandoffInv, PackageFilesInv, EvidenceIsComplete, OfferedOnce, RequestOK
<1> QED
  BY <1>1, <1>2

\* A package is built apart from every other, and takes the row or nothing.
LEMMA OfferingKeepsWork ==
  ASSUME WorkInv, NEW h \in WorkHandlers, PreviewSteps(h)
  PROVE  WorkInv'
<1> USE WorkFacts
<1>1. CASE BuildPackage(h)
  <2>1. PICK p \in Packages :
            /\ p # handoff /\ workApprovals[p] = "none"
            /\ \A g \in WorkHandlers : workHandler[g].package # p
            /\ workHandler' = [workHandler EXCEPT ![h].phase = "built", ![h].package = p]
    BY <1>1 DEF BuildPackage
  <2> DEFINE r == [workHandler[h] EXCEPT !.phase = "built", !.package = p]
  <2>2. r \in WorkRequest /\ r.phase = "built" /\ r.package = p
    BY DEF WorkRequest
  <2>3. workHandler' = [workHandler EXCEPT ![h] = r]
    BY <2>1
  <2> HIDE DEF r
  <2>4. RequestOK(r)
    BY <2>1, <2>2 DEF RequestOK, Offering, Exporting
  <2>5. /\ UNCHANGED <<handoff, export, workApprovals, userApproved, pendingFile, finalFile, files, report>>
        /\ whole' \subseteq 1..MaxFiles /\ repo' \in Snapshots /\ snapshot' \in Snapshots /\ repoEdits' \in 0..MaxRepoEdits
        /\ planStatus' \in {"none", "pending", "ready", "invalid_output"}
        /\ workRun' \in {"proposed", "specified", "running", "completed"}
    BY <1>1 DEF BuildPackage, fileVars, repoVars, sessionVars, workHistory, WorkInv, WorkTypeOK
  <2> QED
    BY <2>1, <2>2, <2>3, <2>4, <2>5, RequestKeepsWork
<1>2. CASE SaveHandoff(h)
  <2>1. /\ UNCHANGED <<repoVars, planStatus, snapshot, export, fileVars, workRun, workApprovals, report, userApproved>>
        /\ workHandler[h].phase = "built"
    BY <1>2 DEF SaveHandoff, workHistory, In
  <2> DEFINE p == workHandler[h].package
  <2>2. p \in Packages /\ p # 0 /\ workApprovals[p] = "none" /\ p # handoff
    BY <2>1 DEF WorkInv, RequestOK, Offering
  <2>3. CASE Respond(h) /\ UNCHANGED handoff
    <3>1. workHandler' = [workHandler EXCEPT ![h] = Waiting]
      BY <2>3 DEF Respond
    <3>2. Waiting.package = 0 /\ Waiting.phase \notin Offering
      BY DEF Waiting, Offering
    <3>3. \A g \in WorkHandlers : workHandler[g].phase \in Offering => workHandler[g].package # 0
      BY DEF WorkInv, RequestOK
    <3>4. /\ UNCHANGED <<handoff, export, workApprovals, userApproved, pendingFile, finalFile, files, report>>
          /\ whole' \subseteq 1..MaxFiles /\ repo' \in Snapshots /\ snapshot' \in Snapshots /\ repoEdits' \in 0..MaxRepoEdits
          /\ planStatus' \in {"none", "pending", "ready", "invalid_output"}
          /\ workRun' \in {"proposed", "specified", "running", "completed"}
      BY <2>1, <2>3 DEF fileVars, repoVars, WorkInv, WorkTypeOK
    <3> QED
      BY <3>1, <3>2, <3>3, <3>4, RequestKeepsWork
  <2>4. CASE handoff = 0 /\ handoff' = p /\ Proceed(h, "previewed")
    <3> DEFINE r == [workHandler[h] EXCEPT !.phase = "previewed"]
    <3>1. r \in WorkRequest /\ r.phase = "previewed" /\ r.package = p
      BY DEF WorkRequest
    <3>2. workHandler' = [workHandler EXCEPT ![h] = r]
      BY <2>4 DEF Proceed
    <3> HIDE DEF r
    <3>3. workHandler' \in [WorkHandlers -> WorkRequest] /\ workHandler'[h] = r
          /\ \A g \in WorkHandlers \ {h} : workHandler'[g] = workHandler[g]
      BY <3>1, <3>2
    <3>4. WorkTypeOK'
      BY <2>1, <2>2, <2>4, <3>3 DEF fileVars, repoVars, WorkInv, WorkTypeOK
    <3>5. \A q \in Packages : workApprovals[q] = "none"
      BY <2>4 DEF WorkInv, HandoffInv
    <3>6. (\A f \in 1..MaxFiles : files[f] = 0) /\ pendingFile = 0 /\ finalFile = 0 /\ export = 0
      BY <2>4 DEF WorkInv, PackageFilesInv
    <3>7. HandoffInv' /\ PackageFilesInv' /\ EvidenceIsComplete'
      BY <2>1, <3>5, <3>6 DEF fileVars, WorkInv, HandoffInv, PackageFilesInv, EvidenceIsComplete
    <3>8. RequestOK(workHandler[h])'
      <4>1. /\ workHandler'[h].phase = "previewed" /\ workHandler'[h].package = p
            /\ handoff' = p /\ workApprovals' = workApprovals
        BY <2>1, <2>4, <3>1, <3>3
      <4> QED
        BY <2>2, <4>1 DEF RequestOK, Offering, Exporting
    <3>9. \A g \in WorkHandlers \ {h} : workHandler[g].package # p
      BY <2>1 DEF WorkInv, OfferedOnce, Offering
    <3>10. ASSUME NEW g \in WorkHandlers \ {h}
           PROVE  RequestOK(workHandler[g])'
      <4>1. workHandler'[g] = workHandler[g] /\ RequestOK(workHandler[g]) /\ workHandler[g].package # p
        BY <3>3, <3>9 DEF WorkInv
      <4>2. workHandler[g].phase \notin Exporting /\ workHandler[g].phase # "previewed"
        BY <2>4, <4>1 DEF RequestOK, Offering
      <4> QED
        BY <2>1, <2>4, <4>1, <4>2 DEF RequestOK, Exporting
    <3>11. \A g \in WorkHandlers : RequestOK(workHandler[g])'
      BY <3>8, <3>10
    <3>12. OfferedOnce'
      BY <3>1, <3>3, <3>9 DEF WorkInv, OfferedOnce
    <3> QED
      BY <3>4, <3>7, <3>11, <3>12 DEF WorkInv
  <2> QED
    BY <1>2, <2>2, <2>3, <2>4 DEF SaveHandoff, PreviewIsFree
<1>3. CASE SaveHandoffApproval(h)
  <2>1. /\ UNCHANGED <<repoVars, sessionVars, fileVars, workRun, report, userApproved>>
        /\ workHandler[h].phase = "previewed" /\ workHandler' = [workHandler EXCEPT ![h] = Waiting]
        /\ workApprovals' = [workApprovals EXCEPT ![workHandler[h].package] = "pending"]
    BY <1>3 DEF SaveHandoffApproval, In, workHistory, Respond
  <2>2. workHandler[h].package = handoff /\ handoff \in Packages /\ workApprovals[handoff] = "none"
    BY <2>1 DEF WorkInv, RequestOK, Offering
  <2>3. workApprovals' \in [Packages -> HandoffDecisions] /\ workApprovals'[handoff] = "pending"
        /\ \A p \in Packages \ {handoff} : workApprovals'[p] = workApprovals[p]
    BY <2>1, <2>2 DEF HandoffDecisions
  <2>4. workHandler' \in [WorkHandlers -> WorkRequest] /\ workHandler'[h] = Waiting
        /\ \A g \in WorkHandlers \ {h} : workHandler'[g] = workHandler[g]
    BY <2>1
  <2>5. WorkTypeOK'
    BY <2>1, <2>3, <2>4 DEF fileVars, repoVars, sessionVars, WorkInv, WorkTypeOK
  <2>6. HandoffInv' /\ EvidenceIsComplete'
    BY <2>1, <2>3 DEF sessionVars, WorkInv, HandoffInv, EvidenceIsComplete
  <2>7. PackageFilesInv'
    BY <2>1, <2>2 DEF fileVars, sessionVars, WorkInv, PackageFilesInv
  <2>8. ASSUME NEW g \in WorkHandlers \ {h}
        PROVE  RequestOK(workHandler[g])'
    <3>1. workHandler'[g] = workHandler[g] /\ RequestOK(workHandler[g]) /\ workHandler[g].package # handoff
      BY <2>1, <2>2, <2>4 DEF WorkInv, OfferedOnce, Offering
    <3>2. workHandler[g].phase \notin Exporting
      BY <3>1 DEF RequestOK
    <3> QED
      BY <2>1, <2>3, <3>1, <3>2 DEF sessionVars, fileVars, RequestOK, Exporting, Offering
  <2>9. RequestOK(Waiting)'
    BY DEF RequestOK, Waiting, Offering, Exporting
  <2>10. \A g \in WorkHandlers : RequestOK(workHandler[g])'
    BY <2>4, <2>8, <2>9 DEF RequestOK
  <2>11. Waiting.phase \notin Offering /\ Waiting.package = 0
    BY DEF Waiting, Offering
  <2>12. \A g \in WorkHandlers : workHandler[g].phase \in Offering => workHandler[g].package # 0
    BY DEF WorkInv, RequestOK
  <2>13. OfferedOnce'
    BY <2>4, <2>11, <2>12 DEF WorkInv, OfferedOnce
  <2> QED
    BY <2>5, <2>6, <2>7, <2>10, <2>13 DEF WorkInv
<1> QED
  BY <1>1, <1>2, <1>3 DEF PreviewSteps

\* A request of the export that goes on, or answers, without touching the row, the
\* approval or where the two names lead.
LEMMA ExportMovesKeepWork ==
  ASSUME WorkInv, NEW h \in WorkHandlers, NEW r \in WorkRequest,
         workHandler' = [workHandler EXCEPT ![h] = Waiting] \/ workHandler' = [workHandler EXCEPT ![h] = r],
         UNCHANGED <<repoVars, sessionVars, pendingFile, finalFile, files, workRun, workApprovals, report, workHistory>>,
         whole' \subseteq 1..MaxFiles,
         RequestOK(r), r.phase \in Exporting
  PROVE  WorkInv'
<1> USE WorkFacts
<1>1. /\ UNCHANGED <<handoff, export, workApprovals, userApproved, pendingFile, finalFile, files, report>>
      /\ whole' \subseteq 1..MaxFiles /\ repo' \in Snapshots /\ snapshot' \in Snapshots /\ repoEdits' \in 0..MaxRepoEdits
      /\ planStatus' \in {"none", "pending", "ready", "invalid_output"}
      /\ workRun' \in {"proposed", "specified", "running", "completed"}
  BY DEF fileVars, repoVars, sessionVars, workHistory, WorkInv, WorkTypeOK
<1>2. Waiting.package = 0 /\ Waiting.phase \notin Offering
  BY DEF Waiting, Offering
<1>3. \A g \in WorkHandlers : workHandler[g].phase \in Offering => workHandler[g].package # 0
  BY DEF WorkInv, RequestOK
<1>4. r.phase \notin Offering /\ r.package = handoff /\ handoff # 0
      /\ workApprovals[handoff] \in {"approved", "consumed"}
  BY DEF RequestOK, Offering, Exporting
<1>5. \A g \in WorkHandlers \ {h} :
          r.phase \in Offering \/ workHandler[g].phase \in Offering => workHandler[g].package # r.package
  BY <1>4, OfferedIsNotExported
<1>6. CASE workHandler' = [workHandler EXCEPT ![h] = Waiting]
  BY <1>1, <1>2, <1>3, <1>6, RequestKeepsWork
<1>7. CASE workHandler' = [workHandler EXCEPT ![h] = r]
  BY <1>1, <1>5, <1>7, RequestKeepsWork
<1> QED
  BY <1>6, <1>7

\* Reading the decision, looking for what an earlier export left, and writing the file.
LEMMA ReadingAndWritingKeepWork ==
  ASSUME WorkInv, NEW h \in WorkHandlers, ReadHandoff(h) \/ LookForPackage(h) \/ WritePackage(h)
  PROVE  WorkInv'
<1> USE WorkFacts
<1>1. UNCHANGED <<repoVars, sessionVars, pendingFile, finalFile, files, workRun, workApprovals, report, workHistory>>
  BY DEF ReadHandoff, LookForPackage, WritePackage, fileVars
<1>2. CASE ReadHandoff(h)
  <2> DEFINE r == [phase |-> "approved", package |-> handoff, decision |-> workApprovals[handoff], file |-> 0]
  <2>1. handoff # 0 /\ workApprovals[handoff] \in {"approved", "consumed"} /\ whole' = whole
        /\ workHandler' = [workHandler EXCEPT ![h] = r]
    BY <1>2 DEF ReadHandoff, fileVars
  <2>2. r \in WorkRequest
    BY <2>1 DEF WorkRequest, HandoffDecisions
  <2>3. RequestOK(r) /\ r.phase \in Exporting
    BY <2>1 DEF RequestOK, Offering, Exporting
  <2> HIDE DEF r
  <2> QED
    BY <1>1, <2>1, <2>2, <2>3, ExportMovesKeepWork
<1>3. CASE LookForPackage(h)
  <2>1. workHandler[h].phase = "approved" /\ whole' = whole
    BY <1>3 DEF LookForPackage, In, fileVars
  <2>2. \E next \in {"pending", "renamed"} :
            /\ workHandler' = [workHandler EXCEPT ![h] = Waiting] \/ workHandler' = [workHandler EXCEPT ![h].phase = next]
            /\ next = "renamed" => finalFile # 0
    BY <1>3 DEF LookForPackage, Respond, Proceed
  <2>3. PICK next \in {"pending", "renamed"} :
            /\ workHandler' = [workHandler EXCEPT ![h] = Waiting] \/ workHandler' = [workHandler EXCEPT ![h].phase = next]
            /\ next = "renamed" => finalFile # 0
    BY <2>2
  <2> DEFINE r == [workHandler[h] EXCEPT !.phase = next]
  <2>4. /\ r \in WorkRequest /\ r.phase = next /\ r.package = workHandler[h].package
        /\ r.decision = workHandler[h].decision
    BY DEF WorkRequest
  <2>5. workHandler' = [workHandler EXCEPT ![h] = Waiting] \/ workHandler' = [workHandler EXCEPT ![h] = r]
    BY <2>3
  <2> HIDE DEF r
  <2>6. RequestOK(workHandler[h])
    BY DEF WorkInv
  <2>7. RequestOK(r) /\ r.phase \in Exporting
    BY <2>1, <2>3, <2>4, <2>6 DEF RequestOK, Offering, Exporting
  <2> QED
    BY <1>1, <2>1, <2>4, <2>5, <2>7, ExportMovesKeepWork
<1>4. CASE WritePackage(h)
  <2> DEFINE r == [workHandler[h] EXCEPT !.phase = "written"]
  <2>1. workHandler[h].phase = "writing" /\ whole' = whole \cup {workHandler[h].file}
        /\ workHandler' = [workHandler EXCEPT ![h] = r]
    BY <1>4 DEF WritePackage, In, Proceed
  <2>2. /\ r \in WorkRequest /\ r.phase = "written" /\ r.package = workHandler[h].package
        /\ r.decision = workHandler[h].decision
    BY DEF WorkRequest
  <2> HIDE DEF r
  <2>3. RequestOK(workHandler[h])
    BY DEF WorkInv
  <2>4. RequestOK(r) /\ r.phase \in Exporting
    BY <2>1, <2>2, <2>3 DEF RequestOK, Offering, Exporting
  <2>5. workHandler[h].file \in 0..MaxFiles /\ workHandler[h].file # 0
    BY <2>1, <2>3 DEF RequestOK, WorkRequest
  <2>6. whole' \subseteq 1..MaxFiles
    BY <2>1, <2>5
  <2> QED
    BY <1>1, <2>1, <2>2, <2>4, <2>6, ExportMovesKeepWork
<1> QED
  BY <1>2, <1>3, <1>4

\* The pending file is opened for the package of the row, and is not the one its final
\* name leads to.
LEMMA OpeningKeepsWork ==
  ASSUME WorkInv, NEW h \in WorkHandlers, OpenPending(h)
  PROVE  WorkInv'
<1> USE WorkFacts
<1> DEFINE p == workHandler[h].package
<1>1. workHandler[h].phase = "pending" /\ RequestOK(workHandler[h])
      /\ UNCHANGED <<repoVars, sessionVars, finalFile, workRun, workApprovals, report, workHistory>>
  BY DEF OpenPending, In, WorkInv
<1>2. p = handoff /\ handoff # 0 /\ handoff \in Packages
  BY <1>1 DEF RequestOK, Exporting
<1>3. PICK f \in 1..MaxFiles :
          /\ IF pendingFile = 0 THEN files[f] = 0 /\ \A g \in 1..(f - 1) : files[g] # 0 ELSE f = pendingFile
          /\ pendingFile' = f
          /\ files' = [files EXCEPT ![f] = p]
          /\ whole' = whole \ {f}
          /\ workHandler' = [workHandler EXCEPT ![h].phase = "writing", ![h].file = f]
  BY DEF OpenPending
<1>4. finalFile # f /\ f # 0
  BY <1>3 DEF WorkInv, PackageFilesInv
<1>5. files' \in [1..MaxFiles -> 0..MaxPackages] /\ files'[f] = handoff
      /\ \A g \in 1..MaxFiles : g # f => files'[g] = files[g]
  BY <1>2, <1>3
<1> DEFINE r == [workHandler[h] EXCEPT !.phase = "writing", !.file = f]
<1>6. /\ r \in WorkRequest /\ r.phase = "writing" /\ r.package = handoff /\ r.file = f
      /\ r.decision = workHandler[h].decision
  BY <1>2 DEF WorkRequest
<1>7. workHandler' = [workHandler EXCEPT ![h] = r]
  BY <1>3
<1> HIDE DEF r
<1>8. workHandler' \in [WorkHandlers -> WorkRequest] /\ workHandler'[h] = r
      /\ \A g \in WorkHandlers \ {h} : workHandler'[g] = workHandler[g]
  BY <1>6, <1>7
<1>9. WorkTypeOK'
  <2>1. whole' \subseteq 1..MaxFiles /\ pendingFile' \in 0..MaxFiles
    BY <1>3
  <2> QED
    BY <1>1, <1>5, <1>8, <2>1 DEF repoVars, sessionVars, workHistory, WorkInv, WorkTypeOK
<1>10. HandoffInv' /\ EvidenceIsComplete'
  BY <1>1 DEF sessionVars, workHistory, WorkInv, HandoffInv, EvidenceIsComplete
<1>11. PackageFilesInv'
  <2>1. UNCHANGED <<handoff, finalFile, workApprovals, export>> /\ pendingFile' = f
    BY <1>1, <1>3 DEF sessionVars
  <2>2. PackageFilesInv
    BY DEF WorkInv
  <2>3. \A g \in 1..MaxFiles : files'[g] # 0 => files'[g] = handoff
    BY <1>5, <2>2 DEF PackageFilesInv
  <2>4. finalFile # 0 => files'[finalFile] # 0
    BY <1>4, <1>5, <2>2 DEF PackageFilesInv
  <2> QED
    BY <1>2, <1>4, <1>5, <2>1, <2>2, <2>3, <2>4 DEF PackageFilesInv
<1>12. \A g \in 1..MaxFiles : files[g] # 0 => files'[g] # 0
  BY <1>2, <1>5
<1>13. ASSUME NEW g \in WorkHandlers \ {h}
       PROVE  RequestOK(workHandler[g])'
  <2>1. workHandler'[g] = workHandler[g] /\ RequestOK(workHandler[g]) /\ workHandler[g].file \in 0..MaxFiles
    BY <1>8 DEF WorkInv, WorkRequest
  <2> QED
    BY <1>1, <1>12, <2>1 DEF sessionVars, RequestOK
<1>14. RequestOK(workHandler[h])'
  <2>1. /\ workHandler'[h].phase = "writing" /\ workHandler'[h].package = handoff /\ workHandler'[h].file = f
        /\ workHandler'[h].decision = workHandler[h].decision
        /\ UNCHANGED <<handoff, workApprovals>>
    BY <1>1, <1>6, <1>8 DEF sessionVars
  <2> QED
    BY <1>1, <1>2, <1>4, <1>5, <2>1 DEF RequestOK, Offering, Exporting
<1>15. OfferedOnce'
  BY <1>1, <1>2, <1>6, <1>8 DEF WorkInv, OfferedOnce, Offering
<1>16. \A g \in WorkHandlers : RequestOK(workHandler[g])'
  BY <1>13, <1>14
<1> QED
  BY <1>9, <1>10, <1>11, <1>15, <1>16 DEF WorkInv

\* The approval is used up, once, before the file gets its final name.
LEMMA ConsumingKeepsWork ==
  ASSUME WorkInv, NEW h \in WorkHandlers, ConsumeHandoff(h)
  PROVE  WorkInv'
<1> USE WorkFacts
<1>1. workHandler[h].phase = "written" /\ RequestOK(workHandler[h])
      /\ UNCHANGED <<repoVars, sessionVars, fileVars, workRun, report, workHistory>>
  BY DEF ConsumeHandoff, In, WorkInv
<1>2. /\ workHandler[h].package = handoff /\ handoff # 0 /\ handoff \in Packages
      /\ workApprovals[handoff] \in {"approved", "consumed"}
  BY <1>1 DEF RequestOK, Exporting
<1>3. workHandler' = [workHandler EXCEPT ![h] = Waiting] \/ workHandler' = [workHandler EXCEPT ![h].phase = "consumed"]
  BY DEF ConsumeHandoff, Respond, Proceed
<1>4. workApprovals' = workApprovals \/ workApprovals' = [workApprovals EXCEPT ![handoff] = "consumed"]
  BY <1>2 DEF ConsumeHandoff
<1>5. /\ workApprovals' \in [Packages -> HandoffDecisions]
      /\ \A q \in Packages \ {handoff} : workApprovals'[q] = workApprovals[q]
      /\ workApprovals'[handoff] \in {workApprovals[handoff], "consumed"}
  BY <1>2, <1>4 DEF HandoffDecisions
<1> DEFINE r == [workHandler[h] EXCEPT !.phase = "consumed"]
<1>6. /\ r \in WorkRequest /\ r.phase = "consumed" /\ r.package = handoff /\ r.decision = workHandler[h].decision
  BY <1>2 DEF WorkRequest
<1>7. workHandler' = [workHandler EXCEPT ![h] = Waiting] \/ workHandler' = [workHandler EXCEPT ![h] = r]
  BY <1>3
<1>8. workHandler'[h] = r => workApprovals'[handoff] = "consumed"
  <2>1. ASSUME workHandler'[h] = r
        PROVE  ~Respond(h)
    BY <2>1, <1>6 DEF Respond, Waiting
  <2>2. ASSUME ~Respond(h)
        PROVE  workApprovals'[handoff] = "consumed"
    BY <1>1, <1>2, <2>2 DEF ConsumeHandoff, RequestOK, Exporting
  <2> QED
    BY <2>1, <2>2
<1> HIDE DEF r
<1>9. /\ workHandler' \in [WorkHandlers -> WorkRequest] /\ workHandler'[h] \in {Waiting, r}
      /\ \A g \in WorkHandlers \ {h} : workHandler'[g] = workHandler[g]
  BY <1>6, <1>7
<1>10. WorkTypeOK'
  BY <1>1, <1>5, <1>9 DEF repoVars, sessionVars, fileVars, workHistory, WorkInv, WorkTypeOK
<1>11. HandoffInv' /\ EvidenceIsComplete'
  <2>1. HandoffInv' 
    BY <1>1, <1>2, <1>5 DEF sessionVars, workHistory, WorkInv, HandoffInv
  <2> QED
    BY <1>1, <2>1 DEF sessionVars, WorkInv, EvidenceIsComplete
<1>12. PackageFilesInv'
  BY <1>1, <1>2, <1>5 DEF sessionVars, fileVars, WorkInv, PackageFilesInv
<1>13. ASSUME NEW g \in WorkHandlers \ {h}
       PROVE  RequestOK(workHandler[g])'
  <2>1. workHandler'[g] = workHandler[g] /\ RequestOK(workHandler[g])
    BY <1>9 DEF WorkInv
  <2>2. workHandler[g].phase \in Offering => workHandler[g].package # handoff
    BY <1>2, OfferedIsNotExported
  <2> QED
    BY <1>1, <1>2, <1>5, <2>1, <2>2 DEF sessionVars, fileVars, RequestOK, Offering, Exporting
<1>14. RequestOK(workHandler[h])'
  <2>1. UNCHANGED <<handoff, files, finalFile>>
    BY <1>1 DEF sessionVars, fileVars
  <2>2. CASE workHandler'[h] = Waiting
    <3>1. workHandler'[h].phase = "idle" /\ workHandler'[h].package = 0
      BY <2>2 DEF Waiting
    <3> QED
      BY <3>1 DEF RequestOK, Offering, Exporting
  <2>3. CASE workHandler'[h] = r
    <3>1. /\ workHandler'[h].phase = "consumed" /\ workHandler'[h].package = handoff
          /\ workHandler'[h].decision = workHandler[h].decision /\ workApprovals'[handoff] = "consumed"
      BY <1>6, <1>8, <2>3
    <3> QED
      BY <1>1, <1>2, <2>1, <3>1 DEF RequestOK, Offering, Exporting
  <2> QED
    BY <1>9, <2>2, <2>3
<1>15. OfferedOnce'
  <2>1. Waiting.phase \notin Offering /\ Waiting.package = 0 /\ r.phase \notin Offering
    BY <1>6 DEF Waiting, Offering
  <2>2. \A g \in WorkHandlers : workHandler[g].phase \in Offering => workHandler[g].package \notin {0, handoff}
    BY <1>2, OfferedIsNotExported
  <2> QED
    BY <1>6, <1>9, <2>1, <2>2 DEF WorkInv, OfferedOnce
<1>16. \A g \in WorkHandlers : RequestOK(workHandler[g])'
  BY <1>13, <1>14
<1> QED
  BY <1>10, <1>11, <1>12, <1>15, <1>16 DEF WorkInv

\* The file gets its final name, and the export is recorded.
LEMMA RecordingKeepsWork ==
  ASSUME WorkInv, NEW h \in WorkHandlers, RenamePackage(h) \/ SaveExport(h)
  PROVE  WorkInv'
<1> USE WorkFacts
<1>1. RequestOK(workHandler[h]) /\ workHandler[h].phase \in Exporting
      /\ UNCHANGED <<repoVars, planStatus, snapshot, handoff, files, whole, workRun, workApprovals, report, workHistory>>
  BY DEF RenamePackage, SaveExport, sessionVars, fileVars, In, WorkInv, Exporting
<1>2. workHandler[h].package = handoff /\ handoff # 0 /\ handoff \in Packages
  BY <1>1 DEF RequestOK
<1>3. \A g \in WorkHandlers : workHandler[g].phase \in Offering => workHandler[g].package # 0
  BY DEF WorkInv, RequestOK
<1>4. Waiting.phase \notin Offering /\ Waiting.package = 0 /\ Waiting.phase = "idle"
  BY DEF Waiting, Offering
<1>5. CASE RenamePackage(h) /\ pendingFile # 0
  <2> DEFINE r == [workHandler[h] EXCEPT !.phase = "renamed"]
  <2>1. /\ finalFile' = pendingFile /\ pendingFile' = 0 /\ export' = export
        /\ workHandler' = [workHandler EXCEPT ![h] = r] /\ workHandler[h].phase = "consumed"
    BY <1>5 DEF RenamePackage, Proceed, sessionVars, In
  <2>2. r \in WorkRequest /\ r.phase = "renamed" /\ r.package = handoff /\ r.decision = workHandler[h].decision
    BY <1>2 DEF WorkRequest
  <2> HIDE DEF r
  <2>3. /\ workHandler' \in [WorkHandlers -> WorkRequest] /\ workHandler'[h] = r
        /\ \A g \in WorkHandlers \ {h} : workHandler'[g] = workHandler[g]
    BY <2>1, <2>2
  <2>4. WorkTypeOK'
    BY <1>1, <2>1, <2>3 DEF repoVars, workHistory, WorkInv, WorkTypeOK
  <2>5. HandoffInv' /\ EvidenceIsComplete'
    BY <1>1 DEF workHistory, WorkInv, HandoffInv, EvidenceIsComplete
  <2>6. workApprovals[handoff] = "consumed"
    BY <1>1, <2>1 DEF RequestOK
  <2>7. PackageFilesInv'
    BY <1>1, <1>5, <2>1, <2>6 DEF WorkInv, PackageFilesInv
  <2>8. ASSUME NEW g \in WorkHandlers \ {h}
        PROVE  RequestOK(workHandler[g])'
    <3>1. workHandler'[g] = workHandler[g] /\ RequestOK(workHandler[g])
      BY <2>3 DEF WorkInv
    <3> QED
      BY <1>1, <1>5, <2>1, <3>1 DEF RequestOK
  <2>9. RequestOK(workHandler[h])'
    <3>1. /\ workHandler'[h].phase = "renamed" /\ workHandler'[h].package = handoff
          /\ workHandler'[h].decision = workHandler[h].decision
      BY <2>2, <2>3
    <3> QED
      BY <1>1, <1>2, <1>5, <2>1, <3>1 DEF RequestOK, Offering, Exporting
  <2>10. OfferedOnce'
    <3>1. r.phase \notin Offering
      BY <2>2 DEF Offering
    <3>2. \A g \in WorkHandlers : workHandler[g].phase \in Offering => workHandler[g].package # handoff
      BY <1>2, <2>6, OfferedIsNotExported
    <3> QED
      BY <2>2, <2>3, <3>1, <3>2 DEF WorkInv, OfferedOnce
  <2>11. \A g \in WorkHandlers : RequestOK(workHandler[g])'
    BY <2>8, <2>9
  <2> QED
    BY <2>4, <2>5, <2>7, <2>10, <2>11 DEF WorkInv
<1>6. CASE SaveExport(h) \/ (RenamePackage(h) /\ pendingFile = 0)
  <2>1. /\ UNCHANGED <<pendingFile, finalFile>> /\ workHandler' = [workHandler EXCEPT ![h] = Waiting]
        /\ export' = export \/ (export' = handoff /\ finalFile # 0)
    BY <1>1, <1>2, <1>6 DEF RenamePackage, SaveExport, Respond, sessionVars, fileVars, In, RequestOK
  <2>2. /\ workHandler' \in [WorkHandlers -> WorkRequest] /\ workHandler'[h] = Waiting
        /\ \A g \in WorkHandlers \ {h} : workHandler'[g] = workHandler[g]
    BY <2>1
  <2>3. WorkTypeOK'
    BY <1>1, <2>1, <2>2 DEF repoVars, workHistory, WorkInv, WorkTypeOK
  <2>4. HandoffInv' /\ EvidenceIsComplete'
    BY <1>1 DEF workHistory, WorkInv, HandoffInv, EvidenceIsComplete
  <2>5. PackageFilesInv'
    BY <1>1, <2>1 DEF WorkInv, PackageFilesInv
  <2>6. ASSUME NEW g \in WorkHandlers \ {h}
        PROVE  RequestOK(workHandler[g])'
    <3>1. workHandler'[g] = workHandler[g] /\ RequestOK(workHandler[g])
      BY <2>2 DEF WorkInv
    <3> QED
      BY <1>1, <2>1, <3>1 DEF RequestOK
  <2>7. RequestOK(workHandler[h])'
    <3>1. workHandler'[h].phase = "idle" /\ workHandler'[h].package = 0
      BY <1>4, <2>2
    <3> QED
      BY <3>1 DEF RequestOK, Offering, Exporting
  <2>8. OfferedOnce'
    BY <1>3, <1>4, <2>2 DEF WorkInv, OfferedOnce
  <2>9. \A g \in WorkHandlers : RequestOK(workHandler[g])'
    BY <2>6, <2>7
  <2> QED
    BY <2>3, <2>4, <2>5, <2>8, <2>9 DEF WorkInv
<1> QED
  BY <1>5, <1>6

\* The user decides, Core stops, and an executor's claims are verified.
LEMMA OthersKeepWork ==
  ASSUME WorkInv, DecideHandoff \/ StopWork \/ EvidenceSteps
  PROVE  WorkInv'
<1> USE WorkFacts
<1>1. CASE DecideHandoff
  <2>1. /\ handoff # 0 /\ handoff \in Packages /\ workApprovals[handoff] = "pending"
        /\ UNCHANGED <<repoVars, sessionVars, fileVars, workRun, workHandler, report>>
    BY <1>1 DEF DecideHandoff
  <2>2. PICK decision \in {"approved", "rejected"} :
            /\ workApprovals' = [workApprovals EXCEPT ![handoff] = decision]
            /\ userApproved' = IF decision = "approved" THEN userApproved \cup {handoff} ELSE userApproved
    BY <1>1 DEF DecideHandoff
  <2>3. /\ workApprovals' \in [Packages -> HandoffDecisions] /\ workApprovals'[handoff] = decision
        /\ \A p \in Packages \ {handoff} : workApprovals'[p] = workApprovals[p]
    BY <2>1, <2>2 DEF HandoffDecisions
  <2>4. WorkTypeOK'
    BY <2>1, <2>2, <2>3 DEF repoVars, sessionVars, fileVars, WorkInv, WorkTypeOK
  <2>5. HandoffInv' /\ EvidenceIsComplete'
    BY <2>1, <2>2, <2>3 DEF sessionVars, WorkInv, HandoffInv, EvidenceIsComplete
  <2>6. PackageFilesInv'
    <3>1. finalFile = 0
      BY <2>1 DEF WorkInv, PackageFilesInv
    <3> QED
      BY <2>1, <3>1 DEF sessionVars, fileVars, WorkInv, PackageFilesInv
  <2>7. ASSUME NEW g \in WorkHandlers
        PROVE  RequestOK(workHandler[g])'
    <3>1. RequestOK(workHandler[g])
      BY DEF WorkInv
    <3>2. workHandler[g].phase \notin Exporting
      BY <2>1, <3>1 DEF RequestOK
    <3>3. workHandler[g].phase \in Offering => workHandler[g].package \in Packages \ {handoff}
      BY <2>1, <3>1 DEF RequestOK
    <3> QED
      BY <2>1, <2>3, <3>1, <3>2, <3>3 DEF sessionVars, fileVars, RequestOK, Exporting
  <2>8. OfferedOnce'
    BY <2>1 DEF WorkInv, OfferedOnce
  <2> QED
    BY <2>4, <2>5, <2>6, <2>7, <2>8 DEF WorkInv
<1>2. CASE StopWork
  <2>1. /\ UNCHANGED <<repoVars, sessionVars, fileVars, workRun, workApprovals, report, userApproved>>
        /\ workHandler' = [g \in WorkHandlers |-> Waiting]
    BY <1>2 DEF StopWork
  <2>2. workHandler' \in [WorkHandlers -> WorkRequest] /\ \A g \in WorkHandlers : workHandler'[g] = Waiting
    BY <2>1
  <2>3. WorkTypeOK'
    BY <2>1, <2>2 DEF repoVars, sessionVars, fileVars, WorkInv, WorkTypeOK
  <2>4. HandoffInv' /\ EvidenceIsComplete' /\ PackageFilesInv'
    BY <2>1 DEF sessionVars, fileVars, WorkInv, HandoffInv, EvidenceIsComplete, PackageFilesInv
  <2>5. Waiting.phase = "idle" /\ Waiting.package = 0
    BY DEF Waiting
  <2>6. OfferedOnce' /\ \A g \in WorkHandlers : RequestOK(workHandler[g])'
    BY <2>2, <2>5 DEF OfferedOnce, RequestOK, Offering, Exporting
  <2> QED
    BY <2>3, <2>4, <2>6 DEF WorkInv
<1>3. ASSUME NEW claims \in SUBSET Claims, NEW commands \in BOOLEAN, NEW artifacts,
             VerifyWork(claims, artifacts, commands)
      PROVE  WorkInv'
  <2>1. /\ UNCHANGED <<repoVars, sessionVars, fileVars, workRun, workApprovals, workHandler, workHistory>>
        /\ report' = [verdict |-> Verdict(claims, artifacts, commands), claims |-> claims,
                      found |-> {p \in Paths : repo[p] # snapshot[p]}]
    BY <1>3 DEF VerifyWork
  <2>2. Verdict(claims, artifacts, commands) \in {"failed", "partial", "verified"}
    BY DEF Verdict
  <2>3. WorkTypeOK'
    BY <2>1, <2>2 DEF repoVars, sessionVars, fileVars, workHistory, WorkInv, WorkTypeOK
  <2>4. Verdict(claims, artifacts, commands) # "failed" =>
            ActualChanges \subseteq {x.path : x \in claims} /\ \A x \in claims : x.path \in Targets
    BY DEF Verdict, Matched
  <2>5. EvidenceIsComplete'
    <3>1. report'.verdict = Verdict(claims, artifacts, commands) /\ report'.claims = claims /\ report'.found = ActualChanges
      BY <2>1 DEF ActualChanges
    <3>2. Verdict(claims, artifacts, commands) # "failed" => ActualChanges \subseteq Targets \cap {x.path : x \in claims}
      BY <2>4
    <3> QED
      BY <3>1, <3>2 DEF EvidenceIsComplete
  <2>6. HandoffInv' /\ PackageFilesInv' /\ OfferedOnce' /\ \A g \in WorkHandlers : RequestOK(workHandler[g])'
    BY <2>1 DEF sessionVars, fileVars, workHistory, WorkInv, HandoffInv, PackageFilesInv, OfferedOnce, RequestOK
  <2> QED
    BY <2>3, <2>5, <2>6 DEF WorkInv
<1>4. CASE EditRepo
  BY <1>4, PlanningKeepsWork
<1> QED
  BY <1>1, <1>2, <1>3, <1>4 DEF EvidenceSteps

LEMMA WorkInvInitially == WorkInit => WorkInv
<1> SUFFICES ASSUME WorkInit PROVE WorkInv
  OBVIOUS
<1>1. MaxPackages \in Nat /\ MaxFiles \in Nat /\ MaxVersion \in Nat /\ MaxRepoEdits \in Nat
  BY WorkAssumption
<1>2. Waiting \in WorkRequest /\ Waiting.phase = "idle" /\ Waiting.package = 0
  BY <1>1 DEF Waiting, WorkRequest, HandoffDecisions
<1>3. repo \in Snapshots /\ snapshot \in Snapshots
  <2>1. 0..1 \subseteq 0..MaxVersion
    BY WorkAssumption
  <2>2. repo \in [Paths -> 0..1] /\ snapshot = repo
    BY DEF WorkInit
  <2> QED
    BY <2>1, <2>2 DEF Snapshots
<1>4. WorkTypeOK
  BY <1>1, <1>2, <1>3 DEF WorkInit, WorkTypeOK, Packages, HandoffDecisions, NoReport
<1>5. HandoffInv /\ PackageFilesInv /\ EvidenceIsComplete
  BY DEF WorkInit, HandoffInv, PackageFilesInv, EvidenceIsComplete, NoReport
<1>6. OfferedOnce /\ \A h \in WorkHandlers : RequestOK(workHandler[h])
  BY <1>2 DEF WorkInit, OfferedOnce, RequestOK, Offering, Exporting
<1> QED
  BY <1>4, <1>5, <1>6 DEF WorkInv

LEMMA WorkStepKeepsInv == WorkInv /\ [WorkNext]_workVars => WorkInv'
<1> SUFFICES ASSUME WorkInv, [WorkNext]_workVars PROVE WorkInv'
  OBVIOUS
<1>1. ASSUME NEW h \in WorkHandlers, PlanSteps(h) \/ PreviewSteps(h) \/ ExportSteps(h)
      PROVE  WorkInv'
  BY <1>1, PlanningKeepsWork, OfferingKeepsWork, ReadingAndWritingKeepWork, OpeningKeepsWork,
     ConsumingKeepsWork, RecordingKeepsWork DEF ExportSteps
<1>2. CASE UNCHANGED workVars
  BY <1>2 DEF workVars, repoVars, sessionVars, fileVars, workHistory, WorkInv, WorkTypeOK, HandoffInv,
              PackageFilesInv, OfferedOnce, RequestOK, EvidenceIsComplete, In
<1> QED
  BY <1>1, <1>2, PlanningKeepsWork, OthersKeepWork DEF WorkNext, HandoffSteps, HandoffRequests

\* When nothing stops Core, a file that is not whole is being filled.
LEMMA FillingIsFinished ==
  WorkInv /\ FilledOrFilling
    /\ (HandoffSteps(WorkHandlers, FALSE) \/ EvidenceSteps \/ (\E h \in WorkHandlers : PlanSteps(h)))
  => FilledOrFilling'
<1> SUFFICES ASSUME WorkInv, FilledOrFilling,
                    HandoffSteps(WorkHandlers, FALSE) \/ EvidenceSteps \/ \E h \in WorkHandlers : PlanSteps(h)
             PROVE  FilledOrFilling'
  OBVIOUS
<1> USE WorkFacts
<1>1. ASSUME NEW h \in WorkHandlers, PlanSteps(h) \/ PreviewSteps(h) \/ ReadHandoff(h) \/ LookForPackage(h)
                 \/ ConsumeHandoff(h) \/ RenamePackage(h) \/ SaveExport(h)
      PROVE  FilledOrFilling'
  <2>1. workHandler[h].phase # "writing" /\ UNCHANGED <<files, whole>>
    BY <1>1 DEF PlanSteps, PlanWork, SavePlan, ReplaceSpec, SpawnPlanner, PreviewSteps, BuildPackage, SaveHandoff,
                SaveHandoffApproval, ReadHandoff, LookForPackage, ConsumeHandoff, RenamePackage, SaveExport,
                In, fileVars
  <2>2. \E row \in WorkRequest : workHandler' = [workHandler EXCEPT ![h] = row]
    <3>1. workHandler[h] \in WorkRequest
      OBVIOUS
    <3>2. CASE PlanSteps(h)
      BY <3>1, <3>2 DEF PlanSteps, PlanWork, SavePlan, ReplaceSpec, SpawnPlanner, Proceed, Respond, WorkRequest
    <3>3. CASE BuildPackage(h)
      <4>1. PICK p \in Packages : workHandler' = [workHandler EXCEPT ![h].phase = "built", ![h].package = p]
        BY <3>3 DEF BuildPackage
      <4> DEFINE row == [workHandler[h] EXCEPT !.phase = "built", !.package = p]
      <4>2. row \in WorkRequest
        BY DEF WorkRequest
      <4>3. workHandler' = [workHandler EXCEPT ![h] = row]
        BY <4>1
      <4> QED
        BY <4>2, <4>3
    <3>4. CASE SaveHandoff(h) \/ SaveHandoffApproval(h)
      BY <3>1, <3>4 DEF SaveHandoff, SaveHandoffApproval, Proceed, Respond, WorkRequest
    <3>5. CASE ReadHandoff(h)
      <4> DEFINE row == [phase |-> "approved", package |-> handoff, decision |-> workApprovals[handoff], file |-> 0]
      <4>1. workHandler' = [workHandler EXCEPT ![h] = row] /\ workApprovals[handoff] \in HandoffDecisions
        BY <3>5 DEF ReadHandoff, HandoffDecisions
      <4>2. row \in WorkRequest
        BY <4>1 DEF WorkRequest
      <4> QED
        BY <4>1, <4>2
    <3>6. CASE LookForPackage(h) \/ ConsumeHandoff(h) \/ RenamePackage(h) \/ SaveExport(h)
      BY <3>1, <3>6 DEF LookForPackage, ConsumeHandoff, RenamePackage, SaveExport, Proceed, Respond, WorkRequest
    <3> QED
      BY <1>1, <3>2, <3>3, <3>4, <3>5, <3>6 DEF PreviewSteps
  <2>3. \A g \in WorkHandlers : In(g, "writing") => workHandler'[g] = workHandler[g]
    BY <2>1, <2>2 DEF In
  <2> QED
    BY <2>1, <2>3 DEF FilledOrFilling, In
<1>2. ASSUME NEW h \in WorkHandlers, OpenPending(h)
      PROVE  FilledOrFilling'
  <2>1. PICK f \in 1..MaxFiles :
            /\ files' = [files EXCEPT ![f] = workHandler[h].package] /\ whole' = whole \ {f}
            /\ workHandler' = [workHandler EXCEPT ![h].phase = "writing", ![h].file = f]
    BY <1>2 DEF OpenPending
  <2>2. workHandler[h].phase = "pending"
    BY <1>2 DEF OpenPending, In
  <2>3. workHandler'[h].phase = "writing" /\ workHandler'[h].file = f
    BY <2>1 DEF WorkRequest
  <2>4. \A g \in WorkHandlers : In(g, "writing") => workHandler'[g] = workHandler[g]
    BY <2>1, <2>2 DEF In
  <2>5. \A k \in 1..MaxFiles : k # f => files'[k] = files[k]
    BY <2>1
  <2>6. ASSUME NEW k \in 1..MaxFiles, k # f, files'[k] # 0
        PROVE  k \in whole' \/ \E g \in WorkHandlers : workHandler'[g].phase = "writing" /\ workHandler'[g].file = k
    BY <2>1, <2>4, <2>5, <2>6 DEF FilledOrFilling, In
  <2> QED
    BY <2>3, <2>6 DEF FilledOrFilling, In
<1>3. ASSUME NEW h \in WorkHandlers, WritePackage(h)
      PROVE  FilledOrFilling'
  <2>1. /\ files' = files /\ whole' = whole \cup {workHandler[h].file}
        /\ workHandler' = [workHandler EXCEPT ![h].phase = "written"]
    BY <1>3 DEF WritePackage, Proceed
  <2>2. \A g \in WorkHandlers \ {h} : workHandler'[g] = workHandler[g]
    BY <2>1
  <2> QED
    BY <2>1, <2>2 DEF FilledOrFilling, In
<1>4. CASE StartPlanner \/ PlannerCompletes \/ DecideHandoff \/ EvidenceSteps
  <2>1. UNCHANGED <<files, whole, workHandler>>
    BY <1>4 DEF StartPlanner, PlannerCompletes, DecideHandoff, EvidenceSteps, EditRepo, VerifyWork, fileVars
  <2> QED
    BY <2>1 DEF FilledOrFilling, In
<1> QED
  BY <1>1, <1>2, <1>3, <1>4 DEF HandoffSteps, HandoffRequests, ExportSteps, EvidenceSteps

\* When one request is served at a time, the file was filled before it is renamed,
\* whatever an earlier request left when Core stopped.
LEMMA FilledStaysFilled ==
  ASSUME NEW h \in WorkHandlers
  PROVE  WorkInv /\ FilledBeforeRenamed(h) /\ HandoffSteps({h}, TRUE) => FilledBeforeRenamed(h)'
<1> SUFFICES ASSUME WorkInv, FilledBeforeRenamed(h), HandoffSteps({h}, TRUE)
             PROVE  FilledBeforeRenamed(h)'
  OBVIOUS
<1> USE WorkFacts
<1>1. CASE PlanSteps(h) \/ PreviewSteps(h) \/ ReadHandoff(h) \/ LookForPackage(h) \/ SaveExport(h)
  <2>1. UNCHANGED <<pendingFile, finalFile, whole>>
    BY <1>1 DEF PlanSteps, PlanWork, SavePlan, ReplaceSpec, SpawnPlanner, PreviewSteps, BuildPackage, SaveHandoff,
                SaveHandoffApproval, ReadHandoff, LookForPackage, SaveExport, fileVars
  <2>2. /\ workHandler'[h].phase \notin {"writing", "written", "consumed"}
        /\ \A g \in WorkHandlers \ {h} : workHandler'[g] = workHandler[g]
    <3>1. CASE BuildPackage(h)
      <4>1. PICK p \in Packages : workHandler' = [workHandler EXCEPT ![h].phase = "built", ![h].package = p]
        BY <3>1 DEF BuildPackage
      <4> QED
        BY <4>1 DEF WorkRequest
    <3>2. CASE PlanSteps(h) \/ SaveHandoff(h) \/ SaveHandoffApproval(h)
      BY <3>2 DEF PlanSteps, PlanWork, SavePlan, ReplaceSpec, SpawnPlanner, SaveHandoff, SaveHandoffApproval,
                  Proceed, Respond, WorkRequest, Waiting
    <3>3. CASE ReadHandoff(h) \/ LookForPackage(h) \/ SaveExport(h)
      BY <3>3 DEF ReadHandoff, LookForPackage, SaveExport, Proceed, Respond, WorkRequest, Waiting
    <3> QED
      BY <1>1, <3>1, <3>2, <3>3 DEF PreviewSteps
  <2> QED
    BY <2>1, <2>2 DEF FilledBeforeRenamed, In
<1>2. CASE OpenPending(h)
  <2>1. PICK f \in 1..MaxFiles :
            /\ IF pendingFile = 0 THEN files[f] = 0 /\ \A g \in 1..(f - 1) : files[g] # 0 ELSE f = pendingFile
            /\ pendingFile' = f /\ whole' = whole \ {f}
            /\ workHandler' = [workHandler EXCEPT ![h].phase = "writing", ![h].file = f]
    BY <1>2 DEF OpenPending
  <2>2. finalFile' = finalFile /\ finalFile # f
    BY <1>2, <2>1 DEF OpenPending, WorkInv, PackageFilesInv
  <2>3. /\ workHandler'[h].phase = "writing" /\ workHandler'[h].file = f
        /\ \A g \in WorkHandlers \ {h} : workHandler'[g] = workHandler[g]
    BY <2>1 DEF WorkRequest
  <2> QED
    BY <2>1, <2>2, <2>3 DEF FilledBeforeRenamed, In
<1>3. CASE WritePackage(h) \/ ConsumeHandoff(h)
  <2>1. /\ UNCHANGED <<pendingFile, finalFile>> /\ whole \subseteq whole'
        /\ WritePackage(h) => workHandler[h].phase = "writing" /\ whole' = whole \cup {workHandler[h].file}
        /\ ConsumeHandoff(h) => workHandler[h].phase = "written"
    BY <1>3 DEF WritePackage, ConsumeHandoff, fileVars, In
  <2>2. /\ workHandler'[h].phase # "writing"
        /\ \A g \in WorkHandlers \ {h} : workHandler'[g] = workHandler[g]
    BY <1>3 DEF WritePackage, ConsumeHandoff, Proceed, Respond, WorkRequest, Waiting
  <2> QED
    BY <1>3, <2>1, <2>2 DEF FilledBeforeRenamed, In
<1>4. CASE RenamePackage(h)
  <2>1. /\ whole' = whole /\ workHandler[h].phase = "consumed"
        /\ \/ pendingFile = 0 /\ UNCHANGED <<pendingFile, finalFile>>
           \/ pendingFile # 0 /\ finalFile' = pendingFile /\ pendingFile' = 0
    BY <1>4 DEF RenamePackage, In
  <2>2. /\ workHandler'[h].phase \in {"idle", "renamed"}
        /\ \A g \in WorkHandlers \ {h} : workHandler'[g] = workHandler[g]
    BY <1>4 DEF RenamePackage, Proceed, Respond, WorkRequest, Waiting
  <2> QED
    BY <2>1, <2>2 DEF FilledBeforeRenamed, In
<1>5. CASE StartPlanner \/ PlannerCompletes \/ DecideHandoff \/ EditRepo
  <2>1. UNCHANGED <<pendingFile, finalFile, whole, workHandler>>
    BY <1>5 DEF StartPlanner, PlannerCompletes, DecideHandoff, EditRepo, fileVars
  <2> QED
    BY <2>1 DEF FilledBeforeRenamed, In
<1>6. CASE StopWork
  <2>1. UNCHANGED <<pendingFile, finalFile, whole>> /\ \A g \in WorkHandlers : workHandler'[g].phase = "idle"
    BY <1>6 DEF StopWork, fileVars, Waiting
  <2> QED
    BY <2>1 DEF FilledBeforeRenamed, In
<1> QED
  BY <1>1, <1>2, <1>3, <1>4, <1>5, <1>6 DEF HandoffSteps, HandoffRequests, ExportSteps

LEMMA WholeIsExported ==
  ASSUME WorkInv, NEW h \in WorkHandlers, FilledOrFilling \/ FilledBeforeRenamed(h)
  PROVE  ExportIsWhole
<1> USE WorkFacts
<1>1. finalFile # 0 => files[finalFile] = handoff /\ handoff \in Packages /\ workApprovals[handoff] = "consumed"
  BY DEF WorkInv, PackageFilesInv
<1>2. finalFile # 0 => files[finalFile] \in userApproved /\ workApprovals[files[finalFile]] = "consumed"
  BY <1>1 DEF WorkInv, HandoffInv
<1>3. ASSUME export # 0, \A g \in WorkHandlers : In(g, "idle")
      PROVE  finalFile \in whole /\ files[finalFile] = export
  <2>1. finalFile # 0 /\ files[finalFile] # 0 /\ files[finalFile] = export /\ finalFile \in 1..MaxFiles
    BY <1>3 DEF WorkInv, PackageFilesInv
  <2> QED
    BY <1>3, <2>1 DEF FilledOrFilling, FilledBeforeRenamed, In
<1> QED
  BY <1>2, <1>3 DEF ExportIsWhole

-----------------------------------------------------------------------------
(* A restore of a checkpoint, for any number of files: those that are       *)
(* renamed hold the target and the others what they held, unless the user  *)
(* has edited them; a rollback leaves behind it only what it has put back  *)
(* or could not.                                                            *)

RestoreCounts ==
    /\ restorePhase # "idle" => selected \in Selections
    /\ restorePhase = "staging" => staged < Len(selected)
    /\ restorePhase = "idle" => staged = 0
    /\ restorePhase \in {"idle", "staging"} => committed = 0
    /\ restorePhase = "renaming" => committed < Len(selected)
    /\ restorePhase \in {"syncing", "undoing"} => committed <= Len(selected)

RestoredFiles ==
    \A i \in DOMAIN selected :
        /\ restorePhase \in {"staging", "renaming", "syncing"} =>
               disk[selected[i]] \in {IF i <= committed THEN "target" ELSE "before", "edited"}
        /\ restorePhase = "undoing" /\ i > committed =>
               selected[i] \in undone \/ disk[selected[i]] \in {"before", "edited"}

RestoreInv == RestoreTypeOK /\ RestoreCounts /\ RestoredFiles

\* A selection names each of its files once.
LEMMA SelectionFacts ==
  ASSUME NEW s \in Selections
  PROVE  /\ s \in Seq(Files) /\ Len(s) \in 1..LastFile /\ DOMAIN s = 1..Len(s)
         /\ Len(s) \in Nat /\ Len(s) <= LastFile /\ Len(s) > 0
         /\ \A i, j \in 1..Len(s) : i # j => s[i] # s[j]
<1>1. PICK n \in Files : s \in [1..n -> Files]
  BY DEF Selections
<1>2. n \in 1..LastFile /\ LastFile \in Nat
  BY RestoreAssumption DEF Files
<1>3. s \in Seq(Files) /\ Len(s) = n /\ DOMAIN s = 1..n
  BY <1>1, <1>2
<1>4. \A i, j \in 1..n : i < j => s[i] < s[j]
  BY <1>3 DEF Selections
<1>5. ASSUME NEW i \in 1..n, NEW j \in 1..n, i # j
      PROVE  s[i] # s[j]
  <2>1. s[i] \in Int /\ s[j] \in Int
    BY <1>1, <1>2 DEF Files
  <2>2. i < j \/ j < i
    BY <1>2, <1>5
  <2> QED
    BY <1>4, <2>1, <2>2
<1> QED
  BY <1>2, <1>3, <1>5

LEMMA RestoreInvInitially == RestoreInit => RestoreInv
<1>1. LastFile \in Nat /\ 0 \in 0..LastFile
  BY RestoreAssumption
<1> QED
  BY <1>1 DEF RestoreInit, RestoreInv, RestoreTypeOK, RestoreCounts, RestoredFiles

\* A restore that answers leaves nothing behind.
LEMMA AnsweredKeepsRestore ==
  ASSUME RestoreInv, NEW what \in {"none", "restored", "failed"}, AnswerRestore(what),
         UNCHANGED <<disk, reviewed>>, undone' \subseteq Files
  PROVE  RestoreInv'
<1>1. LastFile \in Nat /\ 0 \in 0..LastFile
  BY RestoreAssumption
<1> QED
  BY <1>1 DEF AnswerRestore, RestoreInv, RestoreTypeOK, RestoreCounts, RestoredFiles

LEMMA RestoreStepKeepsInv == RestoreInv /\ [RestoreNext]_restoreVars => RestoreInv'
<1> SUFFICES ASSUME RestoreInv, [RestoreNext]_restoreVars PROVE RestoreInv'
  OBVIOUS
<1>1. LastFile \in Nat /\ 0 \in 0..LastFile
  BY RestoreAssumption
<1>2. /\ disk \in [Files -> {"before", "target", "edited"}] /\ reviewed \in Selections \cup {<<>>}
      /\ selected \in Selections \cup {<<>>} /\ staged \in 0..LastFile /\ committed \in 0..LastFile
      /\ undone \subseteq Files
  BY DEF RestoreInv, RestoreTypeOK
<1>3. restorePhase # "idle" => /\ selected \in Selections /\ selected \in Seq(Files) /\ Len(selected) \in 1..LastFile
                              /\ DOMAIN selected = 1..Len(selected)
                              /\ Len(selected) \in Nat /\ Len(selected) <= LastFile /\ Len(selected) > 0
                              /\ \A k \in 1..Len(selected) : selected[k] \in Files
                              /\ \A i, j \in 1..Len(selected) : i # j => selected[i] # selected[j]
  BY SelectionFacts DEF RestoreInv, RestoreCounts
<1>4. ASSUME NEW s \in Selections, PreviewRestore(s)
      PROVE  RestoreInv'
  BY <1>4 DEF PreviewRestore, restoreCounters, RestoreInv, RestoreTypeOK, RestoreCounts, RestoredFiles
<1>5. ASSUME NEW s \in Selections, BeginRestore(s)
      PROVE  RestoreInv'
  <2>1. CASE Verified(s)
    <3>1. /\ selected' = s /\ restorePhase' = "staging" /\ undone' = {} /\ restorePhase = "idle"
          /\ UNCHANGED <<disk, reviewed, staged, committed, outcome>>
      BY <1>5, <2>1 DEF BeginRestore
    <3>2. Len(s) \in 1..LastFile /\ DOMAIN s = 1..Len(s) /\ \A i \in DOMAIN s : disk[s[i]] = "before"
      BY <2>1, SelectionFacts DEF Verified
    <3>3. staged = 0 /\ committed = 0
      BY <3>1 DEF RestoreInv, RestoreCounts
    <3> QED
      BY <1>1, <1>2, <3>1, <3>2, <3>3 DEF RestoreInv, RestoreTypeOK, RestoreCounts, RestoredFiles
  <2>2. CASE ~Verified(s)
    BY <1>5, <2>2 DEF BeginRestore, RestoreInv, RestoreTypeOK, RestoreCounts, RestoredFiles
  <2> QED
    BY <2>1, <2>2
<1>6. CASE StageFile
  <2>1. /\ restorePhase = "staging" /\ staged' = staged + 1 /\ restorePhase' \in {"staging", "renaming"}
        /\ restorePhase' = "staging" => staged' # Len(selected)
        /\ UNCHANGED <<disk, reviewed, selected, committed, outcome, undone>>
    BY <1>6 DEF StageFile
  <2>2. staged < Len(selected) /\ committed = 0
    BY <2>1 DEF RestoreInv, RestoreCounts
  <2>3. staged + 1 \in 0..LastFile /\ (staged + 1 # Len(selected) => staged + 1 < Len(selected)) /\ 0 < Len(selected)
    <3>1. staged \in Nat
      BY <1>1, <1>2
    <3>2. Len(selected) \in Nat /\ Len(selected) <= LastFile
      BY <1>3, <2>1
    <3> QED
      BY <1>1, <2>2, <3>1, <3>2
  <2> QED
    BY <2>1, <2>2, <2>3 DEF RestoreInv, RestoreTypeOK, RestoreCounts, RestoredFiles
<1>7. CASE RenameFile
  <2>1. /\ restorePhase = "renaming" /\ restorePhase' = "syncing" /\ committed' = committed + 1
        /\ disk' = [disk EXCEPT ![selected[committed + 1]] = "target"]
        /\ UNCHANGED <<reviewed, selected, staged, outcome, undone>>
    BY <1>7 DEF RenameFile
  <2>2. committed < Len(selected)
    BY <2>1 DEF RestoreInv, RestoreCounts
  <2>3. committed + 1 \in 1..Len(selected) /\ committed + 1 \in 0..LastFile /\ committed + 1 <= Len(selected)
    BY <1>1, <1>2, <1>3, <2>1, <2>2
  <2> DEFINE n == committed + 1
  <2>4. /\ disk' \in [Files -> {"before", "target", "edited"}] /\ disk'[selected[n]] = "target"
        /\ \A i \in 1..Len(selected) : i # n => disk'[selected[i]] = disk[selected[i]]
    BY <1>2, <1>3, <2>1, <2>3
  <2>5. \A i \in 1..Len(selected) : i # n => (i <= n <=> i <= committed)
    BY <1>2, <1>3, <2>1
  <2>6. n <= n
    BY <1>2
  <2>7. committed' = n /\ n \in 0..LastFile /\ n <= Len(selected)
    BY <2>1, <2>3
  <2> HIDE DEF n
  <2>8. RestoredFiles'
    BY <1>3, <2>1, <2>4, <2>5, <2>6, <2>7 DEF RestoreInv, RestoredFiles
  <2> QED
    BY <2>1, <2>4, <2>7, <2>8 DEF RestoreInv, RestoreTypeOK, RestoreCounts
<1>8. CASE SyncDirectory /\ committed # Len(selected)
  <2>1. /\ restorePhase = "syncing" /\ restorePhase' = "renaming"
        /\ UNCHANGED <<disk, reviewed, selected, staged, committed, outcome, undone>>
    BY <1>8 DEF SyncDirectory
  <2>2. committed < Len(selected)
    <3>1. committed <= Len(selected) /\ committed # Len(selected)
      BY <1>8, <2>1 DEF RestoreInv, RestoreCounts
    <3>2. committed \in Nat
      BY <1>1, <1>2
    <3>3. Len(selected) \in Nat
      BY <1>3, <2>1
    <3> QED
      BY <3>1, <3>2, <3>3
  <2> QED
    BY <2>1, <2>2 DEF RestoreInv, RestoreTypeOK, RestoreCounts, RestoredFiles
<1>9. CASE RenameFails
  <2>1. /\ restorePhase = "renaming" /\ restorePhase' = "undoing"
        /\ UNCHANGED <<disk, reviewed, selected, staged, committed, outcome, undone>>
    BY <1>9 DEF RenameFails
  <2>2. committed < Len(selected)
    BY <2>1 DEF RestoreInv, RestoreCounts
  <2>3. committed <= Len(selected) /\ \A i \in 1..Len(selected) : i > committed => ~(i <= committed)
    BY <1>2, <1>3, <2>1, <2>2
  <2>4. RestoredFiles'
    BY <1>3, <2>1, <2>3 DEF RestoreInv, RestoredFiles
  <2> QED
    BY <2>1, <2>3, <2>4 DEF RestoreInv, RestoreTypeOK, RestoreCounts
<1>10. CASE UndoFile /\ ~(committed < 1)
  <2> DEFINE n == committed - 1
  <2>1. /\ restorePhase = "undoing" /\ committed' = n
        /\ UNCHANGED <<reviewed, selected, staged, outcome, restorePhase>>
        /\ \/ disk' = [disk EXCEPT ![selected[committed]] = "before"] /\ undone' = undone
           \/ disk' = disk /\ undone' = undone \cup {selected[committed]}
    BY <1>10 DEF UndoFile, LastCommitted
  <2>2. committed <= Len(selected)
    BY <2>1 DEF RestoreInv, RestoreCounts
  <2>3. /\ committed \in 1..Len(selected) /\ n \in 0..LastFile /\ n <= Len(selected)
        /\ \A i \in 1..Len(selected) : i > n => i = committed \/ i > committed
    BY <1>1, <1>2, <1>3, <1>10, <2>1, <2>2
  <2> HIDE DEF n
  <2>4. undone' \subseteq Files /\ undone \subseteq undone' /\ disk' \in [Files -> {"before", "target", "edited"}]
    BY <1>2, <1>3, <2>1, <2>3
  <2>5. selected[committed] \in undone' \/ disk'[selected[committed]] = "before"
    BY <1>2, <1>3, <2>1, <2>3
  <2>6. \A i \in 1..Len(selected) : disk'[selected[i]] \in {disk[selected[i]], "before"}
    BY <1>2, <1>3, <2>1, <2>3
  <2>7. \A i \in 1..Len(selected) : i > committed => selected[i] \in undone \/ disk[selected[i]] \in {"before", "edited"}
    BY <1>3, <2>1 DEF RestoreInv, RestoredFiles
  <2>8. \A i \in 1..Len(selected) : i > n => selected[i] \in undone' \/ disk'[selected[i]] \in {"before", "edited"}
    BY <2>3, <2>4, <2>5, <2>6, <2>7
  <2> QED
    BY <1>3, <2>1, <2>3, <2>4, <2>8 DEF RestoreInv, RestoreTypeOK, RestoreCounts, RestoredFiles
<1>11. ASSUME NEW k \in Files, EditFile(k)
       PROVE  RestoreInv'
  <2>1. disk' = [disk EXCEPT ![k] = "edited"]
        /\ UNCHANGED <<reviewed, selected, restorePhase, staged, committed, outcome, undone>>
    BY <1>11 DEF EditFile
  <2>2. /\ disk' \in [Files -> {"before", "target", "edited"}]
        /\ \A g \in Files : disk'[g] \in {disk[g], "edited"}
    BY <1>2, <2>1
  <2>3. RestoredFiles'
    <3>1. CASE restorePhase = "idle"
      BY <2>1, <3>1 DEF RestoredFiles
    <3>2. CASE restorePhase # "idle"
      BY <1>3, <2>1, <2>2, <3>2 DEF RestoreInv, RestoredFiles
    <3> QED
      BY <3>1, <3>2
  <2> QED
    BY <2>1, <2>2, <2>3 DEF RestoreInv, RestoreTypeOK, RestoreCounts
<1>12. CASE StagingFails \/ (SyncDirectory /\ committed = Len(selected)) \/ SyncFails
            \/ (UndoFile /\ committed < 1) \/ StopRestore
  <2>1. \E what \in {"none", "restored", "failed"} : AnswerRestore(what)
    BY <1>12 DEF StagingFails, SyncDirectory, SyncFails, UndoFile, LastCommitted, StopRestore
  <2>2. UNCHANGED <<disk, reviewed>>
    BY <1>12 DEF StagingFails, SyncDirectory, SyncFails, UndoFile, LastCommitted, StopRestore
  <2>3. undone' \subseteq undone \cup {selected[i] : i \in 1..committed}
    BY <1>12 DEF StagingFails, SyncDirectory, SyncFails, UndoFile, LastCommitted, StopRestore
  <2>4. \A i \in 1..committed : selected[i] \in Files
    <3>1. CASE restorePhase \in {"idle", "staging"}
      BY <1>1, <3>1 DEF RestoreInv, RestoreCounts
    <3>2. CASE restorePhase \notin {"idle", "staging"}
      <4>1. committed <= Len(selected)
        BY <1>2, <1>3, <3>2 DEF RestoreInv, RestoreCounts, RestoreTypeOK
      <4> QED
        BY <1>2, <1>3, <3>2, <4>1
    <3> QED
      BY <3>1, <3>2
  <2>5. undone' \subseteq Files
    BY <1>2, <2>3, <2>4
  <2> QED
    BY <2>1, <2>2, <2>5, AnsweredKeepsRestore
<1>13. CASE UNCHANGED restoreVars
  BY <1>13 DEF restoreVars, RestoreInv, RestoreTypeOK, RestoreCounts, RestoredFiles
<1> QED
  BY <1>4, <1>5, <1>6, <1>7, <1>8, <1>9, <1>10, <1>11, <1>12, <1>13 DEF RestoreNext

\* Whatever ends a restore has restored all of what it has not had to leave alone, or
\* none of it.
LEMMA RestoreEndsWhole ==
  ASSUME RestoreInv, [RestoreNext]_restoreVars, restorePhase # "idle", restorePhase' = "idle"
  PROVE  LET settled == {selected[i] : i \in DOMAIN selected} \ undone'
             left == {disk'[x] : x \in settled} \ {"edited"}
         IN  /\ outcome' = "restored" => left \subseteq {"target"}
             /\ outcome' = "failed" => left \subseteq {"before"}
<1>1. selected \in Selections /\ Len(selected) \in 1..LastFile /\ DOMAIN selected = 1..Len(selected)
      /\ LastFile \in Nat /\ committed \in 0..LastFile
  BY SelectionFacts, RestoreAssumption DEF RestoreInv, RestoreCounts, RestoreTypeOK
<1>2. \/ StagingFails \/ (SyncDirectory /\ committed = Len(selected)) \/ SyncFails
      \/ (UndoFile /\ committed < 1) \/ StopRestore
  BY DEF RestoreNext, restoreVars, PreviewRestore, BeginRestore, StageFile, RenameFile, RenameFails, SyncDirectory,
         UndoFile, LastCommitted, EditFile
<1>3. disk' = disk
  BY <1>2 DEF StagingFails, SyncDirectory, SyncFails, UndoFile, LastCommitted, StopRestore
<1>4. CASE SyncDirectory /\ committed = Len(selected)
  <2>1. restorePhase = "syncing" /\ outcome' = "restored"
    BY <1>4 DEF SyncDirectory, AnswerRestore
  <2>2. \A i \in DOMAIN selected : i <= committed
    BY <1>1, <1>4
  <2>3. \A i \in DOMAIN selected : disk[selected[i]] \in {"target", "edited"}
    BY <2>1, <2>2 DEF RestoreInv, RestoredFiles
  <2> QED
    BY <1>3, <2>1, <2>3
<1>5. CASE StagingFails \/ SyncFails \/ (UndoFile /\ committed < 1)
  <2>1. outcome' = "failed"
    BY <1>5 DEF StagingFails, SyncFails, UndoFile, LastCommitted, AnswerRestore
  <2>2. ASSUME NEW i \in DOMAIN selected, selected[i] \notin undone'
        PROVE  disk[selected[i]] \in {"before", "edited"}
    <3>1. CASE StagingFails
      <4>1. restorePhase = "staging" /\ committed = 0
        BY <3>1 DEF StagingFails, RestoreInv, RestoreCounts
      <4>2. ~(i <= 0)
        BY <1>1
      <4> QED
        BY <4>1, <4>2 DEF RestoreInv, RestoredFiles
    <3>2. CASE SyncFails
      <4>1. restorePhase = "syncing" /\ undone' = {selected[k] : k \in 1..committed}
        BY <3>2 DEF SyncFails
      <4>2. i \notin 1..committed
        BY <2>2, <4>1
      <4>3. ~(i <= committed)
        BY <1>1, <4>2
      <4> QED
        BY <4>1, <4>3 DEF RestoreInv, RestoredFiles
    <3>3. CASE UndoFile /\ committed < 1
      <4>1. restorePhase = "undoing" /\ undone' = undone
        BY <3>3 DEF UndoFile, LastCommitted
      <4>2. i > committed
        BY <1>1, <3>3
      <4> QED
        BY <2>2, <4>1, <4>2 DEF RestoreInv, RestoredFiles
    <3> QED
      BY <1>5, <3>1, <3>2, <3>3
  <2> QED
    BY <1>3, <2>1, <2>2
<1>6. CASE StopRestore
  BY <1>6 DEF StopRestore, AnswerRestore
<1> QED
  BY <1>2, <1>4, <1>5, <1>6

-----------------------------------------------------------------------------
(* The messages of a run: the inductive invariant *)

CallIds == Nat \X Nat
Messages == [role : {"system", "user", "assistant", "tool"}, calls : Seq(CallIds), of : CallIds,
             reasoning : {"none", "whole"}]

\* The message at i is the result of the call at its place in the reply at j.
Answers(messages, i, j) ==
    /\ ~IsResult(messages[j]) /\ \A k \in j + 1 .. i : IsResult(messages[k])
    /\ i - j <= Len(messages[j].calls) /\ messages[i].of = messages[j].calls[i - j]

\* Reply number r is at i, and nothing but its results follows.
NewestAt(messages, r, i) ==
    /\ i \in 1 .. Len(messages) /\ ~IsResult(messages[i]) /\ messages[i].calls # <<>>
    /\ \A p \in 1 .. Len(messages[i].calls) : messages[i].calls[p] = <<r, p>>
    /\ \A k \in i + 1 .. Len(messages) : IsResult(messages[k])
    /\ \A k \in 1 .. i : messages[k].of[1] # r

WellFormed(messages, r) ==
    /\ messages \in Seq(Messages) /\ Len(messages) >= 2
    /\ \A i \in 1 .. Len(messages) :
          /\ messages[i].role = "system" <=> i = 1
          /\ messages[i].role = "tool" <=> IsResult(messages[i])
          /\ messages[i].calls # <<>> => messages[i].role = "assistant"
          /\ messages[i].of[1] <= r \/ messages[i].of[1] > MaxReplies
          /\ IsResult(messages[i]) => \E j \in 1 .. i - 1 : Answers(messages, i, j)
    /\ r > 0 => \E i \in 1 .. Len(messages) : NewestAt(messages, r, i)

\* Results of these calls of the newest reply may follow.
Following(messages, r, ids) ==
    /\ r > 0 /\ ids \in Seq(CallIds)
    /\ \E i \in 1 .. Len(messages) :
          /\ NewestAt(messages, r, i)
          /\ \A p \in 1 .. Len(ids) :
                /\ Len(messages) - i + p <= Len(messages[i].calls)
                /\ ids[p] = messages[i].calls[Len(messages) - i + p]

Contexts == [messages : Seq(Messages), replies : 0 .. MaxReplies]

ContextInv ==
    /\ context \in Contexts /\ keptContext \in Contexts
    /\ contextPc \in {"stopped", "resume", "loop", "model", "calls", "ended"}
    /\ contextPc # "stopped" => WellFormed(context.messages, context.replies)
    /\ \/ WellFormed(keptContext.messages, keptContext.replies)
       \/ /\ keptContext.messages \in CutByOlderCore /\ keptContext.replies = 0
          /\ waiting = NoId /\ contextPc = "stopped"
    /\ waiting # NoId => Following(keptContext.messages, keptContext.replies, <<waiting>>)
    /\ contextPc \in {"loop", "model", "calls"} => waiting = NoId
    /\ contextPc = "resume" => Following(context.messages, context.replies, <<waiting>>)
    /\ contextPc = "calls" => Following(context.messages, context.replies, openCalls)
    /\ contextPc = "model" => keptContext = [context EXCEPT !.messages = Redacted(@)]

-----------------------------------------------------------------------------
(* The messages of a run: what finds and drops them *)

LEMMA LargestIs ==
  ASSUME NEW S \in SUBSET Int, NEW last \in S, \A k \in S : k <= last
  PROVE  Max(S) = last
<1>1. \A k \in S : last >= k
  OBVIOUS
<1>2. Max(S) \in S /\ \A k \in S : Max(S) >= k
  BY <1>1 DEF Max
<1>3. Max(S) >= last /\ last >= Max(S) /\ Max(S) \in Int /\ last \in Int
  BY <1>1, <1>2
<1>4. QED
  BY <1>3

LEMMA SmallestIs ==
  ASSUME NEW S \in SUBSET Int, NEW first \in S, \A k \in S : first <= k
  PROVE  Min(S) = first
<1>1. Min(S) \in S /\ \A k \in S : Min(S) <= k
  BY DEF Min
<1>2. Min(S) <= first /\ first <= Min(S) /\ Min(S) \in Int /\ first \in Int
  BY <1>1
<1>3. QED
  BY <1>2

LEMMA HasSmallest ==
  ASSUME NEW S \in SUBSET Nat, S # {}
  PROVE  \E first \in S : \A k \in S : first <= k
<1>1. PICK first \in S : \A k \in S : ~(<<k, first>> \in OpToRel(<, Nat))
  BY NatLessThanWellFounded, WFMin
<1>2. \A k \in S : k \in Nat /\ ~(k < first) /\ first \in Nat
  BY <1>1 DEF OpToRel
<1>3. \A k \in S : first <= k
  BY <1>2
<1>4. QED
  BY <1>3

LEMMA HasLargest ==
  ASSUME NEW n \in Nat, NEW S \in SUBSET (0 .. n), S # {}
  PROVE  \E last \in S : \A k \in S : k <= last
<1> DEFINE T == {n - k : k \in S}
<1>1. T \in SUBSET Nat /\ T # {}
  <2>1. \A k \in S : n - k \in Nat
    OBVIOUS
  <2>2. QED
    BY <2>1
<1> HIDE DEF T
<1>2. PICK least \in T : \A k \in T : least <= k
  BY <1>1, HasSmallest
<1>3. PICK last \in S : least = n - last
  BY <1>2 DEF T
<1>4. \A k \in S : n - k \in T
  BY DEF T
<1>5. \A k \in S : n - last <= n - k
  BY <1>2, <1>3, <1>4
<1>6. \A k \in S : k <= last
  BY <1>5
<1>7. QED
  BY <1>6

LEMMA ReplyIsFound ==
  ASSUME NEW list, NEW i \in Nat, NEW j \in 1 .. i - 1, Answers(list, i, j)
  PROVE  ReplyOf(list, i) = j
<1> DEFINE S == {k \in 1 .. i - 1 : ~IsResult(list[k])} \cup {0}
<1>1. S \in SUBSET Int /\ j \in S
  BY DEF Answers
<1>2. \A k \in S : k <= j
  BY DEF Answers
<1>3. Max(S) = j
  <2> HIDE DEF S
  <2> QED
    BY <1>1, <1>2, LargestIs
<1>4. QED
  BY <1>3 DEF ReplyOf

LEMMA OnlyFirst ==
  ASSUME NEW list, NEW n \in Nat
  PROVE  Only(list, 1 .. n) = [k \in 1 .. n |-> list[k]]
<1>1. Cardinality(1 .. n) = n
  BY FS_Interval
<1>2. ASSUME NEW i \in 1 .. n
      PROVE  Cardinality({j \in 1 .. n : j <= i}) = i
  <2>1. {j \in 1 .. n : j <= i} = 1 .. i
    OBVIOUS
  <2>2. Cardinality(1 .. i) = i
    <3>1. 1 \in Int /\ i \in Int /\ ~(1 > i) /\ i - 1 + 1 = i
      OBVIOUS
    <3>2. Cardinality(1 .. i) = IF 1 > i THEN 0 ELSE i - 1 + 1
      BY <3>1, FS_Interval
    <3>3. QED
      BY <3>1, <3>2
  <2>3. QED
    BY <2>1, <2>2
<1>3. ASSUME NEW k \in 1 .. n
      PROVE  (CHOOSE i \in 1 .. n : Cardinality({j \in 1 .. n : j <= i}) = k) = k
  BY <1>2
<1>4. Only(list, 1 .. n) =
          [k \in 1 .. n |-> list[CHOOSE i \in 1 .. n : Cardinality({j \in 1 .. n : j <= i}) = k]]
  BY <1>1 DEF Only
<1>5. QED
  BY <1>3, <1>4

\* Without the first message
LEMMA OnlyRest ==
  ASSUME NEW list, NEW n \in Nat \ {0}
  PROVE  Only(list, 2 .. n) = [k \in 1 .. n - 1 |-> list[k + 1]]
<1>1. Cardinality(2 .. n) = n - 1
  <2>1. Cardinality(2 .. n) = IF 2 > n THEN 0 ELSE n - 2 + 1
    BY FS_Interval
  <2>2. QED
    BY <2>1
<1>2. ASSUME NEW i \in 2 .. n
      PROVE  Cardinality({j \in 2 .. n : j <= i}) = i - 1
  <2>1. {j \in 2 .. n : j <= i} = 2 .. i
    OBVIOUS
  <2>2. Cardinality(2 .. i) = i - 1
    <3>1. 2 \in Int /\ i \in Int /\ ~(2 > i) /\ i - 2 + 1 = i - 1
      OBVIOUS
    <3>2. Cardinality(2 .. i) = IF 2 > i THEN 0 ELSE i - 2 + 1
      BY <3>1, FS_Interval
    <3>3. QED
      BY <3>1, <3>2
  <2>3. QED
    BY <2>1, <2>2
<1>3. ASSUME NEW k \in 1 .. n - 1
      PROVE  (CHOOSE i \in 2 .. n : Cardinality({j \in 2 .. n : j <= i}) = k) = k + 1
  <2>1. k + 1 \in 2 .. n /\ (k + 1) - 1 = k
    OBVIOUS
  <2>2. \A i \in 2 .. n : i - 1 = k => i = k + 1
    OBVIOUS
  <2>3. \A i \in 2 .. n : Cardinality({j \in 2 .. n : j <= i}) = k <=> i = k + 1
    BY <1>2, <2>1, <2>2
  <2>4. QED
    BY <2>1, <2>3
<1>4. Only(list, 2 .. n) =
          [k \in 1 .. n - 1 |-> list[CHOOSE i \in 2 .. n : Cardinality({j \in 2 .. n : j <= i}) = k]]
  BY <1>1 DEF Only
<1>5. QED
  BY <1>3, <1>4

\* What an older Core cut: the pair that follows the orphan
LEMMA OnlyAround ==
  ASSUME NEW list
  PROVE  Only(list, {1, 2, 4, 5}) = <<list[1], list[2], list[4], list[5]>>
<1>1. /\ IsFiniteSet({1}) /\ Cardinality({1}) = 1
      /\ IsFiniteSet({1, 2}) /\ Cardinality({1, 2}) = 2
  <2>1. IsFiniteSet({1}) /\ Cardinality({1}) = 1
    BY FS_Singleton
  <2>2. IsFiniteSet({1} \cup {2}) /\ Cardinality({1} \cup {2}) = Cardinality({1}) + 1
    <3>1. 2 \notin {1}
      OBVIOUS
    <3>2. QED
      BY <2>1, <3>1, FS_AddElement
  <2>3. {1} \cup {2} = {1, 2}
    OBVIOUS
  <2>4. QED
    BY <2>1, <2>2, <2>3
<1>2. IsFiniteSet({1, 2, 4}) /\ Cardinality({1, 2, 4}) = 3
  <2>1. IsFiniteSet({1, 2} \cup {4}) /\ Cardinality({1, 2} \cup {4}) = Cardinality({1, 2}) + 1
    <3>1. 4 \notin {1, 2}
      OBVIOUS
    <3>2. QED
      BY <1>1, <3>1, FS_AddElement
  <2>2. {1, 2} \cup {4} = {1, 2, 4}
    OBVIOUS
  <2>3. QED
    BY <1>1, <2>1, <2>2
<1>3. Cardinality({1, 2, 4, 5}) = 4
  <2>1. IsFiniteSet({1, 2, 4} \cup {5}) /\ Cardinality({1, 2, 4} \cup {5}) = Cardinality({1, 2, 4}) + 1
    <3>1. 5 \notin {1, 2, 4}
      OBVIOUS
    <3>2. QED
      BY <1>2, <3>1, FS_AddElement
  <2>2. {1, 2, 4} \cup {5} = {1, 2, 4, 5}
    OBVIOUS
  <2>3. QED
    BY <1>2, <2>1, <2>2
<1> DEFINE Before(i) == {j \in {1, 2, 4, 5} : j <= i}
<1>4. Before(1) = {1} /\ Before(2) = {1, 2} /\ Before(4) = {1, 2, 4} /\ Before(5) = {1, 2, 4, 5}
  OBVIOUS
<1>5. /\ Cardinality(Before(1)) = 1 /\ Cardinality(Before(2)) = 2
      /\ Cardinality(Before(4)) = 3 /\ Cardinality(Before(5)) = 4
  <2> HIDE DEF Before
  <2> QED
    BY <1>1, <1>2, <1>3, <1>4
<1> DEFINE Chosen(k) == CHOOSE i \in {1, 2, 4, 5} : Cardinality(Before(i)) = k
<1>6. Chosen(1) = 1 /\ Chosen(2) = 2 /\ Chosen(3) = 4 /\ Chosen(4) = 5
  <2> HIDE DEF Before
  <2> QED
    BY <1>5
<1>7. Only(list, {1, 2, 4, 5}) = [k \in 1 .. 4 |-> list[Chosen(k)]]
  BY <1>3 DEF Only
<1>8. [k \in 1 .. 4 |-> list[Chosen(k)]] = <<list[1], list[2], list[4], list[5]>>
  <2> HIDE DEF Chosen
  <2> QED
    BY <1>6
<1>9. QED
  BY <1>7, <1>8

-----------------------------------------------------------------------------
(* The messages of a run: what is done to them leaves them well formed *)

\* Only the shape of messages counts.
LEMMA ShapeIsEnough ==
  ASSUME NEW list, NEW other \in Seq(Messages), Len(other) = Len(list), NEW r,
         \A i \in 1 .. Len(list) :
            other[i].role = list[i].role /\ other[i].calls = list[i].calls /\ other[i].of = list[i].of
  PROVE  /\ WellFormed(list, r) => WellFormed(other, r)
         /\ \A ids : Following(list, r, ids) => Following(other, r, ids)
<1>0. PICK n : n = Len(list) /\ n = Len(other) /\ n \in Nat
  OBVIOUS
<1>1. \A i \in 1 .. n :
         /\ other[i].role = list[i].role /\ other[i].calls = list[i].calls /\ other[i].of = list[i].of
         /\ IsResult(other[i]) <=> IsResult(list[i])
  BY <1>0 DEF IsResult
<1>2. ASSUME NEW i \in 1 .. n, NEW j \in 1 .. i - 1, Answers(list, i, j)
      PROVE  Answers(other, i, j)
  <2>1. j \in 1 .. n /\ \A k \in j + 1 .. i : k \in 1 .. n
    BY <1>0
  <2>2. QED
    BY <1>1, <1>2, <2>1 DEF Answers
<1>3. ASSUME NEW i \in 1 .. n, NewestAt(list, r, i)
      PROVE  NewestAt(other, r, i)
  <2>1. /\ \A k \in i + 1 .. n : k \in 1 .. n
        /\ \A k \in 1 .. i : k \in 1 .. n
    BY <1>0
  <2>2. QED
    BY <1>0, <1>1, <1>3, <2>1 DEF NewestAt
<1>4. ASSUME WellFormed(list, r) PROVE WellFormed(other, r)
  <2>1. /\ n >= 2
        /\ \A i \in 1 .. n :
              /\ list[i].role = "system" <=> i = 1
              /\ list[i].role = "tool" <=> IsResult(list[i])
              /\ list[i].calls # <<>> => list[i].role = "assistant"
              /\ list[i].of[1] <= r \/ list[i].of[1] > MaxReplies
              /\ IsResult(list[i]) => \E j \in 1 .. i - 1 : Answers(list, i, j)
        /\ r > 0 => \E i \in 1 .. n : NewestAt(list, r, i)
    BY <1>0, <1>4 DEF WellFormed
  <2>2. \A i \in 1 .. n :
              /\ other[i].role = "system" <=> i = 1
              /\ other[i].role = "tool" <=> IsResult(other[i])
              /\ other[i].calls # <<>> => other[i].role = "assistant"
              /\ other[i].of[1] <= r \/ other[i].of[1] > MaxReplies
    BY <1>1, <2>1
  <2>3. \A i \in 1 .. n : IsResult(other[i]) => \E j \in 1 .. i - 1 : Answers(other, i, j)
    BY <1>1, <1>2, <2>1
  <2>4. r > 0 => \E i \in 1 .. n : NewestAt(other, r, i)
    BY <1>3, <2>1
  <2>5. QED
    BY <1>0, <2>1, <2>2, <2>3, <2>4 DEF WellFormed
<1>5. ASSUME NEW ids, Following(list, r, ids) PROVE Following(other, r, ids)
  <2>1. PICK i \in 1 .. n :
          /\ NewestAt(list, r, i)
          /\ \A p \in 1 .. Len(ids) :
                n - i + p <= Len(list[i].calls) /\ ids[p] = list[i].calls[n - i + p]
    BY <1>0, <1>5 DEF Following
  <2>2. NewestAt(other, r, i) /\ other[i].calls = list[i].calls
    BY <1>1, <1>3, <2>1
  <2>3. QED
    BY <1>0, <1>5, <2>1, <2>2 DEF Following
<1>6. QED
  BY <1>4, <1>5

LEMMA RedactedIsWell ==
  ASSUME NEW list \in Seq(Messages), NEW r
  PROVE  /\ Redacted(list) \in Seq(Messages) /\ Len(Redacted(list)) = Len(list)
         /\ \A i \in 1 .. Len(list) : Redacted(list)[i] = [list[i] EXCEPT !.reasoning = "none"]
         /\ WellFormed(list, r) => WellFormed(Redacted(list), r)
         /\ \A ids : Following(list, r, ids) => Following(Redacted(list), r, ids)
<1>1. PICK n \in Nat : n = Len(list) /\ DOMAIN list = 1 .. n
  OBVIOUS
<1>2. \A i \in 1 .. n : list[i] \in Messages
  BY <1>1
<1>3. \A i \in 1 .. n : [list[i] EXCEPT !.reasoning = "none"] \in Messages
  BY <1>2 DEF Messages
<1>4. Redacted(list) = [i \in 1 .. n |-> [list[i] EXCEPT !.reasoning = "none"]]
  BY <1>1 DEF Redacted
<1>5. PICK other \in Seq(Messages) : other = Redacted(list) /\ Len(other) = n
  <2>1. [i \in 1 .. n |-> [list[i] EXCEPT !.reasoning = "none"]] \in Seq(Messages)
    BY <1>3
  <2>2. PICK other \in Seq(Messages) : other = [i \in 1 .. n |-> [list[i] EXCEPT !.reasoning = "none"]]
    BY <2>1
  <2>3. Len(other) = n
    BY <2>2
  <2>4. QED
    BY <1>4, <2>2, <2>3
<1>6. \A i \in 1 .. n :
         other[i] = [list[i] EXCEPT !.reasoning = "none"]
  BY <1>4, <1>5
<1>7. \A i \in 1 .. n :
         other[i].role = list[i].role /\ other[i].calls = list[i].calls /\ other[i].of = list[i].of
  BY <1>2, <1>6 DEF Messages
<1>8. /\ WellFormed(list, r) => WellFormed(other, r)
      /\ \A ids : Following(list, r, ids) => Following(other, r, ids)
  BY <1>1, <1>5, <1>7, ShapeIsEnough
<1>9. QED
  BY <1>1, <1>5, <1>6, <1>8

\* What is known of a message goes on when others are appended.
LEMMA PrefixKeeps ==
  ASSUME NEW list, NEW more, NEW n \in Nat, \A k \in 1 .. n : more[k] = list[k]
  PROVE  \A i \in 1 .. n : \A j \in 1 .. i - 1 : Answers(list, i, j) => Answers(more, i, j)
<1> SUFFICES ASSUME NEW i \in 1 .. n, NEW j \in 1 .. i - 1, Answers(list, i, j)
             PROVE  Answers(more, i, j)
  OBVIOUS
<1>1. more[i] = list[i] /\ more[j] = list[j] /\ \A k \in j + 1 .. i : more[k] = list[k]
  OBVIOUS
<1>2. QED
  BY <1>1 DEF Answers

LEMMA ResultIsAppended ==
  ASSUME NEW r \in 0 .. MaxReplies, NEW list, WellFormed(list, r), NEW ids, Following(list, r, ids), ids # <<>>
  PROVE  /\ Append(list, Result(Head(ids))) \in Seq(Messages)
         /\ WellFormed(Append(list, Result(Head(ids))), r)
         /\ Following(Append(list, Result(Head(ids))), r, Tail(ids))
<1>1. list \in Seq(Messages) /\ ids \in Seq(CallIds) /\ r > 0 /\ r \in Nat /\ MaxReplies \in Nat
  BY ContextAssumption DEF WellFormed, Following
<1>2. PICK n \in Nat : n = Len(list) /\ n >= 2
  BY <1>1 DEF WellFormed
<1>3. PICK i \in 1 .. n :
         /\ NewestAt(list, r, i)
         /\ \A p \in 1 .. Len(ids) :
               n - i + p <= Len(list[i].calls) /\ ids[p] = list[i].calls[n - i + p]
  BY <1>2 DEF Following
<1>4. PICK asked \in Seq(CallIds) : asked = list[i].calls
  <2>1. list[i] \in Messages
    BY <1>1, <1>2
  <2>2. list[i].calls \in Seq(CallIds)
    BY <2>1 DEF Messages
  <2>3. QED
    BY <2>2
<1>5. /\ ~IsResult(list[i]) /\ asked # <<>>
      /\ \A p \in 1 .. Len(asked) : asked[p] = <<r, p>>
      /\ \A k \in i + 1 .. n : IsResult(list[k])
      /\ \A k \in 1 .. i : list[k].of[1] # r
  BY <1>2, <1>3, <1>4 DEF NewestAt
<1>6. PICK place \in Nat : place = n - i + 1 /\ place \in 1 .. Len(asked)
  <2>1. 1 \in 1 .. Len(ids) /\ Len(asked) \in Nat
    BY <1>1, <1>4
  <2>2. n - i + 1 <= Len(asked) /\ n - i + 1 >= 1 /\ n - i + 1 \in Nat
    BY <1>3, <1>4, <2>1
  <2>3. QED
    BY <2>1, <2>2
<1>7. PICK id \in CallIds : id = Head(ids) /\ id = <<r, place>>
  <2>1. 1 \in 1 .. Len(ids) /\ Head(ids) = ids[1]
    BY <1>1
  <2>2. ids[1] = asked[place]
    BY <1>3, <1>4, <1>6, <2>1
  <2>3. <<r, place>> \in CallIds
    BY <1>1 DEF CallIds
  <2>4. QED
    BY <1>5, <1>6, <2>1, <2>2, <2>3
<1>8. PICK result \in Messages :
         /\ result = Result(id) /\ result.role = "tool" /\ result.calls = <<>> /\ result.of = id /\ IsResult(result)
  <2>1. <<>> \in Seq(CallIds)
    OBVIOUS
  <2>2. Result(id) \in Messages
    BY <2>1 DEF Result, Message, Messages
  <2>3. id # NoId
    BY <1>1, <1>7 DEF NoId
  <2>4. QED
    BY <2>2, <2>3 DEF Result, Message, IsResult
<1>9. PICK more \in Seq(Messages) :
         /\ more = Append(list, result) /\ Len(more) = n + 1 /\ more[n + 1] = result
         /\ \A k \in 1 .. n : more[k] = list[k]
  <2>1. /\ Append(list, result) \in Seq(Messages) /\ Len(Append(list, result)) = Len(list) + 1
        /\ \A k \in 1 .. Len(list) : Append(list, result)[k] = list[k]
        /\ Append(list, result)[Len(list) + 1] = result
    BY <1>1, AppendProperties
  <2>2. QED
    BY <1>2, <2>1
<1>10. /\ more = Append(list, Result(Head(ids)))
       /\ \A k \in 1 .. n + 1 : k \in 1 .. n \/ k = n + 1
  <2>1. result = Result(Head(ids))
    BY <1>7, <1>8
  <2>2. more = Append(list, Result(Head(ids)))
    BY <1>9, <2>1
  <2>3. \A k \in 1 .. n + 1 : k \in 1 .. n \/ k = n + 1
    OBVIOUS
  <2>4. QED
    BY <2>2, <2>3
<1>11. NewestAt(more, r, i)
  <2>1. i \in 1 .. n + 1 /\ more[i] = list[i]
    BY <1>9
  <2>2. \A k \in i + 1 .. n + 1 : IsResult(more[k])
    <3>1. SUFFICES ASSUME NEW k \in i + 1 .. n + 1 PROVE IsResult(more[k])
      OBVIOUS
    <3>2. CASE k = n + 1
      BY <1>8, <1>9, <3>2
    <3>3. CASE k # n + 1
      <4>1. k \in i + 1 .. n /\ k \in 1 .. n
        BY <3>3
      <4>2. QED
        BY <1>5, <1>9, <4>1
    <3>4. QED
      BY <3>2, <3>3
  <2>3. \A k \in 1 .. i : more[k].of[1] # r
    <3>1. \A k \in 1 .. i : k \in 1 .. n
      OBVIOUS
    <3>2. QED
      BY <1>5, <1>9, <3>1
  <2>4. QED
    BY <1>4, <1>5, <1>9, <2>1, <2>2, <2>3 DEF NewestAt
<1>12. Answers(more, n + 1, i)
  <2>1. more[i] = list[i] /\ n + 1 - i = place
    BY <1>6, <1>9
  <2>2. \A k \in i + 1 .. n + 1 : IsResult(more[k])
    BY <1>9, <1>11 DEF NewestAt
  <2>3. more[n + 1].of = asked[place] /\ place <= Len(asked)
    <3>1. asked[place] = <<r, place>> /\ place <= Len(asked)
      BY <1>5, <1>6
    <3>2. more[n + 1].of = id
      BY <1>8, <1>9
    <3>3. QED
      BY <1>7, <3>1, <3>2
  <2>4. QED
    BY <1>4, <1>5, <2>1, <2>2, <2>3 DEF Answers
<1>13. \A k \in 1 .. n : \A j \in 1 .. k - 1 : Answers(list, k, j) => Answers(more, k, j)
  BY <1>9, PrefixKeeps
<1>14. WellFormed(more, r)
  <2>1. \A k \in 1 .. n :
           /\ list[k].role = "system" <=> k = 1
           /\ list[k].role = "tool" <=> IsResult(list[k])
           /\ list[k].calls # <<>> => list[k].role = "assistant"
           /\ list[k].of[1] <= r \/ list[k].of[1] > MaxReplies
           /\ IsResult(list[k]) => \E j \in 1 .. k - 1 : Answers(list, k, j)
    BY <1>2 DEF WellFormed
  <2>2. ASSUME NEW k \in 1 .. n + 1
        PROVE  /\ more[k].role = "system" <=> k = 1
               /\ more[k].role = "tool" <=> IsResult(more[k])
               /\ more[k].calls # <<>> => more[k].role = "assistant"
               /\ more[k].of[1] <= r \/ more[k].of[1] > MaxReplies
               /\ IsResult(more[k]) => \E j \in 1 .. k - 1 : Answers(more, k, j)
    <3>1. CASE k = n + 1
      <4>1. more[k].of[1] = r /\ n + 1 # 1 /\ i \in 1 .. k - 1
        BY <1>2, <1>7, <1>8, <1>9, <3>1
      <4>2. QED
        BY <1>1, <1>8, <1>9, <1>12, <3>1, <4>1
    <3>2. CASE k \in 1 .. n
      BY <1>9, <1>13, <2>1, <3>2
    <3>3. QED
      BY <1>10, <3>1, <3>2
  <2>3. n + 1 >= 2 /\ i \in 1 .. n + 1
    BY <1>2
  <2>4. \A k \in 1 .. Len(more) :
               /\ more[k].role = "system" <=> k = 1
               /\ more[k].role = "tool" <=> IsResult(more[k])
               /\ more[k].calls # <<>> => more[k].role = "assistant"
               /\ more[k].of[1] <= r \/ more[k].of[1] > MaxReplies
               /\ IsResult(more[k]) => \E j \in 1 .. k - 1 : Answers(more, k, j)
    BY <1>9, <2>2
  <2>5. \E k \in 1 .. Len(more) : NewestAt(more, r, k)
    BY <1>9, <1>11, <2>3
  <2>6. QED
    BY <1>9, <2>3, <2>4, <2>5 DEF WellFormed
<1>15. Following(more, r, Tail(ids))
  <2>1. PICK rest \in Seq(CallIds) :
           /\ rest = Tail(ids) /\ Len(rest) = Len(ids) - 1 /\ \A p \in 1 .. Len(rest) : rest[p] = ids[p + 1]
    <3>1. Tail(ids) \in Seq(CallIds) /\ Len(Tail(ids)) = Len(ids) - 1
          /\ \A p \in 1 .. Len(Tail(ids)) : Tail(ids)[p] = ids[p + 1]
      BY <1>1, HeadTailProperties
    <3>2. QED
      BY <3>1
  <2>2. ASSUME NEW p \in 1 .. Len(rest)
        PROVE  n + 1 - i + p <= Len(asked) /\ rest[p] = asked[n + 1 - i + p]
    <3>1. p + 1 \in 1 .. Len(ids) /\ n - i + (p + 1) = n + 1 - i + p
      BY <1>1, <2>1
    <3>2. QED
      BY <1>3, <1>4, <2>1, <3>1
  <2>3. more[i].calls = asked /\ i \in 1 .. n + 1
    BY <1>4, <1>9
  <2>4. \A p \in 1 .. Len(rest) :
           Len(more) - i + p <= Len(more[i].calls) /\ rest[p] = more[i].calls[Len(more) - i + p]
    BY <1>9, <2>2, <2>3
  <2>5. i \in 1 .. Len(more)
    BY <1>9, <2>3
  <2>6. Following(more, r, rest)
    BY <1>1, <1>11, <2>4, <2>5 DEF Following
  <2>7. QED
    BY <2>1, <2>6
<1>16. QED
  BY <1>10, <1>14, <1>15

LEMMA ReplyIsAppended ==
  ASSUME NEW r \in 0 .. MaxReplies, r < MaxReplies, NEW list, WellFormed(list, r), NEW size \in Nat \ {0}
  PROVE  /\ Append(list, Message("assistant", Ids(r + 1, size), NoId, "whole")) \in Seq(Messages)
         /\ WellFormed(Append(list, Message("assistant", Ids(r + 1, size), NoId, "whole")), r + 1)
         /\ Following(Append(list, Message("assistant", Ids(r + 1, size), NoId, "whole")), r + 1, Ids(r + 1, size))
<1>1. list \in Seq(Messages) /\ r \in Nat /\ MaxReplies \in Nat
  BY ContextAssumption DEF WellFormed
<1>2. PICK n \in Nat : n = Len(list) /\ n >= 2
  BY <1>1 DEF WellFormed
<1>3. PICK next \in Nat : next = r + 1 /\ next > 0 /\ next <= MaxReplies
  BY <1>1
<1>4. PICK ids \in Seq(CallIds) :
         ids = Ids(next, size) /\ Len(ids) = size /\ \A p \in 1 .. size : ids[p] = <<next, p>>
  <2>1. \A p \in 1 .. size : <<next, p>> \in CallIds
    BY DEF CallIds
  <2>2. [p \in 1 .. size |-> <<next, p>>] \in Seq(CallIds)
    BY <2>1
  <2>3. PICK ids \in Seq(CallIds) : ids = [p \in 1 .. size |-> <<next, p>>]
    BY <2>2
  <2>4. Len(ids) = size /\ \A p \in 1 .. size : ids[p] = <<next, p>>
    BY <2>3
  <2>5. QED
    BY <2>3, <2>4 DEF Ids
<1>5. PICK reply \in Messages :
         /\ reply = Message("assistant", ids, NoId, "whole") /\ reply.role = "assistant" /\ reply.calls = ids
         /\ reply.of[1] = 0 /\ ~IsResult(reply)
  <2>1. NoId \in CallIds
    BY DEF NoId, CallIds
  <2>2. Message("assistant", ids, NoId, "whole") \in Messages
    BY <2>1 DEF Message, Messages
  <2>3. QED
    BY <2>2 DEF Message, IsResult, NoId
<1>6. PICK more \in Seq(Messages) :
         /\ more = Append(list, reply) /\ Len(more) = n + 1 /\ more[n + 1] = reply
         /\ \A k \in 1 .. n : more[k] = list[k]
  <2>1. /\ Append(list, reply) \in Seq(Messages) /\ Len(Append(list, reply)) = Len(list) + 1
        /\ \A k \in 1 .. Len(list) : Append(list, reply)[k] = list[k]
        /\ Append(list, reply)[Len(list) + 1] = reply
    BY <1>1, AppendProperties
  <2>2. QED
    BY <1>2, <2>1
<1>7. /\ more = Append(list, Message("assistant", Ids(r + 1, size), NoId, "whole"))
      /\ \A k \in 1 .. n + 1 : k \in 1 .. n \/ k = n + 1
  BY <1>2, <1>3, <1>4, <1>5, <1>6
<1>8. \A k \in 1 .. n :
         /\ list[k].role = "system" <=> k = 1
         /\ list[k].role = "tool" <=> IsResult(list[k])
         /\ list[k].calls # <<>> => list[k].role = "assistant"
         /\ list[k].of[1] <= r \/ list[k].of[1] > MaxReplies
         /\ IsResult(list[k]) => \E j \in 1 .. k - 1 : Answers(list, k, j)
  BY <1>2 DEF WellFormed
<1>9. \A k \in 1 .. n : list[k].of[1] \in Nat
  <2>1. \A k \in 1 .. n : list[k] \in Messages
    BY <1>1, <1>2
  <2>2. QED
    BY <2>1 DEF Messages, CallIds
<1>10. \A k \in 1 .. n :
          list[k].of[1] # next /\ (list[k].of[1] <= next \/ list[k].of[1] > MaxReplies)
  BY <1>1, <1>3, <1>8, <1>9
<1>11. NewestAt(more, next, n + 1)
  <2>1. ids # <<>> /\ n + 1 \in 1 .. n + 1
    BY <1>4
  <2>2. \A k \in n + 1 + 1 .. n + 1 : IsResult(more[k])
    OBVIOUS
  <2>3. \A k \in 1 .. n + 1 : more[k].of[1] # next
    BY <1>3, <1>5, <1>6, <1>7, <1>10
  <2>4. QED
    BY <1>4, <1>5, <1>6, <2>1, <2>2, <2>3 DEF NewestAt
<1>12. \A k \in 1 .. n : \A j \in 1 .. k - 1 : Answers(list, k, j) => Answers(more, k, j)
  BY <1>6, PrefixKeeps
<1>13. WellFormed(more, next)
  <2>1. ASSUME NEW k \in 1 .. n + 1
        PROVE  /\ more[k].role = "system" <=> k = 1
               /\ more[k].role = "tool" <=> IsResult(more[k])
               /\ more[k].calls # <<>> => more[k].role = "assistant"
               /\ more[k].of[1] <= next \/ more[k].of[1] > MaxReplies
               /\ IsResult(more[k]) => \E j \in 1 .. k - 1 : Answers(more, k, j)
    <3>1. CASE k = n + 1
      <4>1. n + 1 # 1 /\ 0 <= next
        BY <1>2
      <4>2. QED
        BY <1>5, <1>6, <3>1, <4>1
    <3>2. CASE k \in 1 .. n
      BY <1>6, <1>8, <1>10, <1>12, <3>2
    <3>3. QED
      BY <1>7, <3>1, <3>2
  <2>2. n + 1 >= 2 /\ n + 1 \in 1 .. n + 1
    BY <1>2
  <2>3. \A k \in 1 .. Len(more) :
               /\ more[k].role = "system" <=> k = 1
               /\ more[k].role = "tool" <=> IsResult(more[k])
               /\ more[k].calls # <<>> => more[k].role = "assistant"
               /\ more[k].of[1] <= next \/ more[k].of[1] > MaxReplies
               /\ IsResult(more[k]) => \E j \in 1 .. k - 1 : Answers(more, k, j)
    BY <1>6, <2>1
  <2>4. \E k \in 1 .. Len(more) : NewestAt(more, next, k)
    BY <1>6, <1>11, <2>2
  <2>5. QED
    BY <1>6, <2>2, <2>3, <2>4 DEF WellFormed
<1>14. Following(more, next, ids)
  <2>1. \A p \in 1 .. Len(ids) : n + 1 - (n + 1) + p = p /\ p <= Len(ids)
    BY <1>4
  <2>2. more[n + 1].calls = ids /\ n + 1 \in 1 .. n + 1
    BY <1>5, <1>6
  <2>3. QED
    BY <1>3, <1>6, <1>11, <2>1, <2>2 DEF Following
<1>15. QED
  BY <1>3, <1>4, <1>7, <1>13, <1>14

\* Where a context is cut: at a message that is no result, behind the first two, and not
\* behind the newest reply.
LEMMA CutIsBeforeNewest ==
  ASSUME NEW r, NEW list, WellFormed(list, r), Len(list) > 8, Split(list) # {}
  PROVE  LET first == CHOOSE i \in Split(list) : TRUE
         IN  /\ first \in 3 .. Len(list) /\ ~IsResult(list[first])
             /\ \A i \in 1 .. Len(list) : NewestAt(list, r, i) => first <= i
<1> DEFINE first == CHOOSE i \in Split(list) : TRUE
<1>1. list \in Seq(Messages)
  BY DEF WellFormed
<1>2. PICK n \in Nat : n = Len(list) /\ n > 8 /\ DOMAIN list = 1 .. n
  BY <1>1
<1>3. \A i \in 1 .. n : list[i].role = "tool" <=> IsResult(list[i])
  BY <1>2 DEF WellFormed
<1>4. PICK outside \in SUBSET (1 .. n) : outside = {i \in 1 .. n : list[i].role # "tool"}
  OBVIOUS
<1>5. 1 \in outside
  <2>1. list[1].role = "system"
    BY <1>2 DEF WellFormed
  <2>2. QED
    BY <1>2, <1>4, <2>1
<1>6. PICK wanted \in Nat : wanted = n - 5 /\ wanted >= 4
  BY <1>2
<1>7. PICK after \in SUBSET (1 .. n), ahead \in SUBSET (1 .. n) :
         after = {i \in outside : i >= wanted} /\ ahead = {i \in outside : i < wanted}
  BY <1>4
<1>8. Split(list) = IF after # {} THEN {Min(after)} ELSE {Max(ahead)} \ {1, 2}
  BY <1>2, <1>4, <1>6, <1>7 DEF Split
<1>9. first \in Split(list)
  OBVIOUS
<1> HIDE DEF first
<1>10. first \in outside /\ first \in 3 .. n
  <2>1. CASE after # {}
    <3>1. after \in SUBSET Nat
      BY <1>7
    <3>2. PICK least \in after : \A k \in after : least <= k
      BY <2>1, <3>1, HasSmallest
    <3>3. Min(after) = least
      <4>1. after \in SUBSET Int
        BY <3>1
      <4>2. QED
        BY <3>2, <4>1, SmallestIs
    <3>4. first = least
      BY <1>8, <1>9, <2>1, <3>3
    <3>5. least \in 1 .. n /\ least >= wanted /\ least \in outside
      BY <1>7, <3>2
    <3>6. QED
      BY <1>6, <3>4, <3>5
  <2>2. CASE after = {}
    <3>1. 1 \in ahead
      BY <1>5, <1>6, <1>7
    <3>2. ahead \in SUBSET (0 .. n)
      BY <1>7
    <3>3. PICK last \in ahead : \A k \in ahead : k <= last
      BY <3>1, <3>2, HasLargest
    <3>4. Max(ahead) = last
      <4>1. ahead \in SUBSET Int
        BY <3>2
      <4>2. QED
        BY <3>3, <4>1, LargestIs
    <3>5. first = last /\ first \notin {1, 2}
      BY <1>8, <1>9, <2>2, <3>4
    <3>6. last \in 1 .. n /\ last \in outside
      BY <1>7, <3>3
    <3>7. QED
      BY <3>5, <3>6
  <2>3. QED
    BY <2>1, <2>2
<1>11. ~IsResult(list[first])
  BY <1>3, <1>4, <1>10
<1>12. ASSUME NEW i \in 1 .. n, NewestAt(list, r, i)
       PROVE  first <= i
  <2>1. SUFFICES ASSUME ~(first <= i) PROVE FALSE
    OBVIOUS
  <2>2. first \in i + 1 .. n
    BY <1>10, <2>1
  <2>3. QED
    BY <1>2, <1>11, <1>12, <2>2 DEF NewestAt
<1>13. QED
  BY <1>2, <1>10, <1>11, <1>12 DEF first

LEMMA CompactedIsWell ==
  ASSUME NEW r \in 0 .. MaxReplies, NEW list, WellFormed(list, r)
  PROVE  WellFormed(Compacted(list), r) /\ Len(Compacted(list)) <= Len(list)
<1>1. list \in Seq(Messages) /\ r \in Nat /\ MaxReplies \in Nat
  BY ContextAssumption DEF WellFormed
<1>2. PICK n \in Nat : n = Len(list) /\ n >= 2
  BY <1>1 DEF WellFormed
<1>3. CASE Len(list) <= 8 \/ Split(list) = {}
  BY <1>2, <1>3 DEF Compacted
<1>4. CASE ~(Len(list) <= 8 \/ Split(list) = {})
  <2>1. PICK first \in 3 .. n :
           /\ first = (CHOOSE i \in Split(list) : TRUE) /\ ~IsResult(list[first])
           /\ \A i \in 1 .. n : NewestAt(list, r, i) => first <= i
    <3>1. Len(list) > 8
      BY <1>2, <1>4
    <3>2. QED
      BY <1>2, <1>4, <3>1, CutIsBeforeNewest
  <2>2. PICK d \in Nat : d = first - 3 /\ first = d + 3 /\ d + 3 <= n
    OBVIOUS
  <2>3. PICK m \in Nat : m = n - d /\ m >= 3 /\ m <= n /\ n = m + d
    BY <2>2
  <2>4. PICK summary \in Messages :
           /\ summary = Text("user") /\ summary.role = "user" /\ summary.calls = <<>> /\ ~IsResult(summary)
           /\ summary.of[1] = 0
    <3>1. <<>> \in Seq(CallIds) /\ NoId \in CallIds
      BY DEF CallIds, NoId
    <3>2. Text("user") \in Messages
      BY <3>1 DEF Text, Message, Messages
    <3>3. QED
      BY <3>2 DEF Text, Message, IsResult, NoId
  <2>5. list[1] \in Messages
    BY <1>1, <1>2
  <2>6. PICK head \in Seq(Messages) :
           head = <<list[1], summary>> /\ Len(head) = 2 /\ head[1] = list[1] /\ head[2] = summary
    <3>1. <<list[1], summary>> \in Seq(Messages)
      BY <2>4, <2>5
    <3>2. QED
      BY <3>1
  <2>7. PICK rest \in Seq(Messages) :
           /\ rest = SubSeq(list, first, n) /\ Len(rest) = m - 2
           /\ \A k \in 1 .. m - 2 : rest[k] = list[k + d + 2]
    <3>1. \A k \in first .. n : list[k] \in Messages
      <4>1. \A k \in first .. n : k \in 1 .. n
        OBVIOUS
      <4>2. QED
        BY <1>1, <1>2, <4>1
    <3>2. /\ SubSeq(list, first, n) \in Seq(Messages)
          /\ Len(SubSeq(list, first, n)) = IF first <= n THEN n - first + 1 ELSE 0
          /\ \A k \in 1 .. n - first + 1 : SubSeq(list, first, n)[k] = list[first + k - 1]
      <4>1. first \in Int /\ n \in Int
        OBVIOUS
      <4>2. QED
        BY <3>1, <4>1, SubSeqProperties
    <3>3. (IF first <= n THEN n - first + 1 ELSE 0) = m - 2 /\ n - first + 1 = m - 2
      BY <2>2, <2>3
    <3>4. \A k \in 1 .. m - 2 : first + k - 1 = k + d + 2
      BY <2>2, <2>3
    <3>5. QED
      BY <3>2, <3>3, <3>4
  <2>8. PICK other \in Seq(Messages) :
           /\ other = head \o rest /\ Len(other) = m /\ other[1] = list[1] /\ other[2] = summary
           /\ \A k \in 3 .. m : other[k] = list[k + d]
    <3>1. /\ head \o rest \in Seq(Messages) /\ Len(head \o rest) = Len(head) + Len(rest)
          /\ \A k \in 1 .. Len(head) + Len(rest) :
                (head \o rest)[k] = IF k <= Len(head) THEN head[k] ELSE rest[k - Len(head)]
      BY ConcatProperties
    <3>2. Len(head) + Len(rest) = m
      BY <2>3, <2>6, <2>7
    <3>3. \A k \in 1 .. m : (head \o rest)[k] = IF k <= 2 THEN head[k] ELSE rest[k - 2]
      BY <2>6, <3>1, <3>2
    <3>4. (head \o rest)[1] = list[1] /\ (head \o rest)[2] = summary
      BY <2>3, <2>6, <3>3
    <3>5. \A k \in 3 .. m : (head \o rest)[k] = list[k + d]
      <4>1. \A k \in 3 .. m : k \in 1 .. m /\ ~(k <= 2) /\ k - 2 \in 1 .. m - 2 /\ (k - 2) + d + 2 = k + d
        BY <2>3
      <4>2. QED
        BY <2>7, <3>3, <4>1
    <3>6. QED
      BY <3>1, <3>2, <3>4, <3>5
  <2>9. Compacted(list) = other
    BY <1>2, <1>4, <2>1, <2>4, <2>6, <2>7, <2>8 DEF Compacted
  <2>10. \A k \in 1 .. n :
           /\ list[k].role = "system" <=> k = 1
           /\ list[k].role = "tool" <=> IsResult(list[k])
           /\ list[k].calls # <<>> => list[k].role = "assistant"
           /\ list[k].of[1] <= r \/ list[k].of[1] > MaxReplies
           /\ IsResult(list[k]) => \E j \in 1 .. k - 1 : Answers(list, k, j)
    BY <1>2 DEF WellFormed
  <2>11. \A k \in 3 .. m : k + d \in 1 .. n /\ k + d # 1
    BY <2>3
  <2>12. ASSUME NEW k \in 3 .. m, NEW j \in 1 .. k + d - 1, Answers(list, k + d, j)
         PROVE  \E i \in 1 .. k - 1 : Answers(other, k, i)
    <3>1. j >= d + 3
      <4>1. SUFFICES ASSUME ~(j >= d + 3) PROVE FALSE
        OBVIOUS
      <4>2. first \in j + 1 .. k + d
        BY <2>2, <4>1
      <4>3. QED
        BY <2>1, <2>12, <4>2 DEF Answers
    <3>2. PICK i \in 3 .. k - 1 : i = j - d /\ i + d = j
      BY <3>1
    <3>3. other[i] = list[j] /\ other[k] = list[k + d] /\ k - i = k + d - j
      <4>1. i \in 3 .. m
        OBVIOUS
      <4>2. k - i = k + d - j
        BY <3>2
      <4>3. QED
        BY <2>8, <3>2, <4>1, <4>2
    <3>4. \A q \in i + 1 .. k : IsResult(other[q])
      <4>1. \A q \in i + 1 .. k : q \in 3 .. m /\ q + d \in j + 1 .. k + d
        BY <3>2
      <4>2. QED
        BY <2>8, <2>12, <4>1 DEF Answers
    <3>5. Answers(other, k, i)
      <4>1. /\ ~IsResult(list[j]) /\ k + d - j <= Len(list[j].calls)
            /\ list[k + d].of = list[j].calls[k + d - j]
        BY <2>12 DEF Answers
      <4>2. /\ ~IsResult(other[i]) /\ k - i <= Len(other[i].calls)
            /\ other[k].of = other[i].calls[k - i]
        BY <3>3, <4>1
      <4>3. QED
        BY <3>4, <4>2 DEF Answers
    <3>6. i \in 1 .. k - 1
      OBVIOUS
    <3>7. QED
      BY <3>5, <3>6
  <2>13. ASSUME NEW k \in 1 .. m
         PROVE  /\ other[k].role = "system" <=> k = 1
                /\ other[k].role = "tool" <=> IsResult(other[k])
                /\ other[k].calls # <<>> => other[k].role = "assistant"
                /\ other[k].of[1] <= r \/ other[k].of[1] > MaxReplies
                /\ IsResult(other[k]) => \E j \in 1 .. k - 1 : Answers(other, k, j)
    <3>1. CASE k = 1
      <4>1. 1 \in 1 .. n /\ 1 .. 1 - 1 = {}
        BY <1>2
      <4>2. ~IsResult(list[1])
        BY <2>10, <4>1
      <4>3. QED
        BY <2>8, <2>10, <3>1, <4>1, <4>2
    <3>2. CASE k = 2
      <4>1. 0 <= r
        BY <1>1
      <4>2. QED
        BY <2>4, <2>8, <3>2, <4>1
    <3>3. CASE k \in 3 .. m
      <4>1. other[k] = list[k + d] /\ k + d \in 1 .. n /\ k + d # 1 /\ k # 1
        BY <2>8, <2>11, <3>3
      <4>2. /\ other[k].role = "system" <=> k = 1
            /\ other[k].role = "tool" <=> IsResult(other[k])
            /\ other[k].calls # <<>> => other[k].role = "assistant"
            /\ other[k].of[1] <= r \/ other[k].of[1] > MaxReplies
        BY <2>10, <4>1
      <4>3. IsResult(other[k]) => \E j \in 1 .. k - 1 : Answers(other, k, j)
        <5>1. SUFFICES ASSUME IsResult(other[k]) PROVE \E j \in 1 .. k - 1 : Answers(other, k, j)
          OBVIOUS
        <5>2. IsResult(list[k + d])
          BY <4>1, <5>1
        <5>3. PICK j \in 1 .. k + d - 1 : Answers(list, k + d, j)
          BY <2>10, <4>1, <5>2
        <5>4. QED
          BY <2>12, <3>3, <5>3
      <4>4. QED
        BY <4>2, <4>3
    <3>4. k = 1 \/ k = 2 \/ k \in 3 .. m
      BY <2>3
    <3>5. QED
      BY <3>1, <3>2, <3>3, <3>4
  <2>14. ASSUME r > 0
         PROVE  \E i \in 1 .. m : NewestAt(other, r, i)
    <3>1. PICK i \in 1 .. n : NewestAt(list, r, i) /\ first <= i
      <4>1. PICK i \in 1 .. n : NewestAt(list, r, i)
        BY <1>2, <2>14 DEF WellFormed
      <4>2. QED
        BY <2>1, <4>1
    <3>2. PICK j \in 3 .. m : j = i - d /\ j + d = i
      BY <2>2, <2>3, <3>1
    <3>3. other[j] = list[i]
      BY <2>8, <3>2
    <3>4. \A k \in j + 1 .. m : IsResult(other[k])
      <4>1. \A k \in j + 1 .. m : k \in 3 .. m /\ k + d \in i + 1 .. n
        BY <2>3, <3>2
      <4>2. QED
        BY <1>2, <2>8, <3>1, <4>1 DEF NewestAt
    <3>5. \A k \in 1 .. j : other[k].of[1] # r
      <4>1. ASSUME NEW k \in 1 .. j PROVE other[k].of[1] # r
        <5>1. CASE k = 1
          <6>1. 1 \in 1 .. i
            OBVIOUS
          <6>2. QED
            BY <2>8, <3>1, <5>1, <6>1 DEF NewestAt
        <5>2. CASE k = 2
          BY <1>1, <2>4, <2>8, <2>14, <5>2
        <5>3. CASE k \in 3 .. m
          <6>1. k + d \in 1 .. i
            BY <3>2, <5>3
          <6>2. QED
            BY <2>8, <3>1, <5>3, <6>1 DEF NewestAt
        <5>4. k = 1 \/ k = 2 \/ k \in 3 .. m
          OBVIOUS
        <5>5. QED
          BY <5>1, <5>2, <5>3, <5>4
      <4>2. QED
        BY <4>1
    <3>6. j \in 1 .. Len(other) /\ j \in 1 .. m
      BY <2>8
    <3>7. NewestAt(other, r, j)
      BY <2>8, <3>1, <3>3, <3>4, <3>5, <3>6 DEF NewestAt
    <3>8. QED
      BY <3>6, <3>7
  <2>15. WellFormed(other, r)
    <3>1. Len(other) >= 2
      BY <2>3, <2>8
    <3>2. \A k \in 1 .. Len(other) :
                /\ other[k].role = "system" <=> k = 1
                /\ other[k].role = "tool" <=> IsResult(other[k])
                /\ other[k].calls # <<>> => other[k].role = "assistant"
                /\ other[k].of[1] <= r \/ other[k].of[1] > MaxReplies
                /\ IsResult(other[k]) => \E j \in 1 .. k - 1 : Answers(other, k, j)
      BY <2>8, <2>13
    <3>3. r > 0 => \E i \in 1 .. Len(other) : NewestAt(other, r, i)
      BY <2>8, <2>14
    <3>4. QED
      BY <3>1, <3>2, <3>3 DEF WellFormed
  <2>16. QED
    BY <1>2, <2>3, <2>8, <2>9, <2>15
<1>5. QED
  BY <1>3, <1>4

\* What is repaired and normalized: of a whole context, nothing.
LEMMA WholeIsNotRepaired ==
  ASSUME NEW r, NEW list, WellFormed(list, r)
  PROVE  Normalized(Repaired(list)) = list
<1>1. list \in Seq(Messages)
  BY DEF WellFormed
<1>2. PICK n \in Nat : n = Len(list) /\ n >= 2 /\ DOMAIN list = 1 .. n
  BY <1>1 DEF WellFormed
<1>3. list = [k \in 1 .. n |-> list[k]]
  BY <1>1, <1>2
<1>4. ASSUME NEW i \in 1 .. n, IsResult(list[i])
      PROVE  list[i].of \in Range(list[ReplyOf(list, i)].calls)
  <2>1. PICK j \in 1 .. i - 1 : Answers(list, i, j)
    BY <1>2, <1>4 DEF WellFormed
  <2>2. ReplyOf(list, i) = j
    BY <2>1, ReplyIsFound
  <2>3. list[j] \in Messages
    BY <1>1, <1>2
  <2>4. PICK asked \in Seq(CallIds) : asked = list[j].calls
    BY <2>3 DEF Messages
  <2>5. i - j <= Len(asked) /\ list[i].of = asked[i - j]
    BY <2>1, <2>4 DEF Answers
  <2>6. i - j \in DOMAIN asked
    BY <2>5
  <2>7. list[i].of \in Range(asked)
    BY <2>5, <2>6 DEF Range
  <2>8. QED
    BY <2>2, <2>4, <2>7
<1>5. {i \in DOMAIN list : IsResult(list[i]) => list[i].of \in Range(list[ReplyOf(list, i)].calls)} = 1 .. n
  BY <1>2, <1>4
<1>6. Only(list, 1 .. n) = list
  BY <1>3, OnlyFirst
<1>7. Repaired(list) = list
  BY <1>5, <1>6 DEF Repaired
<1>8. \A i \in 1 .. n : ~(i > 1 /\ list[i].role = "system")
  BY <1>2 DEF WellFormed
<1>9. Normalized(list) = [i \in 1 .. n |-> list[i]]
  BY <1>2, <1>8 DEF Normalized
<1>10. QED
  BY <1>3, <1>7, <1>9

LEMMA PlainMessages ==
  /\ \A role \in {"system", "user", "assistant", "tool"} :
        /\ Text(role) \in Messages /\ Text(role).role = role /\ Text(role).calls = <<>>
        /\ ~IsResult(Text(role)) /\ Text(role).of = <<0, 0>>
  /\ \A number \in Nat \ {0} :
        /\ Result(<<number, 1>>) \in Messages /\ Result(<<number, 1>>).role = "tool"
        /\ Result(<<number, 1>>).calls = <<>> /\ IsResult(Result(<<number, 1>>))
        /\ Result(<<number, 1>>).of = <<number, 1>>
        /\ Message("assistant", <<<<number, 1>>>>, NoId, "none") \in Messages
<1>1. <<>> \in Seq(CallIds) /\ NoId \in CallIds
  BY DEF CallIds, NoId
<1>2. ASSUME NEW role \in {"system", "user", "assistant", "tool"}
      PROVE  /\ Text(role) \in Messages /\ Text(role).role = role /\ Text(role).calls = <<>>
             /\ ~IsResult(Text(role)) /\ Text(role).of = <<0, 0>>
  <2>1. Text(role) = [role |-> role, calls |-> <<>>, of |-> NoId, reasoning |-> "none"]
    BY DEF Text, Message
  <2>2. Text(role) \in Messages
    BY <1>1, <2>1 DEF Messages
  <2>3. QED
    BY <2>1, <2>2 DEF IsResult, NoId
<1>3. ASSUME NEW number \in Nat \ {0}
      PROVE  /\ Result(<<number, 1>>) \in Messages /\ Result(<<number, 1>>).role = "tool"
             /\ Result(<<number, 1>>).calls = <<>> /\ IsResult(Result(<<number, 1>>))
             /\ Result(<<number, 1>>).of = <<number, 1>>
             /\ Message("assistant", <<<<number, 1>>>>, NoId, "none") \in Messages
  <2>1. Result(<<number, 1>>) = [role |-> "tool", calls |-> <<>>, of |-> <<number, 1>>, reasoning |-> "none"]
    BY DEF Result, Message
  <2>2. <<number, 1>> \in CallIds
    BY DEF CallIds
  <2>3. Result(<<number, 1>>) \in Messages
    <3>1. PICK id \in CallIds : id = <<number, 1>>
      BY <2>2
    <3>2. [role |-> "tool", calls |-> <<>>, of |-> id, reasoning |-> "none"] \in Messages
      BY <1>1 DEF Messages
    <3>3. QED
      BY <2>1, <3>1, <3>2
  <2>4. <<<<number, 1>>>> \in Seq(CallIds)
    BY <2>2
  <2>5. Message("assistant", <<<<number, 1>>>>, NoId, "none") \in Messages
    BY <1>1, <2>4 DEF Message, Messages
  <2>6. <<number, 1>> # <<0, 0>>
    OBVIOUS
  <2>7. QED
    BY <2>1, <2>3, <2>5, <2>6 DEF IsResult, NoId
<1>4. QED
  BY <1>2, <1>3

\* Two messages of no call are a whole context, and a reply with its only result after them
\* is one too.
LEMMA StartIsWell ==
  /\ WellFormed(Started, 0)
  /\ \A number \in Nat : number > MaxReplies =>
        WellFormed(<<Text("system"), Text("user"), Message("assistant", <<<<number, 1>>>>, NoId, "none"),
                     Result(<<number, 1>>)>>, 0)
<1>1. MaxReplies \in Nat
  BY ContextAssumption
<1>2. WellFormed(Started, 0)
  <2>1. Started \in Seq(Messages) /\ Len(Started) = 2
    BY PlainMessages DEF Started
  <2>2. Started[1] = Text("system") /\ Started[2] = Text("user")
    BY DEF Started
  <2>3. \A i \in 1 .. 2 : i = 1 \/ i = 2
    OBVIOUS
  <2>4. \A i \in 1 .. Len(Started) :
            /\ Started[i].role = "system" <=> i = 1
            /\ Started[i].role = "tool" <=> IsResult(Started[i])
            /\ Started[i].calls # <<>> => Started[i].role = "assistant"
            /\ Started[i].of[1] <= 0
            /\ ~IsResult(Started[i])
    BY <2>1, <2>2, <2>3, PlainMessages
  <2>5. QED
    BY <2>1, <2>4 DEF WellFormed
<1>3. ASSUME NEW number \in Nat, number > MaxReplies
      PROVE  WellFormed(<<Text("system"), Text("user"), Message("assistant", <<<<number, 1>>>>, NoId, "none"),
                         Result(<<number, 1>>)>>, 0)
  <2>1. PICK reply \in Messages :
           /\ reply = Message("assistant", <<<<number, 1>>>>, NoId, "none") /\ reply.role = "assistant"
           /\ reply.calls = <<<<number, 1>>>> /\ reply.of = <<0, 0>> /\ ~IsResult(reply)
    <3>1. number \in Nat \ {0}
      BY <1>1, <1>3
    <3>2. Message("assistant", <<<<number, 1>>>>, NoId, "none") \in Messages
      BY <3>1, PlainMessages
    <3>3. QED
      BY <3>2 DEF Message, IsResult, NoId
  <2>2. PICK result \in Messages :
           /\ result = Result(<<number, 1>>) /\ result.role = "tool" /\ result.calls = <<>> /\ IsResult(result)
           /\ result.of = <<number, 1>>
    <3>1. number \in Nat \ {0}
      BY <1>1, <1>3
    <3>2. QED
      BY <3>1, PlainMessages
  <2>3. Text("system") \in Messages /\ Text("user") \in Messages
    BY PlainMessages
  <2>4. PICK list \in Seq(Messages) :
           /\ list = <<Text("system"), Text("user"), reply, result>> /\ Len(list) = 4
           /\ list[1] = Text("system") /\ list[2] = Text("user") /\ list[3] = reply /\ list[4] = result
    <3>1. <<Text("system"), Text("user"), reply, result>> \in Seq(Messages)
      BY <2>3
    <3>2. QED
      BY <3>1
  <2>5. \A i \in 1 .. 4 : i = 1 \/ i = 2 \/ i = 3 \/ i = 4
    OBVIOUS
  <2>6. Answers(list, 4, 3)
    <3>1. \A k \in 3 + 1 .. 4 : k = 4
      OBVIOUS
    <3>2. 4 - 3 <= Len(reply.calls) /\ result.of = reply.calls[4 - 3]
      <4>1. PICK id : id = <<number, 1>>
        OBVIOUS
      <4>2. reply.calls = <<id>> /\ result.of = id
        BY <2>1, <2>2, <4>1
      <4>3. Len(<<id>>) = 1 /\ <<id>>[1] = id
        OBVIOUS
      <4>4. QED
        BY <4>2, <4>3
    <3>3. QED
      BY <2>1, <2>2, <2>4, <3>1, <3>2 DEF Answers
  <2>7. ASSUME NEW i \in 1 .. 4
        PROVE  /\ list[i].role = "system" <=> i = 1
               /\ list[i].role = "tool" <=> IsResult(list[i])
               /\ list[i].calls # <<>> => list[i].role = "assistant"
               /\ list[i].of[1] <= 0 \/ list[i].of[1] > MaxReplies
               /\ IsResult(list[i]) => \E j \in 1 .. i - 1 : Answers(list, i, j)
    <3>1. CASE i = 1
      BY <2>4, <3>1, PlainMessages
    <3>2. CASE i = 2
      BY <2>4, <3>2, PlainMessages
    <3>3. CASE i = 3
      BY <2>1, <2>4, <3>3
    <3>4. CASE i = 4
      <4>1. 3 \in 1 .. i - 1 /\ i # 1
        BY <3>4
      <4>2. list[i].of[1] > MaxReplies
        BY <1>3, <2>2, <2>4, <3>4
      <4>3. IsResult(list[i]) /\ list[i].role = "tool" /\ list[i].calls = <<>>
        BY <2>2, <2>4, <3>4
      <4>4. Answers(list, i, 3)
        BY <2>6, <3>4
      <4>5. QED
        BY <4>1, <4>2, <4>3, <4>4
    <3>5. QED
      BY <2>5, <3>1, <3>2, <3>3, <3>4
  <2>8. Len(list) >= 2
    BY <2>4
  <2>9. WellFormed(list, 0)
    BY <2>4, <2>7, <2>8 DEF WellFormed
  <2>10. QED
    BY <2>1, <2>2, <2>4, <2>9
<1>4. QED
  BY <1>2, <1>3

\* Of what an older Core cut, the result whose reply was cut away goes, and its summary is
\* said by the user.
LEMMA OlderIsRepaired ==
  ASSUME NEW list \in CutByOlderCore
  PROVE  WellFormed(Normalized(Repaired(list)), 0)
<1>1. PICK lost \in Nat \ {0}, number \in Nat :
         lost = MaxReplies + 1 /\ number = MaxReplies + 2 /\ number > MaxReplies /\ number # 0
  BY ContextAssumption
<1>2. PICK result : result = Result(<<lost, 1>>) /\ IsResult(result)
  BY PlainMessages
<1>3. PICK first : first = Text("system") /\ first.role = "system" /\ first.calls = <<>> /\ ~IsResult(first)
  BY PlainMessages
<1>4. PICK reply : /\ reply = Message("assistant", <<<<number, 1>>>>, NoId, "none") /\ reply.role = "assistant"
                   /\ reply.calls = <<<<number, 1>>>> /\ ~IsResult(reply)
  <2>1. PICK asked : asked = <<<<number, 1>>>>
    OBVIOUS
  <2>2. Message("assistant", asked, NoId, "none") = [role |-> "assistant", calls |-> asked, of |-> NoId, reasoning |-> "none"]
    BY DEF Message
  <2>3. QED
    BY <2>1, <2>2 DEF IsResult
<1>5. PICK final : final = Result(<<number, 1>>) /\ IsResult(final) /\ final.role = "tool" /\ final.of = <<number, 1>>
  BY <1>1, PlainMessages
<1>6. list = <<first, first, result>> \/ list = <<first, first, result, reply, final>>
  <2>1. list = <<first, first, result>> \/ list = <<first, first, result>> \o <<reply, final>>
    BY <1>1, <1>2, <1>3, <1>4, <1>5 DEF CutByOlderCore
  <2>2. <<first, first, result>> \o <<reply, final>> = <<first, first, result, reply, final>>
    <3> DEFINE S == {first, result, reply, final}
    <3>1. PICK left \in Seq(S), right \in Seq(S), both \in Seq(S) :
             /\ left = <<first, first, result>> /\ right = <<reply, final>>
             /\ both = <<first, first, result, reply, final>>
             /\ Len(left) = 3 /\ Len(right) = 2 /\ Len(both) = 5
             /\ left[1] = first /\ left[2] = first /\ left[3] = result /\ right[1] = reply /\ right[2] = final
             /\ both[1] = first /\ both[2] = first /\ both[3] = result /\ both[4] = reply /\ both[5] = final
      <4>1. /\ <<first, first, result>> \in Seq(S) /\ <<reply, final>> \in Seq(S)
            /\ <<first, first, result, reply, final>> \in Seq(S)
        OBVIOUS
      <4>2. QED
        BY <4>1
    <3> HIDE DEF S
    <3>2. /\ left \o right \in Seq(S) /\ Len(left \o right) = Len(left) + Len(right)
          /\ \A k \in 1 .. Len(left) + Len(right) :
                (left \o right)[k] = IF k <= Len(left) THEN left[k] ELSE right[k - Len(left)]
      BY ConcatProperties
    <3>3. Len(left \o right) = 5 /\ \A k \in 1 .. 5 : (left \o right)[k] = IF k <= 3 THEN left[k] ELSE right[k - 3]
      BY <3>1, <3>2
    <3>4. \A k \in 1 .. 5 : k = 1 \/ k = 2 \/ k = 3 \/ k = 4 \/ k = 5
      OBVIOUS
    <3>5. \A k \in 1 .. 5 : (left \o right)[k] = both[k]
      <4>1. /\ (left \o right)[1] = left[1] /\ (left \o right)[2] = left[2] /\ (left \o right)[3] = left[3]
            /\ (left \o right)[4] = right[1] /\ (left \o right)[5] = right[2]
        BY <3>3
      <4>2. QED
        BY <3>1, <3>4, <4>1
    <3>6. left \o right = both
      <4>1. PICK joined \in Seq(S) : joined = left \o right /\ Len(joined) = 5
        BY <3>2, <3>3
      <4>2. \A k \in 1 .. 5 : joined[k] = both[k]
        BY <3>5, <4>1
      <4>3. joined = [k \in 1 .. 5 |-> joined[k]] /\ both = [k \in 1 .. 5 |-> both[k]]
        BY <3>1, <4>1
      <4>4. QED
        BY <4>1, <4>2, <4>3
    <3>7. QED
      BY <3>1, <3>6
  <2>3. QED
    BY <2>1, <2>2
<1>7. ASSUME list[1] = first, list[2] = first, list[3] = result
      PROVE  list[3].of \notin Range(list[ReplyOf(list, 3)].calls)
  <2> DEFINE S == {k \in 1 .. 3 - 1 : ~IsResult(list[k])} \cup {0}
  <2>1. S \in SUBSET Int /\ 2 \in S /\ \A k \in S : k <= 2
    BY <1>3, <1>7
  <2>2. Max(S) = 2
    <3> HIDE DEF S
    <3> QED
      BY <2>1, LargestIs
  <2>3. ReplyOf(list, 3) = 2
    BY <2>2 DEF ReplyOf
  <2>4. list[2].calls = <<>>
    BY <1>3, <1>7
  <2>5. Range(<<>>) = {}
    BY DEF Range
  <2>6. QED
    BY <2>3, <2>4, <2>5
<1> DEFINE places == {i \in DOMAIN list : IsResult(list[i]) => list[i].of \in Range(list[ReplyOf(list, i)].calls)}
<1>8. CASE list = <<first, first, result>>
  <2>1. list[1] = first /\ list[2] = first /\ list[3] = result /\ DOMAIN list = 1 .. 3
    BY <1>8
  <2>2. \A i \in 1 .. 3 : i = 1 \/ i = 2 \/ i = 3
    OBVIOUS
  <2>3. 1 \in places /\ 2 \in places /\ 3 \notin places
    BY <1>2, <1>3, <1>7, <2>1
  <2>4. places = 1 .. 2
    BY <2>1, <2>2, <2>3
  <2>5. Repaired(list) = [k \in 1 .. 2 |-> list[k]]
    <3>1. Only(list, 1 .. 2) = [k \in 1 .. 2 |-> list[k]]
      BY OnlyFirst
    <3>2. QED
      BY <2>4, <3>1 DEF Repaired
  <2>6. PICK kept : kept = Repaired(list) /\ DOMAIN kept = 1 .. 2 /\ kept[1] = first /\ kept[2] = first
    BY <2>1, <2>5
  <2>7. Normalized(kept) = [i \in 1 .. 2 |-> IF i = 1 THEN first ELSE Text("user")]
    BY <1>3, <2>6, <2>2 DEF Normalized
  <2>8. Started = [i \in 1 .. 2 |-> IF i = 1 THEN first ELSE Text("user")]
    BY <1>3 DEF Started
  <2>9. QED
    BY <2>6, <2>7, <2>8, StartIsWell
<1>9. CASE list = <<first, first, result, reply, final>>
  <2>1. /\ list[1] = first /\ list[2] = first /\ list[3] = result /\ list[4] = reply /\ list[5] = final
        /\ DOMAIN list = 1 .. 5
    BY <1>9
  <2>2. \A i \in 1 .. 5 : i = 1 \/ i = 2 \/ i = 3 \/ i = 4 \/ i = 5
    OBVIOUS
  <2>3. list[5].of \in Range(list[ReplyOf(list, 5)].calls)
    <3> DEFINE S == {k \in 1 .. 5 - 1 : ~IsResult(list[k])} \cup {0}
    <3>1. S \in SUBSET Int /\ 4 \in S /\ \A k \in S : k <= 4
      BY <1>4, <2>1
    <3>2. Max(S) = 4
      <4> HIDE DEF S
      <4> QED
        BY <3>1, LargestIs
    <3>3. ReplyOf(list, 5) = 4
      BY <3>2 DEF ReplyOf
    <3>4. PICK id : id = <<number, 1>>
      OBVIOUS
    <3>5. list[4].calls = <<id>> /\ list[5].of = id
      BY <1>4, <1>5, <2>1, <3>4
    <3>6. id \in Range(<<id>>)
      <4>1. 1 \in DOMAIN <<id>> /\ <<id>>[1] = id
        OBVIOUS
      <4>2. QED
        BY <4>1 DEF Range
    <3>7. QED
      BY <3>3, <3>5, <3>6
  <2>4. 1 \in places /\ 2 \in places /\ 3 \notin places /\ 4 \in places /\ 5 \in places
    BY <1>2, <1>3, <1>4, <1>7, <2>1, <2>3
  <2>5. places = {1, 2, 4, 5}
    BY <2>1, <2>2, <2>4
  <2>6. Repaired(list) = <<first, first, reply, final>>
    <3>1. Only(list, {1, 2, 4, 5}) = <<list[1], list[2], list[4], list[5]>>
      BY OnlyAround
    <3>2. QED
      BY <2>1, <2>5, <3>1 DEF Repaired
  <2>7. PICK kept : /\ kept = Repaired(list) /\ DOMAIN kept = 1 .. 4 /\ kept[1] = first /\ kept[2] = first
                    /\ kept[3] = reply /\ kept[4] = final
    BY <2>6
  <2>8. PICK mended : /\ mended = <<first, Text("user"), reply, final>> /\ DOMAIN mended = 1 .. 4
                     /\ mended[1] = first /\ mended[2] = Text("user") /\ mended[3] = reply /\ mended[4] = final
    <3>1. PICK user : user = Text("user")
      OBVIOUS
    <3>2. PICK mended : mended = <<first, user, reply, final>>
      OBVIOUS
    <3>3. DOMAIN mended = 1 .. 4 /\ mended[1] = first /\ mended[2] = user /\ mended[3] = reply /\ mended[4] = final
      BY <3>2
    <3>4. QED
      BY <3>1, <3>2, <3>3
  <2>9. \A i \in 1 .. 4 : (IF i > 1 /\ kept[i].role = "system" THEN Text("user") ELSE kept[i]) = mended[i]
    <3>1. \A i \in 1 .. 4 : i = 1 \/ i = 2 \/ i = 3 \/ i = 4
      OBVIOUS
    <3>2. reply.role # "system" /\ final.role # "system" /\ first.role = "system"
      BY <1>3, <1>4, <1>5
    <3>3. QED
      BY <2>7, <2>8, <3>1, <3>2
  <2>10. Normalized(kept) = [i \in 1 .. 4 |-> mended[i]]
    BY <2>7, <2>9 DEF Normalized
  <2>11. mended = [i \in 1 .. 4 |-> mended[i]]
    BY <2>8
  <2>12. WellFormed(mended, 0)
    BY <1>1, <1>3, <1>4, <1>5, <2>8, StartIsWell
  <2>13. QED
    BY <2>7, <2>10, <2>11, <2>12
<1>10. QED
  BY <1>6, <1>8, <1>9

\* Each of the first n messages that is a result answers a call before it.
AllAnswer(list, n) == \A i \in 1 .. n : IsResult(list[i]) => \E j \in 1 .. i - 1 : Answers(list, i, j)

\* Each result follows the reply that asked for it, at the place of its call there.
ResultsFollow(sent) ==
    \A i \in DOMAIN sent : IsResult(sent[i]) =>
        LET j == ReplyOf(sent, i)
        IN j > 0 /\ i - j <= Len(sent[j].calls) /\ sent[i].of = sent[j].calls[i - j]

\* Whatever a protocol does with the fields it tells nothing by, results follow their calls
\* in what is sent as they do in the context.
LEMMA ResultsAreFound ==
  ASSUME NEW n \in Nat, NEW list, NEW sent, DOMAIN sent = 1 .. n,
         \A i \in 1 .. n : sent[i].of = list[i].of /\ sent[i].calls = list[i].calls,
         AllAnswer(list, n)
  PROVE  ResultsFollow(sent)
<1> USE DEF AllAnswer
<1>1. ASSUME NEW i \in 1 .. n, IsResult(sent[i])
      PROVE  LET j == ReplyOf(sent, i)
             IN j > 0 /\ i - j <= Len(sent[j].calls) /\ sent[i].of = sent[j].calls[i - j]
  <2>1. IsResult(list[i])
    BY <1>1 DEF IsResult
  <2>2. PICK j \in 1 .. i - 1 : Answers(list, i, j)
    BY <2>1
  <2>3. j \in 1 .. n /\ \A k \in j + 1 .. i : k \in 1 .. n
    OBVIOUS
  <2>4. ~IsResult(sent[j]) /\ \A k \in j + 1 .. i : IsResult(sent[k])
    BY <2>2, <2>3 DEF Answers, IsResult
  <2>5. i - j <= Len(list[j].calls) /\ list[i].of = list[j].calls[i - j]
    BY <2>2 DEF Answers
  <2>6. i - j <= Len(sent[j].calls) /\ sent[i].of = sent[j].calls[i - j]
    BY <2>3, <2>5
  <2>7. Answers(sent, i, j)
    BY <2>4, <2>6 DEF Answers
  <2>8. ReplyOf(sent, i) = j
    BY <2>7, ReplyIsFound
  <2>9. j > 0
    OBVIOUS
  <2>10. QED
    BY <2>6, <2>8, <2>9
<1>2. QED
  BY <1>1 DEF ResultsFollow

LEMMA SentIsSound ==
  ASSUME NEW r, NEW list, WellFormed(list, r), NEW wire \in Wires
  PROVE  LET sent == Request(wire, list)
         IN \A i \in DOMAIN sent :
                /\ IsResult(sent[i]) =>
                    LET j == ReplyOf(sent, i)
                    IN j > 0 /\ i - j <= Len(sent[j].calls) /\ sent[i].of = sent[j].calls[i - j]
                /\ wire = "thinking" /\ sent[i].calls # <<>> => sent[i].reasoning # "none"
<1>1. list \in Seq(Messages)
  BY DEF WellFormed
<1>2. PICK n \in Nat : n = Len(list) /\ n >= 2 /\ DOMAIN list = 1 .. n
  BY <1>1 DEF WellFormed
<1>3. \A i \in 1 .. n : list[i] \in Messages
  BY <1>1, <1>2
<1>4. \A i \in 1 .. n :
         /\ list[i].role = "system" <=> i = 1
         /\ list[i].calls # <<>> => list[i].role = "assistant"
         /\ IsResult(list[i]) => \E j \in 1 .. i - 1 : Answers(list, i, j)
  BY <1>2 DEF WellFormed
<1> DEFINE sent == Request(wire, list)
<1>5. CASE wire # "anthropic"
  <2>1. /\ DOMAIN sent = 1 .. n
        /\ \A i \in 1 .. n : sent[i].of = list[i].of /\ sent[i].calls = list[i].calls
        /\ wire = "thinking" => \A i \in 1 .. n : sent[i].calls # <<>> => sent[i].reasoning # "none"
    <3>1. CASE wire = "ollama"
      <4>1. sent = [i \in 1 .. n |-> [list[i] EXCEPT !.reasoning = "none"]]
        BY <1>2, <3>1 DEF Request, OllamaMessages
      <4>2. \A i \in 1 .. n : sent[i].of = list[i].of /\ sent[i].calls = list[i].calls
        BY <1>3, <4>1 DEF Messages
      <4>3. DOMAIN sent = 1 .. n
        BY <4>1
      <4>4. QED
        BY <3>1, <4>2, <4>3
    <3>2. CASE wire = "openai"
      <4>1. sent = [i \in 1 .. n |-> [list[i] EXCEPT !.reasoning = "none"]]
        <5>1. sent = OpenAiMessages(list, FALSE)
          BY <3>2 DEF Request
        <5>2. QED
          BY <1>2, <5>1 DEF OpenAiMessages
      <4>2. \A i \in 1 .. n : sent[i].of = list[i].of /\ sent[i].calls = list[i].calls
        BY <1>3, <4>1 DEF Messages
      <4>3. DOMAIN sent = 1 .. n
        BY <4>1
      <4>4. QED
        BY <3>2, <4>2, <4>3
    <3>3. CASE wire = "thinking"
      <4>1. sent = [i \in 1 .. n |-> [list[i] EXCEPT !.reasoning =
                        IF @ = "none" /\ list[i].calls # <<>> THEN "empty" ELSE @]]
        <5>1. sent = OpenAiMessages(list, TRUE)
          BY <3>3 DEF Request
        <5>2. QED
          BY <1>2, <5>1 DEF OpenAiMessages
      <4>2. \A i \in 1 .. n :
               /\ sent[i].of = list[i].of /\ sent[i].calls = list[i].calls
               /\ sent[i].calls # <<>> => sent[i].reasoning # "none"
        BY <1>3, <4>1 DEF Messages
      <4>3. DOMAIN sent = 1 .. n
        BY <4>1
      <4>4. QED
        BY <4>2, <4>3
    <3>4. QED
      BY <1>5, <3>1, <3>2, <3>3 DEF Wires
  <2> HIDE DEF sent
  <2>2. ResultsFollow(sent)
    <3>1. PICK told : told = sent
      OBVIOUS
    <3>2. DOMAIN told = 1 .. n /\ \A i \in 1 .. n : told[i].of = list[i].of /\ told[i].calls = list[i].calls
      BY <2>1, <3>1
    <3>3. AllAnswer(list, n)
      BY <1>4 DEF AllAnswer
    <3>4. ResultsFollow(told)
      BY <3>2, <3>3, ResultsAreFound
    <3>5. QED
      BY <3>1, <3>4
  <2>3. QED
    BY <2>1, <2>2 DEF sent, ResultsFollow
<1>6. CASE wire = "anthropic"
  <2>1. {i \in DOMAIN list : list[i].role # "system"} = 2 .. n
    BY <1>2, <1>4
  <2>2. PICK said : said = [k \in 1 .. n - 1 |-> list[k + 1]]
    OBVIOUS
  <2>3. Only(list, 2 .. n) = said
    BY <1>2, <2>2, OnlyRest
  <2>4. sent = [i \in DOMAIN said |->
                   [said[i] EXCEPT !.reasoning = "none", !.role = IF @ = "tool" THEN "user" ELSE @]]
    <3>1. sent = AnthropicMessages(list)
      BY <1>6 DEF Request
    <3>2. QED
      BY <2>1, <2>3, <3>1 DEF AnthropicMessages
  <2>5. PICK m \in Nat : m = n - 1
    BY <1>2
  <2>6. DOMAIN said = 1 .. m /\ \A k \in 1 .. m : k + 1 \in 1 .. n /\ said[k] = list[k + 1]
    BY <2>2, <2>5
  <2>7. \A i \in 1 .. m : said[i] \in Messages
    BY <1>3, <2>6
  <2>8. DOMAIN sent = 1 .. m /\ \A i \in 1 .. m : sent[i].of = said[i].of /\ sent[i].calls = said[i].calls
    <3>1. DOMAIN sent = 1 .. m
      BY <2>4, <2>6
    <3>2. ASSUME NEW i \in 1 .. m PROVE sent[i].of = said[i].of /\ sent[i].calls = said[i].calls
      <4>1. PICK message \in Messages : message = said[i]
        BY <2>7
      <4>2. PICK role : role = IF message.role = "tool" THEN "user" ELSE message.role
        OBVIOUS
      <4>3. sent[i] = [message EXCEPT !.reasoning = "none", !.role = role]
        BY <2>4, <2>6, <4>1, <4>2
      <4>4. QED
        BY <4>1, <4>3 DEF Messages
    <3>3. QED
      BY <3>1, <3>2
  <2>9. ASSUME NEW i \in 1 .. m, IsResult(said[i])
        PROVE  \E j \in 1 .. i - 1 : Answers(said, i, j)
    <3>1. i + 1 \in 1 .. n /\ said[i] = list[i + 1]
      BY <2>6
    <3>2. PICK j \in 1 .. (i + 1) - 1 : Answers(list, i + 1, j)
      BY <1>4, <2>9, <3>1
    <3>3. ~IsResult(list[j]) /\ i + 1 - j <= Len(list[j].calls) /\ list[i + 1].of = list[j].calls[i + 1 - j]
      BY <3>2 DEF Answers
    <3>4. j # 1
      <4>1. SUFFICES ASSUME j = 1 PROVE FALSE
        OBVIOUS
      <4>2. list[1].role = "system" /\ 1 \in 1 .. n
        BY <1>2, <1>4
      <4>3. list[1].calls = <<>>
        BY <1>4, <4>2
      <4>4. Len(list[j].calls) = 0
        BY <4>1, <4>3
      <4>5. i + 1 - j > 0
        OBVIOUS
      <4>6. QED
        BY <3>3, <4>4, <4>5
    <3>5. PICK q \in 1 .. i - 1 : q = j - 1 /\ q + 1 = j /\ i - q = i + 1 - j
      BY <3>4
    <3>6. said[q] = list[j]
      BY <2>6, <3>5
    <3>7. \A k \in q + 1 .. i : IsResult(said[k])
      <4>1. \A k \in q + 1 .. i : k \in 1 .. m /\ k + 1 \in j + 1 .. i + 1
        BY <3>5
      <4>2. QED
        BY <2>6, <3>2, <4>1 DEF Answers
    <3>8. ~IsResult(said[q]) /\ i - q <= Len(said[q].calls) /\ said[i].of = said[q].calls[i - q]
      BY <3>1, <3>3, <3>5, <3>6
    <3>9. Answers(said, i, q)
      BY <3>7, <3>8 DEF Answers
    <3>10. QED
      BY <3>9
  <2> HIDE DEF sent
  <2>10. ResultsFollow(sent)
    <3>1. PICK told : told = sent
      OBVIOUS
    <3>2. DOMAIN told = 1 .. m /\ \A i \in 1 .. m : told[i].of = said[i].of /\ told[i].calls = said[i].calls
      BY <2>8, <3>1
    <3>3. AllAnswer(said, m)
      BY <2>9 DEF AllAnswer
    <3>4. ResultsFollow(told)
      BY <3>2, <3>3, ResultsAreFound
    <3>5. QED
      BY <3>1, <3>4
  <2>11. QED
    BY <1>6, <2>10 DEF sent, ResultsFollow
<1>7. QED
  BY <1>5, <1>6

\* The results of the newest reply are the messages behind it.
LEMMA NewestResults ==
  ASSUME NEW r, NEW list, WellFormed(list, r), NEW i \in 1 .. Len(list), NewestAt(list, r, i)
  PROVE  /\ list[i].calls # <<>> /\ list[i].calls[1][1] = r
         /\ i + Cardinality({k \in DOMAIN list : list[k].of[1] = r}) = Len(list)
<1>1. list \in Seq(Messages)
  BY DEF WellFormed
<1>2. PICK n \in Nat : n = Len(list) /\ n >= 2 /\ DOMAIN list = 1 .. n
  BY <1>1 DEF WellFormed
<1>3. PICK asked \in Seq(CallIds) : asked = list[i].calls
  <2>1. list[i] \in Messages
    BY <1>1, <1>2
  <2>2. QED
    BY <2>1 DEF Messages
<1>4. asked # <<>> /\ \A p \in 1 .. Len(asked) : asked[p] = <<r, p>>
  BY <1>3 DEF NewestAt
<1>5. asked[1] = <<r, 1>>
  <2>1. 1 \in 1 .. Len(asked)
    BY <1>4
  <2>2. QED
    BY <1>4, <2>1
<1>6. ASSUME NEW k \in i + 1 .. n
      PROVE  list[k].of[1] = r
  <2>1. IsResult(list[k]) /\ k \in 1 .. n
    BY <1>2 DEF NewestAt
  <2>2. PICK j \in 1 .. k - 1 : Answers(list, k, j)
    BY <1>2, <2>1 DEF WellFormed
  <2>3. j = i
    <3>1. ~(j > i)
      <4>1. SUFFICES ASSUME j > i PROVE FALSE
        OBVIOUS
      <4>2. j \in i + 1 .. n
        BY <4>1
      <4>3. IsResult(list[j])
        BY <1>2, <4>2 DEF NewestAt
      <4>4. QED
        BY <2>2, <4>3 DEF Answers
    <3>2. ~(j < i)
      <4>1. SUFFICES ASSUME j < i PROVE FALSE
        OBVIOUS
      <4>2. i \in j + 1 .. k
        BY <4>1
      <4>3. IsResult(list[i])
        BY <2>2, <4>2 DEF Answers
      <4>4. QED
        BY <4>3 DEF NewestAt
    <3>3. QED
      BY <3>1, <3>2
  <2>4. k - i <= Len(asked) /\ list[k].of = asked[k - i]
    BY <1>3, <2>2, <2>3 DEF Answers
  <2>5. k - i \in 1 .. Len(asked)
    BY <2>4
  <2>6. list[k].of = <<r, k - i>>
    BY <1>4, <2>4, <2>5
  <2>7. QED
    BY <2>6
<1>7. \A k \in 1 .. i : list[k].of[1] # r
  BY DEF NewestAt
<1>8. {k \in DOMAIN list : list[k].of[1] = r} = i + 1 .. n
  <2>1. \A k \in 1 .. n : k \in 1 .. i \/ k \in i + 1 .. n
    OBVIOUS
  <2>2. \A k \in i + 1 .. n : k \in 1 .. n
    OBVIOUS
  <2>3. QED
    BY <1>2, <1>6, <1>7, <2>1, <2>2
<1>9. Cardinality(i + 1 .. n) = n - i
  <2>1. i + 1 \in Int /\ n \in Int
    OBVIOUS
  <2>2. Cardinality(i + 1 .. n) = IF i + 1 > n THEN 0 ELSE n - (i + 1) + 1
    BY <2>1, FS_Interval
  <2>3. QED
    BY <1>2, <2>2
<1>10. i + (n - i) = n
  OBVIOUS
<1>11. list[i].calls[1][1] = r
  BY <1>3, <1>5
<1>12. QED
  BY <1>2, <1>3, <1>4, <1>8, <1>9, <1>10, <1>11

\* A context and its replies fit together, and the results of these calls may follow.
Whole(c) == WellFormed(c.messages, c.replies)
Awaits(c, ids) == Following(c.messages, c.replies, ids)

\* A checkpoint holds the context it is made of.
LEMMA KeptIsWhole ==
  ASSUME NEW c \in Contexts, NEW k, k = [c EXCEPT !.messages = Redacted(@)]
  PROVE  /\ k \in Contexts
         /\ Whole(c) => Whole(k)
         /\ \A ids : Awaits(c, ids) => Awaits(k, ids)
<1>1. c.messages \in Seq(Messages) /\ c.replies \in 0 .. MaxReplies
  BY DEF Contexts
<1>2. Redacted(c.messages) \in Seq(Messages)
  BY <1>1, RedactedIsWell
<1>3. k \in Contexts /\ k.messages = Redacted(c.messages) /\ k.replies = c.replies
  BY <1>2 DEF Contexts
<1>4. WellFormed(c.messages, c.replies) => WellFormed(Redacted(c.messages), c.replies)
  BY <1>1, RedactedIsWell
<1>5. \A ids : Following(c.messages, c.replies, ids) => Following(Redacted(c.messages), c.replies, ids)
  BY <1>1, RedactedIsWell
<1>6. QED
  BY <1>3, <1>4, <1>5 DEF Whole, Awaits

\* What becomes of a context that is told a result it awaits.
LEMMA ToldIsWhole ==
  ASSUME NEW c \in Contexts, Whole(c), NEW ids, Awaits(c, ids), ids # <<>>,
         NEW d, d = [c EXCEPT !.messages = Append(@, Result(Head(ids)))]
  PROVE  d \in Contexts /\ Whole(d) /\ Awaits(d, Tail(ids))
<1>1. c.messages \in Seq(Messages) /\ c.replies \in 0 .. MaxReplies
  BY DEF Contexts
<1>2. /\ Append(c.messages, Result(Head(ids))) \in Seq(Messages)
      /\ WellFormed(Append(c.messages, Result(Head(ids))), c.replies)
      /\ Following(Append(c.messages, Result(Head(ids))), c.replies, Tail(ids))
  BY <1>1, ResultIsAppended DEF Whole, Awaits
<1>3. d \in Contexts /\ d.messages = Append(c.messages, Result(Head(ids))) /\ d.replies = c.replies
  BY <1>2 DEF Contexts
<1>4. QED
  BY <1>2, <1>3 DEF Whole, Awaits

LEMMA FirstIsAwaited ==
  ASSUME NEW c, NEW ids, Awaits(c, ids), ids # <<>>
  PROVE  Awaits(c, <<Head(ids)>>)
<1>1. ids \in Seq(CallIds)
  BY DEF Awaits, Following
<1>2. PICK first \in CallIds : first = Head(ids) /\ first = ids[1] /\ 1 \in 1 .. Len(ids)
  BY <1>1
<1>3. <<first>> \in Seq(CallIds) /\ Len(<<first>>) = 1 /\ <<first>>[1] = first
  BY <1>2
<1>4. PICK one \in Seq(CallIds) : one = <<first>> /\ Len(one) = 1 /\ one[1] = ids[1]
  BY <1>2, <1>3
<1>5. PICK i \in 1 .. Len(c.messages) :
          /\ NewestAt(c.messages, c.replies, i)
          /\ \A p \in 1 .. Len(ids) :
                /\ Len(c.messages) - i + p <= Len(c.messages[i].calls)
                /\ ids[p] = c.messages[i].calls[Len(c.messages) - i + p]
  BY DEF Awaits, Following
<1>6. \A p \in 1 .. Len(one) :
                /\ Len(c.messages) - i + p <= Len(c.messages[i].calls)
                /\ one[p] = c.messages[i].calls[Len(c.messages) - i + p]
  <2>1. \A p \in 1 .. Len(one) : p = 1
    BY <1>4
  <2>2. QED
    BY <1>2, <1>4, <1>5, <2>1
<1>7. Following(c.messages, c.replies, one)
  BY <1>4, <1>5, <1>6 DEF Awaits, Following
<1>8. QED
  BY <1>2, <1>4, <1>7 DEF Awaits

LEMMA ContextInvInitially == ContextInit => ContextInv
<1> SUFFICES ASSUME ContextInit PROVE ContextInv
  OBVIOUS
<1>1. MaxReplies \in Nat
  BY ContextAssumption
<1>2. /\ keptContext \in [messages : {Started} \cup CutByOlderCore, replies : {0}] /\ context = keptContext
      /\ openCalls = <<>> /\ waiting = NoId /\ contextPc = "stopped"
  BY DEF ContextInit
<1>3. CutByOlderCore \subseteq Seq(Messages)
  <2>1. PICK lost \in Nat \ {0}, number \in Nat \ {0} : lost = MaxReplies + 1 /\ number = MaxReplies + 2
    BY <1>1
  <2>2. PICK cut : cut = <<Text("system"), Text("system"), Result(<<lost, 1>>)>>
    OBVIOUS
  <2>3. PICK more : more = <<Message("assistant", <<<<number, 1>>>>, NoId, "none"), Result(<<number, 1>>)>>
    OBVIOUS
  <2>4. cut \in Seq(Messages)
    <3>1. Text("system") \in Messages /\ Result(<<lost, 1>>) \in Messages
      BY PlainMessages
    <3>2. QED
      BY <2>2, <3>1
  <2>5. more \in Seq(Messages)
    <3>1. Message("assistant", <<<<number, 1>>>>, NoId, "none") \in Messages /\ Result(<<number, 1>>) \in Messages
      BY PlainMessages
    <3>2. QED
      BY <2>3, <3>1
  <2>6. cut \o more \in Seq(Messages)
    BY <2>4, <2>5
  <2>7. CutByOlderCore = {cut, cut \o more}
    BY <2>1, <2>2, <2>3 DEF CutByOlderCore
  <2>8. QED
    BY <2>4, <2>6, <2>7
<1>4. Started \in Seq(Messages)
  BY StartIsWell DEF WellFormed
<1>5. keptContext \in Contexts
  BY <1>1, <1>2, <1>3, <1>4 DEF Contexts
<1>6. keptContext.messages = Started \/ keptContext.messages \in CutByOlderCore
  BY <1>2
<1>7. keptContext.replies = 0
  BY <1>2
<1>8. WellFormed(keptContext.messages, keptContext.replies) \/ keptContext.messages \in CutByOlderCore
  BY <1>6, <1>7, StartIsWell
<1>9. QED
  BY <1>2, <1>5, <1>7, <1>8 DEF ContextInv

LEMMA LoadKeepsContext == ASSUME ContextInv, LoadContext PROVE ContextInv'
<1>1. keptContext \in Contexts /\ keptContext.messages \in Seq(Messages)
  BY DEF ContextInv, Contexts
<1>2. /\ context' = [keptContext EXCEPT !.messages = Normalized(Repaired(@))]
      /\ keptContext' = [context' EXCEPT !.messages = Redacted(@)]
      /\ contextPc' = IF waiting = NoId THEN "loop" ELSE "resume"
      /\ waiting' = waiting /\ openCalls' = openCalls
  BY DEF LoadContext, Keep
<1>3. context' \in Contexts /\ Whole(context')
  <2>1. CASE WellFormed(keptContext.messages, keptContext.replies)
    <3>1. Normalized(Repaired(keptContext.messages)) = keptContext.messages
      BY <2>1, WholeIsNotRepaired
    <3>2. context' = keptContext
      BY <1>1, <1>2, <3>1 DEF Contexts
    <3>3. QED
      BY <1>1, <2>1, <3>2 DEF Whole
  <2>2. CASE keptContext.messages \in CutByOlderCore /\ keptContext.replies = 0
    <3>1. PICK list : list = Normalized(Repaired(keptContext.messages)) /\ WellFormed(list, 0)
      BY <2>2, OlderIsRepaired
    <3>2. list \in Seq(Messages)
      BY <3>1 DEF WellFormed
    <3>3. context' \in Contexts /\ context'.messages = list /\ context'.replies = 0
      BY <1>1, <1>2, <2>2, <3>1, <3>2 DEF Contexts
    <3>4. QED
      BY <3>1, <3>3 DEF Whole
  <2>3. QED
    BY <2>1, <2>2 DEF ContextInv
<1>4. waiting # NoId => Awaits(context', <<waiting>>)
  <2>1. SUFFICES ASSUME waiting # NoId PROVE Awaits(context', <<waiting>>)
    OBVIOUS
  <2>2. WellFormed(keptContext.messages, keptContext.replies)
    BY <2>1 DEF ContextInv
  <2>3. Normalized(Repaired(keptContext.messages)) = keptContext.messages
    BY <2>2, WholeIsNotRepaired
  <2>4. context' = keptContext
    BY <1>1, <1>2, <2>3 DEF Contexts
  <2>5. QED
    BY <2>1, <2>4 DEF Awaits, ContextInv
<1>5. keptContext' \in Contexts /\ Whole(keptContext') /\ \A ids : Awaits(context', ids) => Awaits(keptContext', ids)
  BY <1>2, <1>3, KeptIsWhole
<1>6. QED
  BY <1>2, <1>3, <1>4, <1>5 DEF ContextInv, Whole, Awaits

LEMMA ResumeKeepsContext == ASSUME ContextInv, ResumeCall PROVE ContextInv'
<1>1. context \in Contexts /\ Whole(context) /\ Awaits(context, <<waiting>>)
  BY DEF ContextInv, ResumeCall, Whole, Awaits
<1>2. /\ context' = [context EXCEPT !.messages = Append(@, Result(waiting))]
      /\ keptContext' = [context' EXCEPT !.messages = Redacted(@)]
      /\ contextPc' = "loop" /\ waiting' = NoId
  BY DEF ResumeCall, TellResult, Keep
<1>3. <<waiting>> # <<>> /\ Head(<<waiting>>) = waiting
  OBVIOUS
<1>4. context' \in Contexts /\ Whole(context')
  BY <1>1, <1>2, <1>3, ToldIsWhole
<1>5. keptContext' \in Contexts /\ Whole(keptContext')
  BY <1>2, <1>4, KeptIsWhole
<1>6. QED
  BY <1>2, <1>4, <1>5 DEF ContextInv, Whole

LEMMA FitKeepsContext == ASSUME ContextInv, FitContext PROVE ContextInv'
<1>1. context \in Contexts /\ Whole(context) /\ waiting = NoId
  BY DEF ContextInv, FitContext, Whole
<1>2. /\ context' = context \/ context' = [context EXCEPT !.messages = Compacted(@)]
      /\ keptContext' = [context' EXCEPT !.messages = Redacted(@)]
      /\ contextPc' = "model" /\ waiting' = NoId
  BY <1>1 DEF FitContext, Keep
<1>3. context' \in Contexts /\ Whole(context')
  <2>1. CASE context' = [context EXCEPT !.messages = Compacted(@)]
    <3>1. context.replies \in 0 .. MaxReplies
      BY <1>1 DEF Contexts
    <3>2. PICK list : list = Compacted(context.messages) /\ WellFormed(list, context.replies)
      BY <1>1, <3>1, CompactedIsWell DEF Whole
    <3>3. list \in Seq(Messages)
      BY <3>2 DEF WellFormed
    <3>4. context' \in Contexts /\ context'.messages = list /\ context'.replies = context.replies
      BY <1>1, <2>1, <3>2, <3>3 DEF Contexts
    <3>5. QED
      BY <3>2, <3>4 DEF Whole
  <2>2. QED
    BY <1>1, <1>2, <2>1
<1>4. keptContext' \in Contexts /\ Whole(keptContext')
  BY <1>2, <1>3, KeptIsWhole
<1>5. QED
  BY <1>2, <1>3, <1>4 DEF ContextInv, Whole

LEMMA ReplyKeepsContext == ASSUME ContextInv, ReplyWithCalls PROVE ContextInv'
<1>1. context \in Contexts /\ Whole(context) /\ waiting = NoId /\ context.replies < MaxReplies
  BY DEF ContextInv, ReplyWithCalls, Whole
<1>2. PICK size \in GroupSizes :
         /\ context' = [messages |-> Append(context.messages,
                                        Message("assistant", Ids(context.replies + 1, size), NoId, "whole")),
                        replies |-> context.replies + 1]
         /\ openCalls' = Ids(context.replies + 1, size)
  BY DEF ReplyWithCalls
<1>3. size \in Nat \ {0} /\ MaxReplies \in Nat
  BY <1>2, ContextAssumption
<1>4. contextPc' = "calls" /\ keptContext' = keptContext /\ waiting' = NoId
  BY <1>1 DEF ReplyWithCalls
<1>5. context.replies \in 0 .. MaxReplies
  BY <1>1 DEF Contexts
<1>6. PICK list \in Seq(Messages) :
         /\ list = Append(context.messages, Message("assistant", Ids(context.replies + 1, size), NoId, "whole"))
         /\ WellFormed(list, context.replies + 1)
         /\ Following(list, context.replies + 1, Ids(context.replies + 1, size))
  BY <1>1, <1>3, <1>5, ReplyIsAppended DEF Whole
<1>7. context' = [messages |-> list, replies |-> context.replies + 1] /\ context.replies + 1 \in 0 .. MaxReplies
  BY <1>1, <1>2, <1>3, <1>5, <1>6
<1>8. context' \in Contexts /\ context'.messages = list /\ context'.replies = context.replies + 1
  BY <1>7 DEF Contexts
<1>9. Whole(context') /\ Awaits(context', openCalls')
  BY <1>2, <1>6, <1>8 DEF Whole, Awaits
<1>10. keptContext \in Contexts /\ Whole(keptContext)
  BY DEF ContextInv, ReplyWithCalls, Whole
<1>11. QED
  BY <1>4, <1>8, <1>9, <1>10 DEF ContextInv, Whole, Awaits

LEMMA CallKeepsContext == ASSUME ContextInv, RefuseCall \/ RunCall PROVE ContextInv'
<1>1. context \in Contexts /\ Whole(context) /\ waiting = NoId /\ Awaits(context, openCalls) /\ openCalls # <<>>
  BY DEF ContextInv, RefuseCall, RunCall, Whole, Awaits
<1>2. /\ context' = [context EXCEPT !.messages = Append(@, Result(Head(openCalls)))]
      /\ openCalls' = Tail(openCalls) /\ contextPc' = "calls" /\ waiting' = NoId
      /\ keptContext' = keptContext \/ keptContext' = [context' EXCEPT !.messages = Redacted(@)]
  BY <1>1 DEF RefuseCall, RunCall, TellResult, Keep
<1>3. context' \in Contexts /\ Whole(context') /\ Awaits(context', openCalls')
  BY <1>1, <1>2, ToldIsWhole
<1>4. keptContext' \in Contexts /\ Whole(keptContext')
  <2>1. keptContext \in Contexts /\ Whole(keptContext)
    BY DEF ContextInv, RefuseCall, RunCall, Whole
  <2>2. QED
    BY <1>2, <1>3, <2>1, KeptIsWhole
<1>5. QED
  BY <1>2, <1>3, <1>4 DEF ContextInv, Whole, Awaits

LEMMA AskKeepsContext == ASSUME ContextInv, AskForCall PROVE ContextInv'
<1>1. context \in Contexts /\ Whole(context) /\ Awaits(context, openCalls) /\ openCalls # <<>>
  BY DEF ContextInv, AskForCall, Whole, Awaits
<1>2. /\ context' = context /\ contextPc' = "stopped" /\ waiting' = Head(openCalls)
      /\ keptContext' = [context EXCEPT !.messages = Redacted(@)]
  BY DEF AskForCall, Keep
<1>3. Awaits(context, <<Head(openCalls)>>)
  BY <1>1, FirstIsAwaited
<1>4. keptContext' \in Contexts /\ Whole(keptContext') /\ Awaits(keptContext', <<Head(openCalls)>>)
  BY <1>1, <1>2, <1>3, KeptIsWhole
<1>5. QED
  BY <1>1, <1>2, <1>4 DEF ContextInv, Whole, Awaits

LEMMA ContextStepKeepsInv == ContextInv /\ [ContextNext]_contextVars => ContextInv'
<1> SUFFICES ASSUME ContextInv, [ContextNext]_contextVars PROVE ContextInv'
  OBVIOUS
<1>1. CASE UNCHANGED contextVars
  BY <1>1 DEF contextVars, ContextInv
<1>2. CASE LoadContext
  BY <1>2, LoadKeepsContext
<1>3. CASE ResumeCall
  BY <1>3, ResumeKeepsContext
<1>4. CASE DenyCall
  BY <1>4 DEF DenyCall, ContextInv
<1>5. CASE FitContext
  BY <1>5, FitKeepsContext
<1>6. CASE ReplyWithCalls
  BY <1>6, ReplyKeepsContext
<1>7. CASE ModelEnds
  BY <1>7 DEF ModelEnds, ContextInv
<1>8. CASE RefuseCall \/ RunCall
  BY <1>8, CallKeepsContext
<1>9. CASE AskForCall
  BY <1>9, AskKeepsContext
<1>10. CASE EndCalls
  BY <1>10 DEF EndCalls, ContextInv
<1>11. CASE StopContext
  BY <1>11 DEF StopContext, ContextInv
<1>12. QED
  BY <1>1, <1>2, <1>3, <1>4, <1>5, <1>6, <1>7, <1>8, <1>9, <1>10, <1>11 DEF ContextNext

\* What is asked of the model next is what its provider takes, if it is short enough.
LEMMA ContextIsSound ==
  ASSUME ContextInv, Len(context.messages) <= 256
  PROVE  ResultsFollowTheirCalls /\ NewestReplyIsKept
<1> SUFFICES ASSUME contextPc = "model" PROVE ResultsFollowTheirCalls /\ NewestReplyIsKept
  BY DEF ResultsFollowTheirCalls, NewestReplyIsKept
<1>1. /\ context \in Contexts /\ WellFormed(context.messages, context.replies)
      /\ keptContext = [context EXCEPT !.messages = Redacted(@)]
  BY DEF ContextInv
<1>2. PICK list, r : list = context.messages /\ r = context.replies
  OBVIOUS
<1>3. list \in Seq(Messages) /\ WellFormed(list, r)
  BY <1>1, <1>2 DEF Contexts
<1>4. PICK n \in Nat : n = Len(list) /\ n >= 2 /\ DOMAIN list = 1 .. n
  BY <1>3 DEF WellFormed
<1>5. \A i \in 1 .. n :
         /\ list[i].role = "system" <=> i = 1
         /\ list[i].role = "tool" <=> IsResult(list[i])
         /\ list[i].calls # <<>> => list[i].role = "assistant"
  BY <1>3, <1>4 DEF WellFormed
<1>6. Sendable(list)
  <2>1. \A m \in Range(list) : \E i \in 1 .. n : m = list[i]
    BY <1>4 DEF Range
  <2>2. \A i \in 1 .. n : (list[i].role = "tool") = IsResult(list[i])
    BY <1>5 DEF IsResult
  <2>3. \A m \in Range(list) : (m.role = "tool") = IsResult(m) /\ (m.calls # <<>> => m.role = "assistant")
    BY <1>5, <2>1, <2>2
  <2>4. list # <<>> /\ Len(list) <= 256
    BY <1>2, <1>4
  <2>5. QED
    BY <2>3, <2>4 DEF Sendable
<1>7. \A i \in DOMAIN list : (list[i].role = "system") = (i = 1)
  BY <1>4, <1>5
<1>8. ResultsFollowTheirCalls
  <2>1. \A wire \in Wires :
            LET sent == Request(wire, list)
            IN \A i \in DOMAIN sent :
                /\ IsResult(sent[i]) =>
                    LET j == ReplyOf(sent, i)
                    IN j > 0 /\ i - j <= Len(sent[j].calls) /\ sent[i].of = sent[j].calls[i - j]
                /\ wire = "thinking" /\ sent[i].calls # <<>> => sent[i].reasoning # "none"
    BY <1>3, SentIsSound
  <2>2. QED
    BY <1>2, <1>6, <1>7, <2>1 DEF ResultsFollowTheirCalls
<1>9. NewestReplyIsKept
  <2>1. SUFFICES ASSUME r > 0
                 PROVE  \E i \in DOMAIN list :
                           /\ list[i].calls # <<>> /\ list[i].calls[1][1] = r
                           /\ i + Cardinality({k \in DOMAIN keptContext.messages : keptContext.messages[k].of[1] = r})
                                  = Len(list)
    BY <1>2 DEF NewestReplyIsKept
  <2>2. PICK i \in 1 .. Len(list) : NewestAt(list, r, i)
    BY <1>3, <2>1 DEF WellFormed
  <2>3. /\ list[i].calls # <<>> /\ list[i].calls[1][1] = r
        /\ i + Cardinality({k \in DOMAIN list : list[k].of[1] = r}) = Len(list)
    BY <1>3, <2>2, NewestResults
  <2>4. keptContext.messages = Redacted(list)
    BY <1>1, <1>2 DEF Contexts
  <2>5. DOMAIN Redacted(list) = 1 .. n /\ \A k \in 1 .. n : Redacted(list)[k].of = list[k].of
    <3>1. \A k \in 1 .. n : list[k] \in Messages
      BY <1>3, <1>4
    <3>2. Redacted(list) = [k \in 1 .. n |-> [list[k] EXCEPT !.reasoning = "none"]]
      BY <1>4 DEF Redacted
    <3>3. QED
      BY <3>1, <3>2 DEF Messages
  <2>6. {k \in DOMAIN keptContext.messages : keptContext.messages[k].of[1] = r} = {k \in DOMAIN list : list[k].of[1] = r}
    BY <1>4, <2>4, <2>5
  <2>7. i \in DOMAIN list
    BY <1>4
  <2>8. QED
    BY <2>3, <2>6, <2>7
<1>10. QED
  BY <1>8, <1>9

-----------------------------------------------------------------------------
(* All of it together.  Every component starts as its invariant says, and a *)
(* step is one of a component or leaves it alone; which component a        *)
(* behaviour is about matters for the Work package only, where it says     *)
(* whether Core may stop.                                                   *)

PackageIsFilled ==
    /\ part \in {"two handoffs", "evidence"} => FilledOrFilling
    /\ part = "one handoff" => FilledBeforeRenamed(h1)

PartsInv ==
    /\ TaskInv /\ WorkInv /\ RestoreInv /\ DeliverablesInv /\ UpdateInv /\ MachineInv
    /\ ContextInv /\ StoreInv /\ ServedIsKnown
    /\ PackageIsFilled

LEMMA PartsInitially == Init => PartsInv
<1> SUFFICES ASSUME Init PROVE PartsInv
  OBVIOUS
<1>1. /\ TaskInit /\ WorkInit /\ RestoreInit /\ DeliverablesInit /\ UpdateInit /\ MachineInit /\ ContextInit
      /\ StoreInit
  BY DEF Init
<1>2. ServedIsKnown
  BY <1>1 DEF StoreInit, NoOpener, ServedIsKnown
<1>3. FilledOrFilling
  BY <1>1 DEF WorkInit, FilledOrFilling
<1>4. FilledBeforeRenamed(h1)
  BY <1>1, EffectsAssumption DEF WorkInit, FilledBeforeRenamed, In, Waiting
<1> QED
  BY <1>1, <1>2, <1>3, <1>4, TaskInvInitially, WorkInvInitially, RestoreInvInitially, DeliverablesInvInitially,
     UpdateInvInitially, MachineInvInitially, ContextInvInitially, StoreInvInitially DEF PartsInv, PackageIsFilled

\* A step of the whole is a step of each component, or leaves it as it is.
LEMMA StepsOfParts ==
  ASSUME [Next]_<<part, FileVars, OtherVars>>
  PROVE  /\ part' = part
         /\ [TaskNext]_taskVars /\ [WorkNext]_workVars /\ [RestoreNext]_restoreVars
         /\ [DeliverablesNext]_deliverableVars /\ [UpdateNext]_updateVars /\ [MachineNext]_machineVars
         /\ [ContextNext]_contextVars /\ [StoreFileNext]_storeVars
         /\ WorkPart \/ UNCHANGED workVars
<1> USE EffectsAssumption
<1>1. CASE UNCHANGED <<part, FileVars, OtherVars>>
  BY <1>1 DEF FileVars, OtherVars
<1>2. CASE Next /\ FileSteps /\ UNCHANGED OtherVars
  <2>1. part' = part
    BY <1>2 DEF Next
  <2>2. UNCHANGED <<deliverableVars, updateVars, machineVars, contextVars, storeVars>>
    BY <1>2 DEF OtherVars
  <2>3. CASE TaskPart /\ UNCHANGED <<workVars, restoreVars>>
    <3>1. TaskNext
      BY <2>3 DEF TaskPart, TaskSteps, TaskRequests, TaskNext
    <3> QED
      BY <2>1, <2>2, <2>3, <3>1
  <2>4. CASE WorkPart /\ UNCHANGED <<taskVars, restoreVars>>
    <3>1. WorkNext
      BY <2>4 DEF WorkPart, HandoffSteps, HandoffRequests, WorkNext
    <3> QED
      BY <2>1, <2>2, <2>4, <3>1
  <2>5. CASE RestorePart /\ UNCHANGED <<taskVars, workVars>>
    BY <2>1, <2>2, <2>5 DEF RestorePart
  <2> QED
    BY <1>2, <2>3, <2>4, <2>5 DEF FileSteps
<1>3. CASE Next /\ OtherSteps /\ UNCHANGED FileVars
  <2>1. part' = part /\ UNCHANGED <<taskVars, workVars, restoreVars>>
    BY <1>3 DEF Next, FileVars
  <2> QED
    BY <1>3, <2>1 DEF OtherSteps
<1> QED
  BY <1>1, <1>2, <1>3 DEF Next

LEMMA PartsStepKeepsInv == PartsInv /\ [Next]_<<part, FileVars, OtherVars>> => PartsInv'
<1> SUFFICES ASSUME PartsInv, [Next]_<<part, FileVars, OtherVars>> PROVE PartsInv'
  OBVIOUS
<1>1. /\ part' = part
      /\ [TaskNext]_taskVars /\ [WorkNext]_workVars /\ [RestoreNext]_restoreVars
      /\ [DeliverablesNext]_deliverableVars /\ [UpdateNext]_updateVars /\ [MachineNext]_machineVars
      /\ [ContextNext]_contextVars /\ [StoreFileNext]_storeVars
      /\ WorkPart \/ UNCHANGED workVars
  BY StepsOfParts
<1>2. /\ TaskInv /\ WorkInv /\ RestoreInv /\ DeliverablesInv /\ UpdateInv /\ MachineInv
      /\ ContextInv /\ StoreInv /\ ServedIsKnown /\ PackageIsFilled
  BY DEF PartsInv
<1>3. TaskInv' /\ WorkInv' /\ RestoreInv'
  BY <1>1, <1>2, TaskStepKeepsInv, WorkStepKeepsInv, RestoreStepKeepsInv
<1>4. DeliverablesInv' /\ UpdateInv' /\ MachineInv'
  BY <1>1, <1>2, DeliverablesStepKeepsInv, UpdateStepKeepsInv, MachineStepKeepsInv
<1>5. ContextInv' /\ StoreInv' /\ ServedIsKnown'
  BY <1>1, <1>2, ContextStepKeepsInv, StoreStepKeepsInv, KnownStaysKnown
<1>6. PackageIsFilled'
  <2>1. CASE UNCHANGED workVars
    <3>1. FilledOrFilling => FilledOrFilling'
      BY <2>1 DEF workVars, fileVars, FilledOrFilling, In
    <3>2. FilledBeforeRenamed(h1) => FilledBeforeRenamed(h1)'
      BY <2>1 DEF workVars, fileVars, FilledBeforeRenamed, In
    <3> QED
      BY <1>1, <1>2, <3>1, <3>2 DEF PackageIsFilled
  <2>2. CASE part = "two handoffs" /\ HandoffSteps(WorkHandlers, FALSE)
    BY <1>1, <1>2, <2>2, FillingIsFinished DEF PackageIsFilled
  <2>3. CASE part = "one handoff" /\ HandoffSteps({h1}, TRUE)
    <3>1. h1 \in WorkHandlers
      BY EffectsAssumption
    <3>2. FilledBeforeRenamed(h1)'
      BY <1>2, <2>3, <3>1, FilledStaysFilled DEF PackageIsFilled
    <3> QED
      BY <1>1, <2>3, <3>2 DEF PackageIsFilled
  <2>4. CASE part = "evidence" /\ (EvidenceSteps \/ PlanSteps(h1))
    <3>1. EvidenceSteps \/ \E h \in WorkHandlers : PlanSteps(h)
      BY <2>4, EffectsAssumption
    <3> QED
      BY <1>1, <1>2, <2>4, <3>1, FillingIsFinished DEF PackageIsFilled
  <2> QED
    BY <1>1, <2>1, <2>2, <2>3, <2>4 DEF WorkPart
<1> QED
  BY <1>3, <1>4, <1>5, <1>6 DEF PartsInv

LEMMA PartsAlways == Spec => []PartsInv
  BY PartsInitially, PartsStepKeepsInv, PTL DEF Spec

\* A note is written, a package or an artifact handed out and a tool run only as the user
\* has reviewed it or the run allows (accept_task_change, export_work_handoff, the exports
\* of the Research and PPT workflows, execute_tool of restork-core): a change of a task is
\* applied once for an approval of it, on the Vault it was approved on; the exported file
\* is whole, of the package that is recorded, and its approval is used up; what is exported
\* was reviewed in the revision and the look it has; and the machine is within its limits.
THEOREM ReviewedIsAlwaysWritten == Spec => []ReviewedIsWritten
<1>1. PartsInv => ReviewedIsWritten
  <2> SUFFICES ASSUME PartsInv PROVE ReviewedIsWritten
    OBVIOUS
  <2>1. WritesAreApprovedOnce
    BY DEF PartsInv, TaskInv, WrittenInv, WritesAreApprovedOnce
  <2>2. part \in WorkParts => ExportIsWhole
    <3>1. h1 \in WorkHandlers
      BY EffectsAssumption
    <3>2. ASSUME part \in WorkParts
          PROVE  FilledOrFilling \/ FilledBeforeRenamed(h1)
      BY <3>2 DEF WorkParts, PartsInv, PackageIsFilled
    <3> QED
      BY <3>1, <3>2, WholeIsExported DEF PartsInv
  <2>3. ReviewedIsExportable
    BY DeliverablesAreSound DEF PartsInv
  <2>4. ToolRunsAsAllowed /\ LimitsHold /\ TurnsAreAccounted
    BY DEF PartsInv, MachineInv
  <2> QED
    BY <2>1, <2>2, <2>3, <2>4 DEF ReviewedIsWritten
<1> QED
  BY <1>1, PartsAlways, PTL

\* What is installed was asked for by the user and was verified, whatever is published,
\* withdrawn or cancelled meanwhile, and the ledger names no file that is gone until a
\* cancelled download has written beside another (updates.rs); a migrated store has a whole backup
\* of what it held, and is served by a Core that knows its schema (restork-storage).
THEOREM UpdatesAreAlwaysSafe == Spec => []UpdatesAreSafe
<1>1. PartsInv => UpdatesAreSafe
  BY DEF PartsInv, UpdateInv, StoreInv, UpdatesAreSafe
<1> QED
  BY <1>1, PartsAlways, PTL

\* Nothing is taken for done or known beyond its evidence: a report of the Work workflow is
\* verified only where every change of the repository was claimed and planned
\* (verify_work), an artifact shows a fact no surer than the weakest of its sources and
\* never one that was refuted (restork-workflow), and a model is told what came of its
\* calls, each result behind the reply that asked for it, whatever was cut, lost or repaired
\* (compact_if_needed, remove_orphaned_tool_messages).  A request of more than 256 messages
\* is refused by validate_chat_request: how long a reply may make a context is up to the
\* sizes of replies, so the last part is said of the contexts that are short enough.
THEOREM EvidenceIsNeverOverstated ==
    Spec => [](part # "context" \/ Len(context.messages) <= 256 => EvidenceIsSound)
<1>1. PartsInv => (part # "context" \/ Len(context.messages) <= 256 => EvidenceIsSound)
  BY DeliverablesAreSound, ContextIsSound DEF PartsInv, WorkInv, EvidenceIsSound
<1> QED
  BY <1>1, PartsAlways, PTL

\* A restore that answers has restored all of its files or none, whatever fails, but for
\* what the user has edited meanwhile and what the failure itself has cut off
\* (apply_verified_restore).
THEOREM RestoresAreAllOrNothing == Spec => RestoreIsAllOrNothing
<1>1. PartsInv /\ [Next]_<<part, FileVars, OtherVars>> =>
          [restorePhase \notin {"idle"} /\ restorePhase' = "idle" =>
               LET settled == {selected[i] : i \in DOMAIN selected} \ undone'
                   left == {disk'[f] : f \in settled} \ {"edited"}
               IN  /\ outcome' = "restored" => left \subseteq {"target"}
                   /\ outcome' = "failed" => left \subseteq {"before"}]_restoreVars
  <2> SUFFICES ASSUME PartsInv, [Next]_<<part, FileVars, OtherVars>>, restorePhase # "idle", restorePhase' = "idle"
               PROVE  LET settled == {selected[i] : i \in DOMAIN selected} \ undone'
                          left == {disk'[f] : f \in settled} \ {"edited"}
                      IN  /\ outcome' = "restored" => left \subseteq {"target"}
                          /\ outcome' = "failed" => left \subseteq {"before"}
    OBVIOUS
  <2>1. RestoreInv /\ [RestoreNext]_restoreVars
    BY StepsOfParts DEF PartsInv
  <2> QED
    BY <2>1, RestoreEndsWhole
<1> QED
  BY <1>1, PartsAlways, PTL DEF Spec, RestoreIsAllOrNothing

-----------------------------------------------------------------------------
(* The types of the rows, the files and the messages. *)

\* How often a file was opened and written to, and a run stopped, is bounded.
StoreTypes ==
    StoreTypeOK /\ opens \in Nat /\ rowWrites \in Nat /\ \A copy \in backups : copy.version \in Nat
ContextTypes == contextStops \in 0 .. MaxContextStops

LEMMA StoreTypesInitially == StoreInit => StoreTypes
<1> SUFFICES ASSUME StoreInit PROVE StoreTypes
  OBVIOUS
<1>1. PICK version \in Releases \cup {0} : \E sums \in [1 .. version -> Checksums] :
          store = [version |-> version, ledger |-> sums, rows |-> 0]
  BY DEF StoreInit
<1>2. version \in Nat
  BY <1>1, StoreFileAssumption
<1>3. PICK sums \in [1 .. version -> Checksums] : store = [version |-> version, ledger |-> sums, rows |-> 0]
  BY <1>1
<1>4. store.version = version /\ store.ledger \in [1 .. store.version -> Checksums] /\ store.rows = 0
  BY <1>3
<1>5. opener.step = "closed" /\ backups = {} /\ opens = 0 /\ rowWrites = 0
  BY DEF StoreInit, NoOpener
<1>6. MaxOpens \in Nat /\ MaxWrites \in Nat
  BY StoreFileAssumption
<1>7. store.rows \in 0 .. rowWrites /\ opens <= MaxOpens /\ rowWrites <= MaxWrites
  BY <1>4, <1>5, <1>6
<1> QED
  BY <1>2, <1>4, <1>5, <1>7 DEF StoreTypes, StoreTypeOK

LEMMA StoreStepKeepsTypes == StoreTypes /\ [StoreFileNext]_storeVars => StoreTypes'
<1> SUFFICES ASSUME StoreTypes, [StoreFileNext]_storeVars PROVE StoreTypes'
  OBVIOUS
<1>1. MaxOpens \in Nat /\ MaxWrites \in Nat
  BY StoreFileAssumption
<1>2. /\ store.version \in Nat /\ store.ledger \in [1 .. store.version -> Checksums] /\ store.rows \in 0 .. rowWrites
      /\ opener.step \in {"closed", "read", "migrating", "open"}
      /\ \A copy \in backups : copy.whole \in BOOLEAN /\ copy.version \in Nat /\ copy.version <= store.version
      /\ opens \in 0 .. MaxOpens /\ rowWrites \in 0 .. MaxWrites
  BY <1>1 DEF StoreTypes, StoreTypeOK
<1>3. ASSUME /\ store'.version \in Nat /\ store'.ledger \in [1 .. store'.version -> Checksums]
             /\ store'.rows \in 0 .. rowWrites'
             /\ opener'.step \in {"closed", "read", "migrating", "open"}
             /\ \A copy \in backups' : copy.whole \in BOOLEAN /\ copy.version \in Nat /\ copy.version <= store'.version
             /\ opens' \in 0 .. MaxOpens /\ rowWrites' \in 0 .. MaxWrites
      PROVE  StoreTypes'
  BY <1>1, <1>3 DEF StoreTypes, StoreTypeOK
<1>4. ASSUME NEW release \in Releases, BeginOpen(release)
      PROVE  StoreTypes'
  <2>1. PICK hadData \in BOOLEAN :
            opener' = [step |-> "read", release |-> release, copies |-> hadData /\ store.version < release]
    BY <1>4 DEF BeginOpen
  <2>2. opener'.step = "read"
    BY <2>1
  <2>3. opens' \in 0 .. MaxOpens /\ UNCHANGED <<store, backups, rowWrites>>
    BY <1>1, <1>2, <1>4 DEF BeginOpen
  <2> QED
    BY <1>2, <1>3, <2>2, <2>3
<1>5. CASE Backup \/ BackupFails
  <2>1. opener'.step \in {"closed", "migrating"} /\ UNCHANGED <<store, opens, rowWrites>>
    <3>1. CASE Backup
      <4>1. opener' = [step |-> "migrating", release |-> opener.release]
        BY <3>1 DEF Backup
      <4>2. QED
        BY <3>1, <4>1 DEF Backup
    <3>2. CASE BackupFails
      BY <3>2 DEF BackupFails, NoOpener
    <3>3. QED
      BY <1>5, <3>1, <3>2
  <2>2. \A copy \in backups' : copy \in backups \/ copy = CopyOf(TRUE) \/ copy = CopyOf(FALSE)
    BY <1>5 DEF Backup, BackupFails
  <2>3. \A sound \in BOOLEAN : CopyOf(sound).whole = sound /\ CopyOf(sound).version = store.version
    BY DEF CopyOf
  <2>4. store.version <= store.version
    BY <1>2
  <2>5. \A copy \in backups' : copy.whole \in BOOLEAN /\ copy.version \in Nat /\ copy.version <= store.version
    BY <1>2, <2>2, <2>3, <2>4
  <2> QED
    BY <1>2, <1>3, <2>1, <2>5
<1>6. CASE Migrate
  <2>1. PICK next \in Nat : next = store.version + 1
    BY <1>2
  <2>2. PICK sums : sums = [n \in 1 .. next |-> IF n <= store.version THEN store.ledger[n] ELSE "frozen"]
    OBVIOUS
  <2>3. sums \in [1 .. next -> Checksums]
    <3>1. ASSUME NEW n \in 1 .. next
          PROVE  (IF n <= store.version THEN store.ledger[n] ELSE "frozen") \in Checksums
      <4>1. n <= store.version => n \in 1 .. store.version
        BY <1>2
      <4>2. QED
        BY <1>2, <4>1 DEF Checksums
    <3>2. QED
      BY <2>2, <3>1
  <2>4. store' = [version |-> next, rows |-> store.rows, ledger |-> sums] /\ UNCHANGED <<backups, opener, opens, rowWrites>>
    BY <1>6, <2>1, <2>2 DEF Migrate
  <2>5. store'.version = next /\ store'.rows = store.rows /\ store'.ledger = sums
    BY <2>4
  <2>6. store.version <= next
    BY <1>2, <2>1
  <2>7. \A copy \in backups' : copy.whole \in BOOLEAN /\ copy.version \in Nat /\ copy.version <= store'.version
    BY <1>2, <2>4, <2>5, <2>6
  <2> QED
    BY <1>2, <1>3, <2>3, <2>4, <2>5, <2>7
<1>7. CASE FinishOpen
  <2>1. opener'.step \in {"open", "closed"}
    <3>1. opener' = [step |-> "open", release |-> opener.release] \/ opener' = NoOpener
      BY <1>7 DEF FinishOpen
    <3>2. QED
      BY <3>1 DEF NoOpener
  <2>2. UNCHANGED <<store, backups, opens, rowWrites>>
    BY <1>7 DEF FinishOpen
  <2> QED
    BY <1>2, <1>3, <2>1, <2>2
<1>8. CASE WriteRow
  <2>1. store' = [version |-> store.version, ledger |-> store.ledger, rows |-> rowWrites']
    BY <1>8 DEF WriteRow
  <2>2. store'.version = store.version /\ store'.ledger = store.ledger /\ store'.rows = rowWrites'
    BY <2>1
  <2>3. rowWrites' \in 0 .. MaxWrites /\ rowWrites' \in 0 .. rowWrites'
    BY <1>1, <1>2, <1>8 DEF WriteRow
  <2>4. UNCHANGED <<backups, opener, opens>>
    BY <1>8 DEF WriteRow
  <2> QED
    BY <1>2, <1>3, <2>2, <2>3, <2>4
<1>9. CASE LeaveStore
  BY <1>2, <1>3, <1>9 DEF LeaveStore, NoOpener
<1>10. CASE UNCHANGED storeVars
  BY <1>2, <1>3, <1>10 DEF storeVars
<1> QED
  BY <1>4, <1>5, <1>6, <1>7, <1>8, <1>9, <1>10 DEF StoreFileNext

\* What is stored, written or sent is of its type, and within the bounds of the model.
THEOREM EffectsAreTyped == Spec => []EffectsTypeOK
<1>1. ContextInit => ContextTypes
  BY ContextAssumption DEF ContextInit, ContextTypes
<1>2. ContextTypes /\ [ContextNext]_contextVars => ContextTypes'
  BY ContextAssumption
  DEF ContextTypes, ContextNext, contextVars, LoadContext, ResumeCall, DenyCall, FitContext, ReplyWithCalls, ModelEnds,
      RefuseCall, RunCall, AskForCall, EndCalls, StopContext
<1>3. Init => ContextTypes /\ StoreTypes
  BY <1>1, StoreTypesInitially DEF Init
<1>4. ContextTypes /\ StoreTypes /\ [Next]_<<part, FileVars, OtherVars>> => ContextTypes' /\ StoreTypes'
  BY <1>2, StepsOfParts, StoreStepKeepsTypes
<1>5. PartsInv /\ ContextTypes /\ StoreTypes => EffectsTypeOK
  <2> SUFFICES ASSUME PartsInv, ContextTypes, StoreTypes PROVE EffectsTypeOK
    OBVIOUS
  <2>1. TaskTypeOK /\ WorkTypeOK /\ RestoreTypeOK /\ DeliverablesTypeOK /\ UpdateTypeOK /\ MachineTypeOK
    BY DEF PartsInv, TaskInv, WorkInv, RestoreInv, DeliverablesInv, UpdateInv, MachineInv
  <2>2. StoreTypeOK
    BY DEF StoreTypes
  <2>3. ContextTypeOK
    <3>1. /\ context \in Contexts /\ keptContext \in Contexts
          /\ contextPc \in {"stopped", "resume", "loop", "model", "calls", "ended"}
      BY DEF PartsInv, ContextInv
    <3>2. ASSUME NEW c \in Contexts
          PROVE  /\ c.replies \in 0 .. MaxReplies
                 /\ \A m \in Range(c.messages) : m.role \in {"system", "user", "assistant", "tool"} /\ m.reasoning \in {"none", "whole"}
      <4>1. c.messages \in Seq(Messages) /\ c.replies \in 0 .. MaxReplies
        BY DEF Contexts
      <4>2. \A m \in Range(c.messages) : m \in Messages
        BY <4>1 DEF Range
      <4>3. QED
        BY <4>1, <4>2 DEF Messages
    <3>3. QED
      BY <3>1, <3>2 DEF ContextTypes, ContextTypeOK
  <2>4. QED
    BY <2>1, <2>2, <2>3 DEF EffectsTypeOK
<1>6. QED
  BY <1>3, <1>4, <1>5, PartsAlways, PTL DEF Spec

=============================================================================

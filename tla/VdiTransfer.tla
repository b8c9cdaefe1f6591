---------------------------- MODULE VdiTransfer -----------------------------
(* A backup or restore of one SQL Server database (SQLServerRunner).  Two   *)
(* parties must both succeed: the native helper, a process that moves the   *)
(* data between the virtual device and the artifact, and the BACKUP or      *)
(* RESTORE statement on a connection of its own.  Each may fail, hang or be *)
(* slow by itself, and the context of the run may be cancelled at any time. *)
EXTENDS Integers

VARIABLES
    transfer,  \* where transfer stands, and what it has to report
    helper,    \* the helper process
    sql,       \* the goroutine that executes the statement
    ctx,       \* the run's context and the one derived from it: cancelled or not
    artifact   \* the file in the temporary directory of a backup

transferVars == <<transfer, helper, sql, ctx, artifact>>

(* What a party came to.                                                    *)
Outcomes == {"ok", "error"}

Derived == ctx.run \/ ctx.own   \* runCtx is done

InTransfer(steps) == transfer.step \in steps
Moves(step) == transfer' = [transfer EXCEPT !.step = step]
Cancels(when) == ctx' = [ctx EXCEPT !.own = @ \/ when]

-----------------------------------------------------------------------------
(* The helper.  It announces itself, waits for SQL Server to open the       *)
(* device and moves the data.  A helper of another version says something   *)
(* else.                                                                    *)

Announce ==
    /\ helper.step = "starting"
    /\ \E said \in {"ready", "incompatible"} : helper' = [helper EXCEPT !.step = "up", !.said = said]
    /\ UNCHANGED <<transfer, sql, ctx, artifact>>

(* All data has been moved, which takes a statement at work on the other    *)
(* end of the device.                                                       *)
MoveData ==
    /\ helper.step = "up" /\ helper.said = "ready"
    /\ sql.step = "running"
    /\ helper' = [helper EXCEPT !.step = "moved"]
    /\ artifact' = IF artifact = "empty" THEN "whole" ELSE artifact
    /\ UNCHANGED <<transfer, sql, ctx>>

HelperExits(outcome) ==
    /\ helper' = [helper EXCEPT !.step = "gone", !.outcome = outcome]
    /\ UNCHANGED <<transfer, sql, ctx, artifact>>

HelperSucceeds == helper.step = "moved" /\ HelperExits("ok")

(* It crashes, or gives up, at any time.                                    *)
HelperFails == helper.step \in {"starting", "up", "moved"} /\ HelperExits("error")

(* runCtx is done: the control pipe is closed, the helper aborts, and is    *)
(* killed after WaitDelay if it does not.                                   *)
HelperStops == Derived /\ HelperFails

-----------------------------------------------------------------------------
(* The statement.                                                           *)

SQLReturns(outcome) ==
    /\ sql' = [sql EXCEPT !.step = "returned", !.outcome = outcome]
    /\ UNCHANGED <<transfer, helper, ctx, artifact>>

(* SQL Server ends the statement when the device has taken, or given, all.  *)
StatementSucceeds ==
    /\ sql.step = "running"
    /\ helper.step = "moved" \/ (helper.step = "gone" /\ helper.outcome = "ok")
    /\ SQLReturns("ok")

StatementFails == sql.step = "running" /\ SQLReturns("error")

(* runCtx is done: the socket is closed under the driver, which would wait  *)
(* for the answer of a server that is gone.                                 *)
StatementStops == Derived /\ StatementFails

-----------------------------------------------------------------------------
(* SQLServerRunner.                                                         *)

(* Run creates the artifact's directory; Restore finds the artifact.        *)
Begin(mode) ==
    /\ transfer.step = "start"
    /\ transfer' = [transfer EXCEPT !.step = "lookup", !.mode = mode]
    /\ artifact' = IF mode = "backup" THEN "empty" ELSE "kept"
    /\ UNCHANGED <<helper, sql, ctx>>

Conclude(result) == transfer' = [transfer EXCEPT !.step = "returned", !.result = result]

(* The helper is not installed, or cannot be started.                       *)
CannotStart ==
    /\ InTransfer({"lookup"})
    /\ Conclude("error")
    /\ UNCHANGED <<helper, sql, ctx, artifact>>

StartHelper ==
    /\ InTransfer({"lookup"}) /\ ~ctx.run
    /\ helper' = [helper EXCEPT !.step = "starting"]
    /\ Moves("await")
    /\ UNCHANGED <<sql, ctx, artifact>>

(* The select waits for the announcement, the exit of the helper, a timer   *)
(* and the context, and takes any of them that is there.                    *)
HelperReady ==
    /\ InTransfer({"await"}) /\ helper.said = "ready"
    /\ sql' = [sql EXCEPT !.step = "running"]
    /\ Moves("both")
    /\ UNCHANGED <<helper, ctx, artifact>>

HelperGone ==
    /\ InTransfer({"await"}) /\ helper.step = "gone"
    /\ Conclude("error")
    /\ UNCHANGED <<helper, sql, ctx, artifact>>

NotReady(reason) ==
    /\ InTransfer({"await"}) /\ reason
    /\ Cancels(TRUE)
    /\ Moves("drain")
    /\ UNCHANGED <<helper, sql, artifact>>

HelperRefused == NotReady(helper.said = "incompatible")
TimerFires == NotReady(TRUE)
CancelSeen == NotReady(ctx.run)

Drain ==
    /\ InTransfer({"drain"}) /\ helper.step = "gone"
    /\ Conclude("error")
    /\ UNCHANGED <<helper, sql, ctx, artifact>>

(* Mutant: a helper that failed does not cancel the statement.              *)
TakeHelperOnly ==
    /\ InTransfer({"both"}) /\ helper.step = "gone" /\ "helper" \notin transfer.taken
    /\ transfer' = [transfer EXCEPT !.taken = @ \cup {"helper"}]
    /\ UNCHANGED <<helper, sql, ctx, artifact>>

(* The two results are taken as they come; each failure cancels the other   *)
(* party.                                                                   *)
TakeHelper ==
    /\ InTransfer({"both"}) /\ helper.step = "gone" /\ "helper" \notin transfer.taken
    /\ transfer' = [transfer EXCEPT !.taken = @ \cup {"helper"}]
    /\ Cancels(helper.outcome = "error")
    /\ UNCHANGED <<helper, sql, artifact>>

TakeStatement ==
    /\ InTransfer({"both"}) /\ sql.step = "returned" /\ "sql" \notin transfer.taken
    /\ transfer' = [transfer EXCEPT !.taken = @ \cup {"sql"}]
    /\ Cancels(sql.outcome = "error")
    /\ UNCHANGED <<helper, sql, artifact>>

(* Mutant: the result of the statement is forgotten.                        *)
JoinHelper ==
    /\ InTransfer({"both"}) /\ transfer.taken = {"helper", "sql"}
    /\ Conclude(IF ctx.run \/ helper.outcome = "error" THEN "error" ELSE "ok")
    /\ UNCHANGED <<helper, sql, ctx, artifact>>

Join ==
    /\ InTransfer({"both"}) /\ transfer.taken = {"helper", "sql"}
    /\ Conclude(IF ctx.run \/ helper.outcome = "error" \/ sql.outcome = "error" THEN "error" ELSE "ok")
    /\ UNCHANGED <<helper, sql, ctx, artifact>>

(* Run looks at the artifact it was given; one that is empty is refused.    *)
(* The directory of a backup that failed is removed.                        *)
Finish ==
    /\ InTransfer({"returned"})
    /\ LET failed == transfer.result = "error" \/ artifact = "empty" IN
       /\ transfer' = [transfer EXCEPT !.step = "done", !.result = IF failed THEN "error" ELSE @]
       /\ artifact' = IF failed /\ transfer.mode = "backup" THEN "none" ELSE artifact
    /\ UNCHANGED <<helper, sql, ctx>>

CancelRun ==
    /\ ~ctx.run /\ ~InTransfer({"done"})
    /\ ctx' = [ctx EXCEPT !.run = TRUE]
    /\ UNCHANGED <<transfer, helper, sql, artifact>>

-----------------------------------------------------------------------------
TransferInit ==
    /\ transfer = [step |-> "start", mode |-> "none", taken |-> {}, result |-> "none"]
    /\ helper = [step |-> "off", said |-> "nothing", outcome |-> "none"]
    /\ sql = [step |-> "off", outcome |-> "none"]
    /\ ctx = [run |-> FALSE, own |-> FALSE]
    /\ artifact = "none"

(* The Master's own steps.                                                  *)
MasterStep ==
    \/ CannotStart \/ StartHelper
    \/ HelperReady \/ HelperGone \/ HelperRefused \/ CancelSeen
    \/ Drain \/ TakeHelper \/ TakeStatement \/ Join \/ Finish

TransferNext ==
    \/ \E mode \in {"backup", "restore"} : Begin(mode)
    \/ MasterStep \/ TimerFires \/ CancelRun
    \/ Announce \/ MoveData \/ HelperSucceeds \/ HelperFails \/ HelperStops
    \/ StatementSucceeds \/ StatementFails \/ StatementStops

TransferSpec == TransferInit /\ [][TransferNext]_transferVars

-----------------------------------------------------------------------------
(* Success means that both parties ended and succeeded and that the file    *)
(* holds the data; whatever the end, no helper process and no statement is  *)
(* left at work behind the runner's back, and a backup that failed leaves   *)
(* no file (transfer, Run).                                                 *)
TransferHonest ==
    /\ InTransfer({"returned", "done"}) =>
         helper.step \in {"off", "gone"} /\ sql.step \in {"off", "returned"}
    /\ InTransfer({"done"}) =>
         IF transfer.result = "ok"
         THEN helper.outcome = "ok" /\ sql.outcome = "ok" /\ artifact \in {"whole", "kept"}
         ELSE artifact \in {"none", "kept"}

(* A transfer one of whose parties failed, or whose run is cancelled, ends  *)
(* although the other party hangs.                                          *)
TransferEnds ==
    ((helper.outcome = "error" \/ sql.outcome = "error" \/ ctx.run) /\ ~InTransfer({"start"}))
      ~> InTransfer({"done"})
=============================================================================

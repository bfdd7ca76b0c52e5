---------------------------- MODULE MCAlgorithms ----------------------------
(***************************************************************************)
(* One TLC run for the sequential algorithms: a behaviour is one call of   *)
(* one of them, on one of its inputs, while the others have returned (from *)
(* a call with the smallest input).                                        *)
(***************************************************************************)
EXTENDS ImageWalk, DiskExtract, PartitionSlice, CappedCopy, OledLine, OledLayout

VARIABLE running        \* the algorithm of this behaviour

AllBrightnesses == 0..255
AllWidths == 0..170
AllHeights == 6..40

WalkIdle == contents = [d \in Dirs |-> <<>>] /\ stack = <<>> /\ outcome = "none"

DiskIdle ==
    /\ table = <<>> /\ overridden = [f \in {"kernel", "initrd"} |-> FALSE]
    /\ at = 1 /\ step = "done" /\ torn = FALSE /\ verdict = "KernelNotFound"
    /\ written = [f \in {"kernel", "initrd"} |-> 0]

CopyIdle == size = 0 /\ limit = Unbounded /\ read = 0 /\ out = 0 /\ copy_result = "ok"

LineIdle ==
    /\ from = [x |-> 0, y |-> 0] /\ to = from
    /\ x = 0 /\ y = 0 /\ err = 0 /\ drawn = {<<0, 0>>} /\ done = TRUE

LayoutIdle == base = 0 /\ gray = 0 /\ text_w = 0 /\ text_h = 0

Init ==
    /\ running \in {"walk", "disk", "slice", "copy", "line", "layout"}
    /\ IF running = "walk" THEN WalkInit ELSE WalkIdle
    /\ IF running = "disk" THEN DiskInit ELSE DiskIdle
    /\ SliceInit
    /\ IF running = "copy" THEN CopyInit ELSE CopyIdle
    /\ IF running = "line" THEN LineInit ELSE LineIdle
    /\ IF running = "layout" THEN LayoutInit ELSE LayoutIdle

vars == <<walk_vars, disk_vars, slice_vars, copy_vars, line_vars, layout_vars, running>>

WalkRuns ==
    /\ running = "walk" /\ WalkNext
    /\ UNCHANGED <<disk_vars, slice_vars, copy_vars, line_vars, layout_vars, running>>

DiskRuns ==
    /\ running = "disk" /\ DiskNext
    /\ UNCHANGED <<walk_vars, slice_vars, copy_vars, line_vars, layout_vars, running>>

SliceRuns ==
    /\ running = "slice" /\ SliceNext
    /\ UNCHANGED <<walk_vars, disk_vars, copy_vars, line_vars, layout_vars, running>>

CopyRuns ==
    /\ running = "copy" /\ CopyNext
    /\ UNCHANGED <<walk_vars, disk_vars, slice_vars, line_vars, layout_vars, running>>

LineRuns ==
    /\ running = "line" /\ LineNext
    /\ UNCHANGED <<walk_vars, disk_vars, slice_vars, copy_vars, layout_vars, running>>

Next == WalkRuns \/ DiskRuns \/ SliceRuns \/ CopyRuns \/ LineRuns

(* The caller waits for the algorithm to return. *)
Spec ==
    /\ Init /\ [][Next]_vars
    /\ WF_vars(WalkRuns) /\ WF_vars(DiskRuns) /\ WF_vars(CopyRuns) /\ WF_vars(LineRuns)

(* Every algorithm with a loop returns, on damaged inputs too: the search  *)
(* of an image with cycles, the search of a partition table, the capped    *)
(* copy and draw_line.                                                     *)
Returns ==
    /\ <>(outcome # "walking") /\ <>(step = "done")
    /\ <>(copy_result # "copying") /\ <>done
=============================================================================

------------------------------ MODULE ImageWalk -----------------------------
(***************************************************************************)
(* The search for a kernel or an initrd in an image:                       *)
(* find_file_recursive_bounded of bootycall-extractor/src/iso.rs and its   *)
(* twin for FAT in disk.rs, with the recursion as a stack.  A directory is *)
(* the sequence of its entries; in a damaged image a directory may contain *)
(* itself or one above it.  An entry is a file that the filter accepts, a  *)
(* file that it does not, "." or "..", an entry that cannot be read, or a  *)
(* directory.                                                              *)
(***************************************************************************)
EXTENDS SequencesExt

CONSTANTS
    Dirs, Root,
    MaxEntries,         \* bound: entries of a directory
    MaxDepth            \* MAX_DIR_DEPTH

Files == {"match", "other", "dots", "unreadable"}

ASSUME WalkAssumption ==
    /\ Root \in Dirs /\ Dirs \cap Files = {}
    /\ MaxEntries \in Nat /\ MaxDepth \in Nat \ {0}

VARIABLES
    contents,           \* the image: per directory its entries
    stack,              \* the calls under way: directory and next entry
    outcome             \* "walking", "found", "none" or "failed"

walk_vars == <<contents, stack, outcome>>

Frame(d) == [dir |-> d, next |-> 1]

WalkInit ==
    /\ contents \in [Dirs -> BoundedSeq(Files \cup Dirs, MaxEntries)]
    /\ stack = <<Frame(Root)>>
    /\ outcome = "walking"

Top == Last(stack)
AtEnd == Top.next > Len(contents[Top.dir])
Entry == contents[Top.dir][Top.next]

depth_exceeded(depth) == depth >= MaxDepth

(* The loop of the innermost call goes on with its next entry. *)
Advanced == [stack EXCEPT ![Len(stack)].next = @ + 1]

Walking == outcome = "walking" /\ stack # <<>>

Found ==
    /\ Walking /\ ~AtEnd /\ Entry = "match"
    /\ outcome' = "found"
    /\ UNCHANGED <<contents, stack>>

Unreadable ==
    /\ Walking /\ ~AtEnd /\ Entry = "unreadable"
    /\ outcome' = "failed"
    /\ UNCHANGED <<contents, stack>>

SkipEntry ==
    /\ Walking /\ ~AtEnd /\ Entry \in {"other", "dots"}
    /\ stack' = Advanced
    /\ UNCHANGED <<contents, outcome>>

(* Mutant: a directory that was refused is tried again. *)
RefuseDirAgain ==
    /\ Walking /\ ~AtEnd /\ Entry \in Dirs /\ depth_exceeded(Len(stack))
    /\ UNCHANGED walk_vars

(* The call for a directory below the cap returns at once, with nothing. *)
RefuseDir ==
    /\ Walking /\ ~AtEnd /\ Entry \in Dirs /\ depth_exceeded(Len(stack))
    /\ stack' = Advanced
    /\ UNCHANGED <<contents, outcome>>

Descend ==
    /\ Walking /\ ~AtEnd /\ Entry \in Dirs /\ ~depth_exceeded(Len(stack))
    /\ stack' = Append(Advanced, Frame(Entry))
    /\ UNCHANGED <<contents, outcome>>

(* Mutant: an exhausted subdirectory ends the whole search. *)
GiveUp ==
    /\ Walking /\ AtEnd
    /\ outcome' = "none"
    /\ UNCHANGED <<contents, stack>>

(* A directory is exhausted: its caller goes on. *)
Exhausted ==
    /\ Walking /\ AtEnd
    /\ stack' = Front(stack)
    /\ outcome' = IF Len(stack) = 1 THEN "none" ELSE outcome
    /\ UNCHANGED contents

WalkNext == Found \/ Unreadable \/ SkipEntry \/ RefuseDir \/ Descend \/ Exhausted

WalkSpec == WalkInit /\ [][WalkNext]_walk_vars /\ WF_walk_vars(WalkNext)
-----------------------------------------------------------------------------
(* What the search means: paths are sequences of entry numbers, of at most *)
(* MaxDepth of them, and the first in lexicographic order that leads to a  *)
(* match or to an unreadable entry decides.                                *)
EntryPaths == UNION {[1..n -> 1..MaxEntries] : n \in 1..MaxDepth}

(* The path p goes through the directories ds. *)
Through(p, ds) ==
    /\ ds[1] = Root
    /\ \A k \in 1..(Len(p) - 1) :
        p[k] <= Len(contents[ds[k]]) /\ contents[ds[k]][p[k]] = ds[k + 1]

EndsIn(p, d, what) == p[Len(p)] <= Len(contents[d]) /\ contents[d][p[Len(p)]] = what

LeadingTo(what) ==
    {p \in EntryPaths : \E ds \in [1..Len(p) -> Dirs] :
        Through(p, ds) /\ EndsIn(p, ds[Len(p)], what)}

Deciding == LeadingTo("match") \cup LeadingTo("unreadable")

Before(p, q) ==
    \/ \E k \in 1..Len(p) :
        k <= Len(q) /\ p[k] < q[k] /\ \A j \in 1..(k - 1) : p[j] = q[j]
    \/ Len(p) < Len(q) /\ \A j \in 1..Len(p) : p[j] = q[j]

Expected ==
    IF Deciding = {} THEN "none"
    ELSE LET first == CHOOSE p \in Deciding : \A q \in Deciding \ {p} : Before(p, q)
         IN  IF first \in LeadingTo("match") THEN "found" ELSE "failed"

Here == [k \in 1..Len(stack) |->
            IF k < Len(stack) THEN stack[k].next - 1 ELSE stack[k].next]

(* The search finds the first match in the order of the entries, if no     *)
(* unreadable entry comes before it, and nothing only if there is none     *)
(* above the cap; MAX_DIR_DEPTH bounds the recursion, in images with       *)
(* cycles too.                                                             *)
WalkIsFirst ==
    /\ Len(stack) <= MaxDepth
    /\ outcome # "walking" => outcome = Expected
    /\ outcome \in {"found", "failed"} =>
            Here \in Deciding /\ \A q \in Deciding \ {Here} : Before(Here, q)
=============================================================================

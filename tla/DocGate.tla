-------------------------------- MODULE DocGate --------------------------------
(***************************************************************************)
(* The documentation gate (tools/check-doc-api-drift.mjs) over one page:   *)
(* the names the page imports, against what the packages export, with      *)
(* deferrals that expire; and the code examples, cut out of the page by    *)
(* splitFences (tools/lib/markdown-fences.mjs), each compiled, or only     *)
(* parsed when a marker above it says it is partial, or joined to the      *)
(* example it continues.  The page is written in passages, the packages    *)
(* change under it, days pass.  The TypeScript compiler is external: a     *)
(* line of code is right, wrong in its types, or no syntax.                *)
(***************************************************************************)
EXTENDS Naturals, Sequences, SequencesExt

CONSTANTS
    Lines,     \* what a line of the page may be
    Passages,  \* sequences of lines that are written at once
    ApiNames,  \* documented names
    MaxPassages, MaxDay  \* bounds of the exploration

ASSUME DocAssumption ==
    /\ Passages \subseteq Seq(Lines)
    /\ MaxPassages \in Nat /\ MaxDay \in Nat

VARIABLES
    document,  \* the page, a sequence of lines
    exported,  \* the names the built packages export
    linked,    \* the package is installed where the page's reader stands
    deferred,  \* allowlist: set of [name, sunset]
    day,       \* today
    written,   \* passages of the page
    gate       \* what the gate said of all this: 0, 1, 2, or nothing yet

docVars == <<document, exported, linked, deferred, day, written, gate>>

NotRun == 9

DocTypeOK ==
    /\ ToSet(document) \subseteq Lines
    /\ exported \subseteq ApiNames
    /\ \A d \in deferred : d.name \in ApiNames /\ d.sunset \in 0..MaxDay
    /\ gate \in {0, 1, 2, NotRun}

DocInit ==
    /\ document = <<>> /\ exported = ApiNames /\ linked = TRUE
    /\ deferred = {} /\ day = 0 /\ written = 0 /\ gate = NotRun

----------------------------------------------------------------------------
(* "open ts" opens, "fence" opens or closes; inside a fence everything     *)
(* but a closer is its body, an opener with a language too.                *)
Openers == {"open ts", "fence"}
Markers == {"partial", "continues", "typo"}
Imports == {l \in Lines : l \in ApiNames}
NoFence == [lang |-> "none", above |-> "", body |-> <<>>, closed |-> FALSE]

(* precedingNonBlank: blank lines are transparent.                         *)
PrecedingNonBlank(page, i) ==
    LET text == {j \in 1..(i - 1) : page[j] # "blank"}
    IN IF text = {} THEN "" ELSE page[Max(text)]

(* splitFences: line by line, the fence under way and the blocks so far.   *)
(* Mutant: any fence line closes the fence under way.                      *)
MutSplitLine(acc, i, page) ==
    LET line == page[i]
    IN IF acc.fence = NoFence /\ line \in Openers
       THEN [acc EXCEPT !.fence = [lang |-> line, above |-> PrecedingNonBlank(page, i), body |-> <<>>,
                                   closed |-> FALSE]]
       ELSE IF acc.fence # NoFence /\ line \in Openers
       THEN [fence |-> NoFence, blocks |-> Append(acc.blocks, [acc.fence EXCEPT !.closed = TRUE])]
       ELSE IF acc.fence # NoFence THEN [acc EXCEPT !.fence.body = Append(@, line)] ELSE acc
SplitLine(acc, i, page) ==
    LET line == page[i]
    IN IF acc.fence = NoFence /\ line \in Openers
       THEN [acc EXCEPT !.fence = [lang |-> line, above |-> PrecedingNonBlank(page, i), body |-> <<>>,
                                   closed |-> FALSE]]
       ELSE IF acc.fence # NoFence /\ line = "fence"
       THEN [fence |-> NoFence, blocks |-> Append(acc.blocks, [acc.fence EXCEPT !.closed = TRUE])]
       ELSE IF acc.fence # NoFence THEN [acc EXCEPT !.fence.body = Append(@, line)] ELSE acc
Scan(page) ==
    LET scan[i \in 0..Len(page)] ==
            IF i = 0 THEN [fence |-> NoFence, blocks |-> <<>>] ELSE SplitLine(scan[i - 1], i, page)
    IN scan
SplitFences(page) ==
    LET end == Scan(page)[Len(page)]
    IN IF end.fence = NoFence THEN end.blocks ELSE Append(end.blocks, end.fence)

(* A marker whose text is above no block is noted, on the first block.     *)
Orphans(page) ==
    {l \in ToSet(page) \cap Markers : \A b \in ToSet(SplitFences(page)) : b.above # l}

(* exampleBlocks: the TypeScript blocks and what is wrong with the page.   *)
ExampleBlocks(page) == {b \in ToSet(SplitFences(page)) : b.lang = "open ts"}
Complains(page) ==
    LET blocks == SplitFences(page) IN
    \/ \E b \in ToSet(blocks) : ~b.closed
    \/ blocks # <<>> /\ blocks[1].lang = "open ts" /\ Orphans(page) # {}
    \/ \E b \in ExampleBlocks(page) : b.above = "typo"

(* An example that continues is joined to the unit before it.              *)
Joined(units, b) ==
    IF b.lang # "open ts" THEN units
    ELSE IF b.above = "continues" /\ units # <<>>
    THEN [units EXCEPT ![Len(units)].body = @ \o b.body]
    ELSE Append(units, [body |-> b.body, partial |-> b.above = "partial"])
Join(blocks) ==
    LET join[i \in 0..Len(blocks)] == IF i = 0 THEN <<>> ELSE Joined(join[i - 1], blocks[i])
    IN join
Units(blocks) == Join(blocks)[Len(blocks)]

(* A unit fails by its syntax, or by its types unless it is only parsed;   *)
(* a fence or a marker inside it is no syntax either.                      *)
UnitFails(u) ==
    LET lines == ToSet(u.body) IN
    \/ lines \cap ({"no syntax"} \cup Openers \cup Markers) # {}
    \/ ~u.partial /\ "wrong types" \in lines
    \/ ~u.partial /\ lines \cap Imports \cap (IF linked THEN ApiNames \ exported ELSE ApiNames) # {}

(* checkExampleBlocks.                                                     *)
ExamplesExit ==
    IF ExampleBlocks(document) = {} THEN 2
    ELSE IF Complains(document) \/ \E u \in ToSet(Units(SplitFences(document))) : UnitFails(u)
    THEN 1 ELSE 0

(* deferrals: active while the sunset has not passed.                      *)
Expired == {d \in deferred : d.sunset < day}
Deferred == {d.name : d \in deferred \ Expired}

(* The names pass: what the page imports and nothing exports any more.     *)
DocumentedImports == ToSet(document) \cap Imports
Drifted == IF linked THEN DocumentedImports \ exported ELSE {}
NamesExit ==
    IF DocumentedImports = {} THEN 2
    ELSE IF Drifted \ Deferred # {} \/ Expired # {} THEN 1 ELSE 0

RunDocGate ==
    /\ gate = NotRun
    /\ gate' = IF NamesExit # 0 THEN NamesExit ELSE ExamplesExit
    /\ UNCHANGED <<document, exported, linked, deferred, day, written>>

----------------------------------------------------------------------------
Write(passage) ==
    /\ written < MaxPassages /\ written' = written + 1
    /\ document' = document \o passage
    /\ UNCHANGED <<exported, linked, deferred, day>> /\ gate' = NotRun

(* A package drops a name; somebody defers it, or the link goes away.      *)
RemoveName(n) ==
    /\ n \in exported /\ exported' = exported \ {n}
    /\ UNCHANGED <<document, linked, deferred, day, written>> /\ gate' = NotRun
DeferName(n, sunset) ==
    /\ n \notin exported /\ deferred = {} /\ deferred' = {[name |-> n, sunset |-> sunset]}
    /\ UNCHANGED <<document, exported, linked, day, written>> /\ gate' = NotRun
Unlink ==
    /\ linked /\ linked' = FALSE
    /\ UNCHANGED <<document, exported, deferred, day, written>> /\ gate' = NotRun
NextDay ==
    /\ day < MaxDay /\ day' = day + 1
    /\ UNCHANGED <<document, exported, linked, deferred, written>> /\ gate' = NotRun

DocNext ==
    \/ RunDocGate \/ Unlink \/ NextDay
    \/ \E passage \in Passages : Write(passage)
    \/ \E n \in ApiNames : RemoveName(n)
    \/ \E n \in ApiNames, sunset \in 0..MaxDay : DeferName(n, sunset)

DocSpec == DocInit /\ [][DocNext]_docVars

----------------------------------------------------------------------------
Passed == gate = 0

(* Reference: what a reader sees.  After line i the fence is open that the *)
(* last line to open one opened, if no bare fence closed it since; a line  *)
(* is in an example when it stands in a fence that "open ts" opened.       *)
OpenAfter(fence, line) ==
    IF fence = "none" THEN (IF line \in Openers THEN line ELSE "none")
    ELSE IF line = "fence" THEN "none" ELSE fence
FenceOpen(page) ==
    LET open[i \in 0..Len(page)] == IF i = 0 THEN "none" ELSE OpenAfter(open[i - 1], page[i])
    IN open
InExample(page, i) == FenceOpen(page)[i - 1] = "open ts" /\ page[i] # "fence"

(* A pass is earned: it found an import and an example, it left no fence   *)
(* open, and every name the page imports exists or is deferred to a day    *)
(* still to come.                                                          *)
PassIsEarned ==
    Passed =>
        /\ ToSet(document) \cap Imports # {}
        /\ "open ts" \in ToSet(document)
        /\ FenceOpen(document)[Len(document)] = "none"
        /\ linked => \A n \in ToSet(document) \cap Imports :
              n \in exported \/ \E d \in deferred : d.name = n /\ d.sunset >= day

(* No line of an example breaks its syntax; and on a page that does not    *)
(* say partial anywhere, none breaks its types, nor imports a name that is *)
(* not there, deferred or not.                                             *)
ExamplesCompile ==
    Passed =>
        \A i \in DOMAIN document : InExample(document, i) =>
            /\ document[i] \notin {"no syntax"} \cup Openers \cup Markers
            /\ "partial" \notin ToSet(document) =>
                  /\ document[i] # "wrong types"
                  /\ document[i] \in Imports => linked /\ document[i] \in exported

(* What the gate promises its readers, part by part.                       *)
DocsKept == DocTypeOK /\ PassIsEarned /\ ExamplesCompile

(* A marker that reaches no block is reported (markdown-fences.mjs:93).    *)
OrphansAreReported == Passed => \A i \in DOMAIN document :
    document[i] \in Markers =>
        \E o \in (i + 1)..Len(document) :
            document[o] \in Openers /\ PrecedingNonBlank(document, o) = document[i]
=============================================================================

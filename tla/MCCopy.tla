-------------------------------- MODULE MCCopy --------------------------------
(***************************************************************************)
(* The three algorithms behind a COPY, in one run: the initial state       *)
(* chooses whether a pattern is matched against a name (GlobMatch), a path *)
(* or selection is looked up in a commit (ContextTree), or sources are     *)
(* written into an image (CopyWalk).  The variables of the other two stay  *)
(* as they are; "phase" is the program counter of the chosen one.          *)
(***************************************************************************)
EXTENDS Naturals

CONSTANTS Alphabet, MaxPattern, Runes, MaxName,          \* see GlobMatch
          Trees, Contexts, Files, Patterns, MaxDepth,    \* see ContextTree
          Images, Jobs, Mnt,                             \* see CopyWalk
          MaxLinks                                       \* see both

VARIABLES machine, phase,
          pattern, pos, negated, ranges, tokens, name, next, reachable,
          tree, root, entries, complete, request, pending, at, links, others, result,
          job, places, data, target, source, left, open, goal, made, after, leaf, before, fault

glob    == <<pattern, pos, negated, ranges, tokens, name, next, reachable>>
context == <<tree, root, entries, complete, request, pending, at, links, others, result>>
walk    == <<job, places, data, target, source, left, open, goal, made, after, leaf, before, fault>>

G == INSTANCE GlobMatch
C == INSTANCE ContextTree
W == INSTANCE CopyWalk

CI == INSTANCE ContextInputs
WI == INSTANCE CopyInputs

MCTrees == CI!MCTrees
MCContexts == CI!MCContexts
MCFiles == CI!MCFiles
MCPatterns == CI!MCPatterns
MCImages == WI!MCImages
MCJobs == WI!MCJobs

\* The variables of a machine that was not chosen.
Unused == "unused"
NoGlob    == /\ pattern = Unused /\ pos = Unused /\ negated = Unused /\ ranges = Unused
             /\ tokens = Unused /\ name = Unused /\ next = Unused /\ reachable = Unused
NoContext == /\ tree = Unused /\ root = Unused /\ entries = Unused /\ complete = Unused
             /\ request = Unused /\ pending = Unused /\ at = Unused /\ links = Unused
             /\ others = Unused /\ result = Unused
NoWalk    == /\ job = Unused /\ places = Unused /\ data = Unused /\ target = Unused
             /\ source = Unused /\ left = Unused /\ open = Unused /\ goal = Unused
             /\ made = Unused /\ after = Unused /\ leaf = Unused /\ before = Unused
             /\ fault = Unused

Init == \/ machine = "glob" /\ G!Init /\ NoContext /\ NoWalk
        \/ machine = "context" /\ C!Init /\ NoGlob /\ NoWalk
        \/ machine = "walk" /\ W!Init /\ NoGlob /\ NoContext

Glob    == machine = "glob" /\ UNCHANGED <<machine, context, walk>>
Context == machine = "context" /\ UNCHANGED <<machine, glob, walk>>
Walk    == machine = "walk" /\ UNCHANGED <<machine, glob, context>>

Next == (Glob /\ G!Next) \/ (Context /\ C!Next) \/ (Walk /\ W!Next)

Spec == /\ Init /\ [][Next]_<<machine, phase, glob, context, walk>>
        /\ WF_<<machine, phase, glob, context, walk>>
             ((Glob /\ G!Next) \/ (Context /\ C!Works) \/ (Walk /\ W!Works))

-----------------------------------------------------------------------------
\* Each byte and rune of a name is matched by what the pattern means by it, and
\* the scanner that finds the first wildcard finds what the parser finds.
MatchesAsDefined == machine = "glob" => G!MatchesAsDefined

\* Paths lead where their links lead, and what a COPY selects does not depend
\* on the modules that were opened before it.
ContextIsFaithful == machine = "context" => C!ContextIsFaithful

\* A COPY lands what it should as the image is seen, and touches nothing else,
\* wherever it stops.
CopiesExactly == machine = "walk" => W!CopiesExactly

\* Matching, looking up and writing end, whatever cycles the links form.
CopyEnds ==
  /\ machine = "glob" => G!MatchEnds
  /\ machine = "context" => C!RequestsEnd
  /\ machine = "walk" => W!CopyEnds
=============================================================================

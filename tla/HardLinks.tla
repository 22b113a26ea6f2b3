----------------------------- MODULE HardLinks ------------------------------
(***************************************************************************)
(* parser/hardlinks.go and GetSummary of parser/caching.go: all the paths  *)
(* an MFT entry is known by, found by walking its file names up through    *)
(* the directories that hold them.                                         *)
(*                                                                         *)
(* The recursion of getNames is a stack of frames, one step for each file  *)
(* name it visits.  The names of an entry are a slice of the cached        *)
(* summary: getNames works on that slice itself whenever it does not       *)
(* filter, so what it reorders there later visits of the entry see too.    *)
(***************************************************************************)
EXTENDS Integers, Sequences, SequencesExt

CONSTANTS
  Ids,                \* MFT entry numbers, the root not among them
  Root,               \* entry 5 (and 0): where a path ends
  Seqs,               \* sequence numbers
  Volumes,            \* the volumes considered: [mft, preloaded] records
  MaxLinks,           \* options.MaxLinks
  MaxDirectoryDepth,  \* options.MaxDirectoryDepth
  ShortNameOptions,   \* the values options.IncludeShortNames may have
  Prefix,             \* options.PrefixComponents
  MaxCalls,           \* bound on the calls of GetHardLinks
  None

ASSUME OptionsAssumption ==
  /\ MaxLinks \in Nat
  /\ MaxDirectoryDepth \in Nat
  /\ ShortNameOptions \subseteq BOOLEAN
  /\ Prefix \in Seq(STRING)
  /\ MaxCalls \in Nat
  /\ Root \notin Ids

\* FNSummary; Win32, DOS+Win32 and POSIX are the long ones.
FileNames ==
  [name : STRING, type : {"DOS", "Win32", "DOS+Win32", "POSIX"},
   parent : Ids \cup {Root}, seq : Nat]

\* The long file name comes first.
LongFirst(names) ==
  IF Len(names) > 1 /\ names[1].type = "DOS"
  THEN [names EXCEPT ![1] = names[2], ![2] = names[1]] ELSE names

\* MFTEntrySummary; there may be more in it.
IsSummary(s) ==
  /\ {"seq", "names"} \subseteq DOMAIN s /\ s = [x \in DOMAIN s |-> s[x]]
  /\ s.names \in Seq(FileNames)

\* An entry that cannot be read is no summary, in whatever order its names are.
ASSUME VolumesAssumption ==
  \A v \in Volumes :
    /\ v.mft = [id \in Ids |-> v.mft[id]]
    /\ \A id \in Ids : v.mft[id] # None =>
         IsSummary(v.mft[id]) /\ [v.mft[id] EXCEPT !.names = LongFirst(@)] # None
    /\ v.preloaded = [k \in DOMAIN v.preloaded |-> v.preloaded[k]]
    /\ DOMAIN v.preloaded \subseteq Ids \X Nat
    /\ \A k \in DOMAIN v.preloaded : IsSummary(v.preloaded[k])

VARIABLES
  mft,         \* entry -> its summary, [seq, names], or None if unreadable
  preloaded,   \* <<entry, seq>> -> summary given by SetPreload
  includeShortNames,   \* options.IncludeShortNames
  stack,       \* calls of getNames in progress, the innermost last
  paths,       \* visitor.Paths, each from the entry up
  call,        \* the GetHardLinks in progress or the last one
  calls

vars == <<mft, preloaded, includeShortNames, stack, paths, call, calls>>

-----------------------------------------------------------------------------
(* Summaries.  A reference says where a summary is: the MFT or a preload. *)

InMft(id) == [from |-> "mft", id |-> id, seq |-> 0]

Preload(id, seq) == [from |-> "preloaded", id |-> id, seq |-> seq]

Deref(ref) == IF ref.from = "mft" THEN mft[ref.id]
              ELSE preloaded[<<ref.id, ref.seq>>]

\* GetSummary: the entry of the MFT, unless its sequence number differs and
\* there is a preloaded summary with the right one.
GetSummary(id, seq) ==
  IF mft[id] = None THEN None
  ELSE IF mft[id].seq # seq /\ <<id, seq>> \in DOMAIN preloaded
       THEN Preload(id, seq)
       ELSE InMft(id)

IsLongName(fn) == fn.type # "DOS"

LongNames(names) == {fn \in ToSet(names) : IsLongName(fn)}

\* What of s is in S, appended one by one.
Only(s, S) ==
  LET only[n \in 0..Len(s)] ==
        IF n = 0 THEN << >>
        ELSE IF s[n] \in S THEN Append(only[n - 1], s[n]) ELSE only[n - 1]
  IN only[Len(s)]

\* getNames filters the short names out, unless there is nothing else.
Filters(names) == ~ includeShortNames /\ LongNames(names) # {}

SetNames(ref, names) ==
  IF ref.from = "mft"
  THEN /\ mft' = [mft EXCEPT ![ref.id].names = names]
       /\ UNCHANGED preloaded
  ELSE /\ preloaded' = [preloaded EXCEPT ![<<ref.id, ref.seq>>].names = names]
       /\ UNCHANGED mft

\* The names a frame ranges over: its own copy, or the slice of the summary.
NamesOf(frame) == IF frame.shared THEN Deref(frame.ref).names ELSE frame.own

-----------------------------------------------------------------------------
Init ==
  /\ \E v \in Volumes : mft = v.mft /\ preloaded = v.preloaded
  /\ includeShortNames \in ShortNameOptions
  /\ stack = << >>
  /\ paths = << >>
  /\ call = [pc |-> "idle", id |-> None, result |-> << >>]
  /\ calls = 0

Components(ps) ==
  LET result == [i \in DOMAIN ps |-> Reverse(ps[i] \o Prefix)]
  IN Only(result, ToSet(result) \ {<< >>})

\* Mutant of TooDeep: one directory too late.
TooDeepLate(depth) == depth > MaxDirectoryDepth + 1

TooDeep(depth) == depth > MaxDirectoryDepth

\* getNames(ref, visitor, idx, depth), up to its loop: ends the path ps[idx]
\* or opens a frame on "below".
Visit(ref, idx, depth, ps, below) ==
  LET names == Deref(ref).names
      EndsWith(marker) ==
        /\ paths' = [ps EXCEPT ![idx] = @ \o <<marker, "<Err>">>]
        /\ stack' = below
        /\ UNCHANGED <<mft, preloaded>>
      Loop(shared, own) ==
        /\ paths' = ps
        /\ stack' = Append(below, [ref |-> ref, shared |-> shared, own |-> own,
                                   idx |-> idx, depth |-> depth, i |-> 1])
  IN IF TooDeep(depth) THEN EndsWith("<DirTooDeep>")
     ELSE IF names = << >> THEN EndsWith("<UnknownEntry>")
     ELSE IF Filters(names)
          THEN /\ Loop(FALSE, LongFirst(Only(names, LongNames(names))))
               /\ UNCHANGED <<mft, preloaded>>
          ELSE /\ Loop(TRUE, << >>)
               /\ SetNames(ref, LongFirst(names))

\* GetHardLinks(id, seq, 0)
Begin(id, seq) ==
  /\ call.pc # "busy"
  /\ calls < MaxCalls
  /\ calls' = calls + 1
  /\ IF GetSummary(id, seq) = None
     THEN /\ call' = [pc |-> "failed", id |-> id, result |-> << >>]
          /\ UNCHANGED <<mft, preloaded, stack, paths>>
     ELSE /\ call' = [pc |-> "busy", id |-> GetSummary(id, seq),
                      result |-> << >>]
          /\ Visit(GetSummary(id, seq), 1, 0, << << >> >>, << >>)

Top == stack[Len(stack)]

\* The frames once the top one has gone on to its next name.
Advanced == [stack EXCEPT ![Len(stack)].i = @ + 1]

\* Mutant of CopyOf: with what is above the name that is left.
WholePath(path, depth) == path

\* Visitor.Add: a path begins as another one, up to a depth.
CopyOf(path, depth) == SubSeq(path, 1, depth)

\* One turn of the loop of getNames.  Paths are numbered from 1 here and from
\* 0 in the code.
NextName ==
  LET f    == Top
      fn   == NamesOf(f)[f.i]
      ps   == IF f.i = 1 THEN paths
              ELSE Append(paths, CopyOf(paths[f.idx], f.depth))
      idx  == IF f.i = 1 THEN f.idx ELSE Len(ps)
      next == [ps EXCEPT ![idx] = Append(@, fn.name)]
      ref  == GetSummary(fn.parent, fn.seq)
      Stop(p) == paths' = p /\ stack' = Advanced /\ UNCHANGED <<mft, preloaded>>
      Error(marker) == Stop([next EXCEPT ![idx] = @ \o <<marker, "<Err>">>])
  IN /\ stack # << >>
     /\ f.i <= Len(NamesOf(f))
     /\ IF f.i > 1 /\ idx - 1 > MaxLinks THEN Stop(ps)
        ELSE IF fn.parent = Root THEN Stop(next)
        ELSE IF ref = None THEN Error("<NoEntry>")
        ELSE IF Deref(ref).seq # fn.seq THEN Error("<WrongSequence>")
        ELSE Visit(ref, idx, f.depth + 1, next, Advanced)
     /\ UNCHANGED <<call, calls>>

\* Mutant of Leave: one turn of the loop too late.
LeaveLate ==
  /\ stack # << >>
  /\ Top.i > Len(NamesOf(Top)) + 1
  /\ stack' = Front(stack)
  /\ UNCHANGED <<mft, preloaded, paths, call, calls>>

Leave ==
  /\ stack # << >>
  /\ Top.i > Len(NamesOf(Top))
  /\ stack' = Front(stack)
  /\ UNCHANGED <<mft, preloaded, paths, call, calls>>

Return ==
  /\ call.pc = "busy"
  /\ stack = << >>
  /\ call' = [call EXCEPT !.pc = "done", !.result = Components(paths)]
  /\ paths' = << >>
  /\ UNCHANGED <<mft, preloaded, stack, calls>>

Step == NextName \/ Leave \/ Return

Next ==
  /\ Step \/ \E id \in Ids, seq \in Seqs : Begin(id, seq)
  /\ UNCHANGED includeShortNames

Spec == Init /\ [][Next]_vars

FairSpec == Spec /\ WF_vars(Step /\ UNCHANGED includeShortNames)

-----------------------------------------------------------------------------
(* What the paths of an entry are, by definition. *)

\* The names by which getNames knows an entry.
Usable(ref) ==
  LET names == Deref(ref).names
  IN IF Filters(names) THEN LongNames(names) ELSE ToSet(names)

Refs == {InMft(id) : id \in {x \in Ids : mft[x] # None}}
        \cup {Preload(k[1], k[2]) : k \in DOMAIN preloaded}

\* The paths of a summary, from the root down, if n more directories may be
\* visited above it.
PathsAbove[n \in 0..(MaxDirectoryDepth + 1)] ==
  [ref \in Refs |->
     IF n = 0 THEN {<<"<Err>", "<DirTooDeep>">>}
     ELSE IF Usable(ref) = {} THEN {<<"<Err>", "<UnknownEntry>">>}
     ELSE UNION {
       LET up == GetSummary(fn.parent, fn.seq)
           above == IF fn.parent = Root THEN {<< >>}
                    ELSE IF up = None THEN {<<"<Err>", "<NoEntry>">>}
                    ELSE IF Deref(up).seq # fn.seq
                         THEN {<<"<Err>", "<WrongSequence>">>}
                    ELSE PathsAbove[n - 1][up]
       IN {Append(p, fn.name) : p \in above} : fn \in Usable(ref)}]

AllPaths(ref) ==
  {Prefix \o p : p \in PathsAbove[MaxDirectoryDepth + 1][ref]}

Found == {call.result[i] : i \in DOMAIN call.result}

Overflowed == Len(call.result) > MaxLinks

\* Every frame is at most one level deeper than the last directory that may
\* be visited, and the number of paths is bounded whatever the volume holds.
TypeOK ==
  /\ Len(stack) <= MaxDirectoryDepth + 1
  /\ \A k \in DOMAIN stack :
       /\ stack[k].depth = k - 1
       /\ stack[k].idx \in DOMAIN paths
       /\ Len(paths[stack[k].idx]) >= stack[k].depth
  /\ call.pc \in {"idle", "busy", "done", "failed"}
  /\ calls \in 0..MaxCalls

\* GetHardLinks returns exactly the paths of the entry, unless there are more
\* than MaxLinks: every name of every directory on the way is followed, with
\* the sequence number the child asks for, also when an earlier call has
\* reordered the names in the cache.  No summary of these volumes has two short
\* names first where a walk returns to it: see EveryNameIsFollowed.
ExactlyThePaths ==
  call.pc = "done" /\ ~ Overflowed => Found = AllPaths(call.id)

\* A cycle of directories does not keep the resolver going.
Returns == call.pc = "busy" ~> call.pc = "done"

-----------------------------------------------------------------------------
(* What a comment of the repository says, and the code does not do. *)

\* hardlinks.go:72: "Walks the MFT entry to get all file names to this MFT
\* entry": what is returned is a path of the entry, also when there are more
\* of them than MaxLinks.
OnlyItsPaths == call.pc = "done" => Found \subseteq AllPaths(call.id)

\* The same line: no path of the entry is left out, unless there are more than
\* MaxLinks.  A call that swaps the first two names of a cached summary
\* (hardlinks.go:133) does so under a call that still ranges over them.
EveryNameIsFollowed ==
  call.pc = "done" /\ ~ Overflowed => AllPaths(call.id) \subseteq Found
=============================================================================

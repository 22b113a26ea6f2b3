-------------------------- MODULE HardLinks_proofs --------------------------
(***************************************************************************)
(* The walk of GetHardLinks, for every volume, every limit of its depth    *)
(* and of the number of its paths: what it returns, by frames that share   *)
(* the names of cached summaries and reorder them, are the paths that the  *)
(* names of the volume define, cycles of directories included.  Open       *)
(* follows them down again, through the indexes, and each line of a        *)
(* listing leads back to its file and stream.                              *)
(***************************************************************************)
EXTENDS Directories, Lemmas

-----------------------------------------------------------------------------
(* Sequences *)

LEMMA ReverseFacts ==
  ASSUME NEW R, NEW s \in Seq(R)
  PROVE  /\ Reverse(s) \in Seq(R) /\ Len(Reverse(s)) = Len(s)
         /\ \A k \in 1..Len(s) : Reverse(s)[k] = s[Len(s) - k + 1]
BY DEF Reverse

\* The reverse of two sequences is that of the second and then of the first.
LEMMA ReverseConcat ==
  ASSUME NEW R, NEW s \in Seq(R), NEW t \in Seq(R)
  PROVE  Reverse(s \o t) = Reverse(t) \o Reverse(s)
<1> DEFINE u == s \o t
           v == Reverse(t) \o Reverse(s)
<1>1. /\ u \in Seq(R) /\ Len(u) = Len(s) + Len(t) /\ Len(s) \in Nat /\ Len(t) \in Nat
      /\ \A k \in 1..Len(s) : u[k] = s[k]
      /\ \A k \in 1..Len(t) : u[Len(s) + k] = t[k]
  BY ConcatFacts
<1>2. /\ Reverse(s) \in Seq(R) /\ Len(Reverse(s)) = Len(s)
      /\ Reverse(t) \in Seq(R) /\ Len(Reverse(t)) = Len(t)
      /\ \A k \in 1..Len(s) : Reverse(s)[k] = s[Len(s) - k + 1]
      /\ \A k \in 1..Len(t) : Reverse(t)[k] = t[Len(t) - k + 1]
  BY ReverseFacts
<1>3. /\ v \in Seq(R) /\ Len(v) = Len(t) + Len(s)
      /\ \A k \in 1..Len(t) : v[k] = Reverse(t)[k]
      /\ \A k \in 1..Len(s) : v[Len(t) + k] = Reverse(s)[k]
  <2>0. PICK a, b : a = Reverse(t) /\ b = Reverse(s)
    OBVIOUS
  <2>1. v = a \o b /\ a \in Seq(R) /\ b \in Seq(R) /\ Len(a) = Len(t) /\ Len(b) = Len(s)
    BY <1>2, <2>0
  <2> HIDE DEF v
  <2>2. /\ a \o b \in Seq(R) /\ Len(a \o b) = Len(a) + Len(b)
        /\ \A k \in 1..Len(a) : (a \o b)[k] = a[k]
        /\ \A k \in 1..Len(b) : (a \o b)[Len(a) + k] = b[k]
    <3>1. a \in Seq(R) /\ b \in Seq(R)
      BY <2>1
    <3> QED BY <3>1, ConcatFacts
  <2> QED BY <2>0, <2>1, <2>2
<1> HIDE DEF u, v
<1>4. /\ Reverse(u) \in Seq(R) /\ Len(Reverse(u)) = Len(u)
      /\ \A k \in 1..Len(u) : Reverse(u)[k] = u[Len(u) - k + 1]
  BY <1>1, ReverseFacts
<1>5. ASSUME NEW k \in 1..Len(u) PROVE Reverse(u)[k] = v[k]
  <2>1. CASE k <= Len(t)
    <3>1. k \in 1..Len(t) /\ Len(t) - k + 1 \in 1..Len(t)
          /\ Len(u) - k + 1 = Len(s) + (Len(t) - k + 1)
      BY <1>1, <2>1
    <3>2. v[k] = t[Len(t) - k + 1]
      BY <1>2, <1>3, <3>1
    <3>3. Reverse(u)[k] = t[Len(t) - k + 1]
      BY <1>1, <1>4, <3>1
    <3> QED BY <3>2, <3>3
  <2>2. CASE ~ (k <= Len(t))
    <3> DEFINE m == k - Len(t)
    <3>1. /\ m \in 1..Len(s) /\ k = Len(t) + m /\ Len(s) - m + 1 \in 1..Len(s)
          /\ Len(u) - k + 1 = Len(s) - m + 1
      BY <1>1, <2>2
    <3> HIDE DEF m
    <3>2. v[k] = s[Len(s) - m + 1]
      BY <1>2, <1>3, <3>1
    <3>3. Reverse(u)[k] = s[Len(s) - m + 1]
      BY <1>1, <1>4, <3>1
    <3> QED BY <3>2, <3>3
  <2> QED BY <2>1, <2>2
<1>6. Reverse(u) = v
  BY <1>1, <1>3, <1>4, <1>5, SameSeq
<1> QED BY <1>6 DEF u, v

\* A step of the walk up, on the side of the path that is read downwards.
LEMMA ReverseStep ==
  ASSUME NEW R, NEW s \in Seq(R), NEW e \in R, NEW t \in Seq(R)
  PROVE  Reverse(Append(s, e) \o t) = Append(Reverse(t), e) \o Reverse(s)
<1> PICK one, a, b : one = <<e>> /\ a = Reverse(s) /\ b = Reverse(t)
  OBVIOUS
<1>1. /\ one \in Seq(R) /\ Len(one) = 1 /\ one[1] = e
      /\ Append(s, e) = s \o one /\ s \o one \in Seq(R)
  OBVIOUS
<1>2. a \in Seq(R) /\ b \in Seq(R)
  BY ReverseFacts
<1>3. Reverse(one) = one
  <2>1. /\ Reverse(one) \in Seq(R) /\ Len(Reverse(one)) = 1
        /\ \A k \in 1..1 : Reverse(one)[k] = one[1 - k + 1]
    <3>1. one \in Seq(R) /\ Len(one) = 1
      BY <1>1
    <3>2. /\ Reverse(one) \in Seq(R) /\ Len(Reverse(one)) = Len(one)
          /\ \A k \in 1..Len(one) : Reverse(one)[k] = one[Len(one) - k + 1]
      BY <3>1, ReverseFacts
    <3> QED BY <3>1, <3>2
  <2> QED BY <1>1, <2>1, SameSeq
<1>4. Reverse((s \o one) \o t) = Reverse(t) \o Reverse(s \o one)
  BY <1>1, ReverseConcat
<1>5. Reverse(s \o one) = one \o a
  BY <1>1, <1>3, ReverseConcat
<1>6. b \o (one \o a) = (b \o one) \o a /\ Append(b, e) = b \o one
  BY SMTT(30), <1>1, <1>2
<1> QED BY <1>1, <1>4, <1>5, <1>6

LEMMA ConcatNone == ASSUME NEW R, NEW s \in Seq(R) PROVE s \o << >> = s
OBVIOUS

LEMMA ReverseNone == Reverse(<< >>) = << >>
BY DEF Reverse

-----------------------------------------------------------------------------
(* What is in a set, of a sequence *)

Kept(before, e, S) == IF e \in S THEN Append(before, e) ELSE before

\* What only is in Only, up to n.
Keeps(f, s, S, n) == f = [i \in 0..n |-> IF i = 0 THEN << >> ELSE Kept(f[i - 1], s[i], S)]

LEMMA KeepsExists ==
  ASSUME NEW s, NEW S, NEW n \in Nat
  PROVE  \E f : Keeps(f, s, S, n)
<1> DEFINE T == {m \in Nat : \E f : Keeps(f, s, S, m)}
<1>1. 0 \in T
  <2> DEFINE f == [i \in 0..0 |-> << >>]
  <2>1. Keeps(f, s, S, 0)
    BY DEF Keeps
  <2> QED BY <2>1
<1>2. ASSUME NEW m \in Nat, m \in T PROVE m + 1 \in T
  <2>1. PICK f : Keeps(f, s, S, m)
    BY <1>2
  <2> DEFINE g == [i \in 0..(m + 1) |->
                     IF i # m + 1 THEN f[i] ELSE Kept(f[i - 1], s[i], S)]
             h == [i \in 0..(m + 1) |-> IF i = 0 THEN << >> ELSE Kept(g[i - 1], s[i], S)]
  <2>2. ASSUME NEW i \in 0..(m + 1) PROVE g[i] = h[i]
    <3>1. i = 0 \/ (i - 1 \in 0..(m + 1) /\ i - 1 # m + 1)
      OBVIOUS
    <3>2. i # 0 => g[i - 1] = f[i - 1]
      BY <3>1
    <3>3. CASE i = m + 1
      BY <3>2, <3>3
    <3>4. CASE i # m + 1
      <4>1. i \in 0..m
        BY <3>4
      <4>2. f[i] = IF i = 0 THEN << >> ELSE Kept(f[i - 1], s[i], S)
        BY <2>1, <4>1 DEF Keeps
      <4> QED BY <3>2, <3>4, <4>2
    <3> QED BY <3>3, <3>4
  <2>3. g = [i \in 0..(m + 1) |-> g[i]] /\ h = [i \in 0..(m + 1) |-> h[i]]
    OBVIOUS
  <2>4. g = h
    <3> HIDE DEF g, h
    <3> QED BY <2>2, <2>3
  <2>5. Keeps(g, s, S, m + 1)
    <3> HIDE DEF g
    <3> QED BY <2>4 DEF Keeps, h
  <2> QED BY <2>5
<1> HIDE DEF T
<1>3. n \in T
  BY <1>1, <1>2, SetInduction DEF T
<1> QED BY <1>3 DEF T

\* Only keeps the members of S, and as many as there are at the front at least.
LEMMA OnlyFacts ==
  ASSUME NEW R, NEW s \in Seq(R), NEW S
  PROVE  /\ Only(s, S) \in Seq(R)
         /\ ToSet(Only(s, S)) = ToSet(s) \cap S
         /\ \A m \in 0..Len(s) :
              (\A j \in 1..m : s[j] \in S) => Len(Only(s, S)) >= m
<1> DEFINE only == CHOOSE f : Keeps(f, s, S, Len(s))
<1>1. Len(s) \in Nat /\ DOMAIN s = 1..Len(s) /\ \A k \in 1..Len(s) : s[k] \in R
  BY SeqFacts
<1>2. Keeps(only, s, S, Len(s))
  BY <1>1, KeepsExists
<1>3. Only(s, S) = only[Len(s)]
  BY DEF Only, Keeps, Kept
<1> HIDE DEF only
<1> DEFINE Right(n) ==
      /\ only[n] \in Seq(R)
      /\ ToSet(only[n]) = {s[j] : j \in 1..n} \cap S
      /\ \A m \in 0..Len(s) :
           (\A j \in 1..m : s[j] \in S) => Len(only[n]) >= m \/ Len(only[n]) >= n
    T == {n \in Nat : n <= Len(s) => Right(n)}
<1>4. 0 \in T
  <2>1. only[0] = << >>
    BY <1>1, <1>2 DEF Keeps
  <2>2. ToSet(<< >>) = {}
    BY DEF ToSet
  <2>3. << >> \in Seq(R) /\ Len(<< >>) = 0 /\ {s[j] : j \in 1..0} = {}
    OBVIOUS
  <2>4. Right(0)
    BY <2>1, <2>2, <2>3
  <2> HIDE DEF Right
  <2> QED BY <2>4
<1>5. ASSUME NEW n \in Nat, n \in T PROVE n + 1 \in T
  <2> SUFFICES ASSUME n + 1 <= Len(s) PROVE Right(n + 1)
    OBVIOUS
  <2> PICK p : p = only[n]
    OBVIOUS
  <2> DEFINE e == s[n + 1]
  <2>1. only[n + 1] = Kept(p, e, S)
    <3>1. n + 1 \in 0..Len(s) /\ n + 1 # 0 /\ (n + 1) - 1 = n
      BY <1>1
    <3> QED BY <1>2, <3>1 DEF Keeps
  <2>2. Right(n)
    BY <1>1, <1>5
  <2>3. /\ p \in Seq(R) /\ ToSet(p) = {s[j] : j \in 1..n} \cap S
        /\ e \in R /\ n + 1 \in 1..Len(s) /\ Len(p) \in Nat
        /\ \A m \in 0..Len(s) :
             (\A j \in 1..m : s[j] \in S) => Len(p) >= m \/ Len(p) >= n
    BY <1>1, <2>2
  <2>4. {s[j] : j \in 1..(n + 1)} = {s[j] : j \in 1..n} \cup {e}
    <3>1. 1..(n + 1) = 1..n \cup {n + 1}
      OBVIOUS
    <3> QED BY <3>1
  <2> HIDE DEF e, Right
  <2>5. CASE e \in S
    <3>1. only[n + 1] = Append(p, e)
      BY <2>1, <2>5 DEF Kept
    <3>2. /\ Append(p, e) \in Seq(R) /\ Len(Append(p, e)) = Len(p) + 1
          /\ DOMAIN Append(p, e) = 1..(Len(p) + 1) /\ DOMAIN p = 1..Len(p)
          /\ \A k \in 1..Len(p) : Append(p, e)[k] = p[k]
          /\ Append(p, e)[Len(p) + 1] = e
      BY <2>3
    <3>3. ToSet(Append(p, e)) = ToSet(p) \cup {e}
      BY SMTT(30), <2>3, <3>2 DEF ToSet
    <3>4. ToSet(Append(p, e)) = {s[j] : j \in 1..(n + 1)} \cap S
      BY <2>3, <2>4, <2>5, <3>3
    <3>5. ASSUME NEW m \in 0..Len(s), \A j \in 1..m : s[j] \in S
          PROVE  Len(p) + 1 >= m \/ Len(p) + 1 >= n + 1
      <4>1. Len(p) >= m \/ Len(p) >= n
        BY <2>3, <3>5
      <4> QED BY <2>3, <4>1
    <3> QED BY <3>1, <3>2, <3>4, <3>5 DEF Right
  <2>6. CASE e \notin S
    <3>1. only[n + 1] = p
      BY <2>1, <2>6 DEF Kept
    <3>2. ToSet(p) = {s[j] : j \in 1..(n + 1)} \cap S
      BY <2>3, <2>4, <2>6
    <3>3. ASSUME NEW m \in 0..Len(s), \A j \in 1..m : s[j] \in S
          PROVE  Len(p) >= m \/ Len(p) >= n + 1
      <4>1. ~ (n + 1 \in 1..m)
        BY <2>6, <3>3 DEF e
      <4>2. m <= n
        BY <4>1
      <4> QED BY <2>3, <3>3, <4>2
    <3> QED BY <2>3, <3>1, <3>2, <3>3 DEF Right
  <2> QED BY <2>5, <2>6
<1>6. Right(Len(s))
  <2> HIDE DEF Right
  <2>1. T = Nat
    <3> HIDE DEF T
    <3> QED BY <1>4, <1>5, SetInduction DEF T
  <2> QED BY <1>1, <2>1
<1>7. ToSet(s) = {s[j] : j \in 1..Len(s)}
  BY <1>1 DEF ToSet
<1>8. ASSUME NEW m \in 0..Len(s), \A j \in 1..m : s[j] \in S PROVE Len(only[Len(s)]) >= m
  <2>1. Len(only[Len(s)]) >= m \/ Len(only[Len(s)]) >= Len(s)
    BY <1>6, <1>8
  <2>2. Len(only[Len(s)]) \in Nat
    BY <1>6
  <2> QED BY <1>1, <2>1, <2>2
<1> QED BY <1>3, <1>6, <1>7, <1>8

-----------------------------------------------------------------------------
(* The inductive invariant *)

\* Two short names come first: the one case in which reordering the names of a
\* summary leaves them in an order that is reordered again.
TwoShort(names) ==
  Len(names) > 1 /\ names[1].type = "DOS" /\ names[2].type = "DOS"

\* Reordering leaves these names as they are.
Steady(names) == Len(names) > 1 => names[1].type # "DOS"

\* The volume that is read, in whatever order its names are by now.
VolumeInv ==
  /\ mft = [id \in Ids |-> mft[id]]
  /\ preloaded = [k \in DOMAIN preloaded |-> preloaded[k]]
  /\ DOMAIN preloaded \subseteq Ids \X Nat
  /\ includeShortNames \in BOOLEAN
  /\ \A ref \in Refs :
       /\ IsSummary(Deref(ref)) /\ ~ TwoShort(Deref(ref).names)
       /\ ref.from = "mft" => [Deref(ref) EXCEPT !.names = LongFirst(@)] # None

Markers == {"<DirTooDeep>", "<UnknownEntry>", "<NoEntry>", "<WrongSequence>", "<Err>"}

Words == STRING \cup Markers

Frames ==
  [ref : Refs, shared : BOOLEAN, own : Seq(FileNames), idx : Nat, depth : Nat, i : Nat]

\* A frame has all the names of its summary that count, and the path that it
\* began with leads to it.
FrameInv(k) ==
  LET f     == stack[k]
      names == NamesOf(f)
  IN /\ f \in Frames
     /\ f.depth = k - 1
     /\ names \in Seq(FileNames) /\ Steady(names)
     /\ names # << >> /\ ToSet(names) = Usable(f.ref)
     /\ f.i \in 1..(Len(names) + 1)
     /\ f.idx \in DOMAIN paths /\ Len(paths[f.idx]) >= k - 1
     /\ f.i = 1 => k = Len(stack) /\ Len(paths[f.idx]) = k - 1

WalkInv ==
  /\ stack \in Seq(Frames) /\ Len(stack) <= MaxDirectoryDepth + 1
  /\ paths \in Seq(Seq(Words))
  /\ \A k \in DOMAIN stack : FrameInv(k)
  /\ call.pc # "busy" => stack = << >>

\* The paths above a file name, if n more directories may be visited.
Above(fn, n) ==
  LET up == GetSummary(fn.parent, fn.seq)
  IN IF fn.parent = Root THEN {<< >>}
     ELSE IF up = None THEN {<<"<Err>", "<NoEntry>">>}
     ELSE IF Deref(up).seq # fn.seq THEN {<<"<Err>", "<WrongSequence>">>}
     ELSE PathsAbove[n][up]

Through(fn, n) == {Append(p, fn.name) : p \in Above(fn, n)}

\* The directories between the one of a frame and the entry.
Below(k) == Reverse(SubSeq(paths[stack[k].idx], 1, k - 1))

\* What the names of a frame lead to, from the one at i.
LeftFrom(k, i) ==
  {p \o Below(k) :
     p \in UNION {Through(NamesOf(stack[k])[j], MaxDirectoryDepth + 1 - k) :
                    j \in i..Len(NamesOf(stack[k]))}}

\* What those lead to that it still has to visit.
Left(k) == LeftFrom(k, stack[k].i)

\* The path that the top frame has yet to begin.
IsOpen(j) == stack # << >> /\ Top.i = 1 /\ Top.idx = j

Finished == {Reverse(paths[j]) : j \in {x \in DOMAIN paths : ~ IsOpen(x)}}

Fits == Len(paths) <= MaxLinks + 1

\* The paths of the entry are those that are finished and those that are left.
PathsInv ==
  call.pc = "busy" =>
    /\ call.id \in Refs
    /\ \A j \in DOMAIN paths : j <= MaxLinks + 1 => paths[j] # << >> \/ IsOpen(j)
    /\ Fits => PathsAbove[MaxDirectoryDepth + 1][call.id]
                 = Finished \cup UNION {Left(k) : k \in DOMAIN stack}

CallInv ==
  /\ call.pc \in {"idle", "busy", "done", "failed"}
  /\ call = [pc |-> call.pc, id |-> call.id, result |-> call.result]
  /\ calls \in 0..MaxCalls
  /\ call.pc = "done" => Overflowed \/ Found = AllPaths(call.id)

IInv == VolumeInv /\ WalkInv /\ PathsInv /\ CallInv

-----------------------------------------------------------------------------
(* The names of a summary *)

\* Reordering keeps the names.
LEMMA LongFirstFacts ==
  ASSUME NEW names \in Seq(FileNames)
  PROVE  /\ LongFirst(names) \in Seq(FileNames)
         /\ ToSet(LongFirst(names)) = ToSet(names)
         /\ names # << >> => LongFirst(names) # << >>
         /\ Steady(names) => LongFirst(names) = names
         /\ ~ TwoShort(names) =>
              Steady(LongFirst(names)) /\ ~ TwoShort(LongFirst(names))
<1>1. CASE Len(names) > 1 /\ names[1].type = "DOS"
  <2> PICK new : new = LongFirst(names)
    OBVIOUS
  <2>1. /\ new = [names EXCEPT ![1] = names[2], ![2] = names[1]]
        /\ DOMAIN names = 1..Len(names) /\ Len(names) \in Nat
        /\ \A k \in 1..Len(names) : names[k] \in FileNames
    BY <1>1 DEF LongFirst
  <2>2. /\ DOMAIN new = 1..Len(names) /\ 1 \in 1..Len(names) /\ 2 \in 1..Len(names)
        /\ new[1] = names[2] /\ new[2] = names[1]
        /\ \A k \in 1..Len(names) : k # 1 /\ k # 2 => new[k] = names[k]
        /\ new = [k \in 1..Len(names) |-> new[k]]
    <3>1. PICK mid : mid = [names EXCEPT ![1] = names[2]]
      OBVIOUS
    <3>2. /\ 1 \in 1..Len(names) /\ 2 \in 1..Len(names) /\ DOMAIN mid = 1..Len(names)
          /\ mid[1] = names[2]
          /\ \A k \in 1..Len(names) : k # 1 => mid[k] = names[k]
      BY <1>1, <2>1, <3>1
    <3>3. new = [mid EXCEPT ![2] = names[1]]
      BY <2>1, <3>1
    <3>4. new = [k \in 1..Len(names) |-> new[k]] /\ DOMAIN new = 1..Len(names)
      BY <3>2, <3>3
    <3>5. /\ new[2] = names[1] /\ new[1] = names[2]
          /\ \A k \in 1..Len(names) : k # 1 /\ k # 2 => new[k] = names[k]
      BY <3>2, <3>3
    <3> QED BY <3>2, <3>4, <3>5
  <2>3. new \in Seq(FileNames) /\ Len(new) = Len(names)
    <3>1. \A k \in 1..Len(names) : new[k] \in FileNames
      BY <2>1, <2>2
    <3> QED BY <2>1, <2>2, <3>1
  <2>4. ToSet(new) = ToSet(names)
    BY <2>1, <2>2 DEF ToSet
  <2>5. ~ Steady(names) /\ new # << >>
    BY <1>1, <2>3 DEF Steady
  <2>6. ~ TwoShort(names) => Steady(new) /\ ~ TwoShort(new)
    BY <1>1, <2>2 DEF TwoShort, Steady
  <2> QED BY <2>3, <2>4, <2>5, <2>6
<1>2. CASE ~ (Len(names) > 1 /\ names[1].type = "DOS")
  <2>1. LongFirst(names) = names
    BY <1>2 DEF LongFirst
  <2> QED BY <1>2, <2>1 DEF Steady, TwoShort
<1> QED BY <1>1, <1>2

LEMMA Types ==
  ASSUME NEW fn \in FileNames
  PROVE  /\ fn.name \in STRING /\ fn.seq \in Nat /\ fn.parent \in Ids \cup {Root}
         /\ fn.name \in Words
BY DEF FileNames, Words

-----------------------------------------------------------------------------
(* The volume *)

LEMMA RefFacts ==
  ASSUME VolumeInv, NEW ref \in Refs
  PROVE  /\ IsSummary(Deref(ref)) /\ Deref(ref).names \in Seq(FileNames)
         /\ ~ TwoShort(Deref(ref).names)
         /\ \/ ref.from = "mft" /\ ref.id \in Ids /\ ref = InMft(ref.id) /\ mft[ref.id] # None
            \/ /\ ref.from = "preloaded" /\ <<ref.id, ref.seq>> \in DOMAIN preloaded
               /\ ref = Preload(ref.id, ref.seq)
<1>1. IsSummary(Deref(ref)) /\ ~ TwoShort(Deref(ref).names)
  BY DEF VolumeInv
<1>2. CASE \E id \in Ids : mft[id] # None /\ ref = InMft(id)
  BY <1>1, <1>2 DEF IsSummary, InMft
<1>3. CASE \E k \in DOMAIN preloaded : ref = Preload(k[1], k[2])
  <2>1. PICK k \in DOMAIN preloaded : ref = Preload(k[1], k[2])
    BY <1>3
  <2>2. k = <<k[1], k[2]>>
    BY DEF VolumeInv
  <2>3. ref.from = "preloaded" /\ ref.id = k[1] /\ ref.seq = k[2]
    BY <2>1 DEF Preload
  <2> QED BY <1>1, <2>1, <2>2, <2>3 DEF IsSummary
<1> QED BY <1>2, <1>3 DEF Refs

LEMMA GetSummaryIn ==
  ASSUME VolumeInv, NEW id \in Ids, NEW seq, GetSummary(id, seq) # None
  PROVE  GetSummary(id, seq) \in Refs
<1>1. mft[id] # None
  BY DEF GetSummary
<1>2. CASE mft[id].seq # seq /\ <<id, seq>> \in DOMAIN preloaded
  <2>1. Preload(id, seq) \in Refs
    <3>1. PICK k : k = <<id, seq>>
      OBVIOUS
    <3>2. k \in DOMAIN preloaded /\ k[1] = id /\ k[2] = seq
      BY <1>2, <3>1
    <3>3. Preload(k[1], k[2]) \in Refs
      BY <3>2 DEF Refs
    <3> QED BY <3>2, <3>3
  <2> QED BY <1>1, <1>2, <2>1 DEF GetSummary
<1>3. CASE ~ (mft[id].seq # seq /\ <<id, seq>> \in DOMAIN preloaded)
  BY <1>1, <1>3 DEF GetSummary, Refs
<1> QED BY <1>2, <1>3

-----------------------------------------------------------------------------
(* The paths above, level by level *)

Zeroth == [ref \in Refs |-> {<<"<Err>", "<DirTooDeep>">>}]

\* As Above, with what lies above the parent in prev.
AboveBy(fn, prev) ==
  LET up == GetSummary(fn.parent, fn.seq)
  IN IF fn.parent = Root THEN {<< >>}
     ELSE IF up = None THEN {<<"<Err>", "<NoEntry>">>}
     ELSE IF Deref(up).seq # fn.seq THEN {<<"<Err>", "<WrongSequence>">>}
     ELSE prev[up]

Level(prev) ==
  [ref \in Refs |->
     IF Usable(ref) = {} THEN {<<"<Err>", "<UnknownEntry>">>}
     ELSE UNION {{Append(p, fn.name) : p \in AboveBy(fn, prev)} : fn \in Usable(ref)}]

Levels(f, n) == f = [m \in 0..n |-> IF m = 0 THEN Zeroth ELSE Level(f[m - 1])]

LEMMA LevelsExist ==
  ASSUME NEW n \in Nat
  PROVE  \E f : Levels(f, n)
<1> DEFINE T == {m \in Nat : \E f : Levels(f, m)}
<1>1. 0 \in T
  <2> DEFINE f == [i \in 0..0 |-> Zeroth]
  <2>1. Levels(f, 0)
    BY DEF Levels
  <2> QED BY <2>1
<1>2. ASSUME NEW m \in Nat, m \in T PROVE m + 1 \in T
  <2>1. PICK f : Levels(f, m)
    BY <1>2
  <2> DEFINE g == [i \in 0..(m + 1) |-> IF i # m + 1 THEN f[i] ELSE Level(f[i - 1])]
             h == [i \in 0..(m + 1) |-> IF i = 0 THEN Zeroth ELSE Level(g[i - 1])]
  <2>2. ASSUME NEW i \in 0..(m + 1) PROVE g[i] = h[i]
    <3>1. i = 0 \/ (i - 1 \in 0..(m + 1) /\ i - 1 # m + 1)
      OBVIOUS
    <3>2. i # 0 => g[i - 1] = f[i - 1]
      BY <3>1
    <3>3. CASE i = m + 1
      BY <3>2, <3>3
    <3>4. CASE i # m + 1
      <4>1. i \in 0..m
        BY <3>4
      <4>2. f[i] = IF i = 0 THEN Zeroth ELSE Level(f[i - 1])
        BY <2>1, <4>1 DEF Levels
      <4> QED BY <3>2, <3>4, <4>2
    <3> QED BY <3>3, <3>4
  <2>3. g = [i \in 0..(m + 1) |-> g[i]] /\ h = [i \in 0..(m + 1) |-> h[i]]
    OBVIOUS
  <2>4. g = h
    <3> HIDE DEF g, h
    <3> QED BY <2>2, <2>3
  <2>5. Levels(g, m + 1)
    <3> HIDE DEF g
    <3> QED BY <2>4 DEF Levels, h
  <2> QED BY <2>5
<1> HIDE DEF T
<1>3. n \in T
  BY <1>1, <1>2, SetInduction DEF T
<1> QED BY <1>3 DEF T

PathsAboveLevels == Levels(PathsAbove, MaxDirectoryDepth + 1)

\* PathsAbove is the function that its definition describes.
LEMMA PathsAboveIs == PathsAboveLevels
<1> DEFINE Body(f) ==
      [n \in 0..(MaxDirectoryDepth + 1) |->
         [ref \in Refs |->
            IF n = 0 THEN {<<"<Err>", "<DirTooDeep>">>}
            ELSE IF Usable(ref) = {} THEN {<<"<Err>", "<UnknownEntry>">>}
            ELSE UNION {{Append(p, fn.name) : p \in AboveBy(fn, f[n - 1])} : fn \in Usable(ref)}]]
<1>1. ASSUME NEW f PROVE Levels(f, MaxDirectoryDepth + 1) <=> f = Body(f)
  <2> DEFINE A == [m \in 0..(MaxDirectoryDepth + 1) |->
                     IF m = 0 THEN Zeroth ELSE Level(f[m - 1])]
  <2>1. ASSUME NEW m \in 0..(MaxDirectoryDepth + 1) PROVE A[m] = Body(f)[m]
    <3>1. CASE m = 0
      BY <3>1 DEF Zeroth
    <3>2. CASE m # 0
      BY <3>2 DEF Level
    <3> QED BY <3>1, <3>2
  <2>2. A = Body(f)
    <3>1. /\ A = [m \in 0..(MaxDirectoryDepth + 1) |-> A[m]]
          /\ Body(f) = [m \in 0..(MaxDirectoryDepth + 1) |-> Body(f)[m]]
      OBVIOUS
    <3> HIDE DEF A, Body
    <3> QED BY <2>1, <3>1
  <2> QED BY <2>2 DEF Levels
<1>2. PathsAbove = CHOOSE f : f = Body(f)
  BY DEF PathsAbove, AboveBy
<1>3. MaxDirectoryDepth + 1 \in Nat
  BY OptionsAssumption
<1>4. \E f : f = Body(f)
  <2> HIDE DEF Body
  <2>1. PICK f : Levels(f, MaxDirectoryDepth + 1)
    BY <1>3, LevelsExist
  <2> QED BY <1>1, <2>1
<1>5. PathsAbove = Body(PathsAbove)
  <2> HIDE DEF Body
  <2> QED BY <1>2, <1>4
<1> HIDE DEF Body
<1> QED BY <1>1, <1>5 DEF PathsAboveLevels

LEMMA PathsAboveIsPrimed == PathsAboveLevels'
BY PathsAboveIs, PTL

LEMMA PathsAboveFacts ==
  ASSUME NEW n \in 0..(MaxDirectoryDepth + 1), NEW ref \in Refs
  PROVE  /\ n = 0 => PathsAbove[n][ref] = {<<"<Err>", "<DirTooDeep>">>}
         /\ n # 0 /\ Usable(ref) = {} =>
              PathsAbove[n][ref] = {<<"<Err>", "<UnknownEntry>">>}
         /\ n # 0 /\ Usable(ref) # {} =>
              PathsAbove[n][ref] = UNION {Through(fn, n - 1) : fn \in Usable(ref)}
<1>1. PathsAbove[n] = IF n = 0 THEN Zeroth ELSE Level(PathsAbove[n - 1])
  BY PathsAboveIs DEF PathsAboveLevels, Levels
<1>2. CASE n = 0
  BY <1>1, <1>2 DEF Zeroth
<1>3. CASE n # 0
  <2>1. PathsAbove[n][ref] = Level(PathsAbove[n - 1])[ref]
    BY <1>1, <1>3
  <2>2. \A fn : {Append(p, fn.name) : p \in AboveBy(fn, PathsAbove[n - 1])} = Through(fn, n - 1)
    BY DEF AboveBy, Through, Above
  <2>3. {{Append(p, fn.name) : p \in AboveBy(fn, PathsAbove[n - 1])} : fn \in Usable(ref)}
          = {Through(fn, n - 1) : fn \in Usable(ref)}
    BY <2>2
  <2> QED BY <1>3, <2>1, <2>3 DEF Level
<1> QED BY <1>2, <1>3

\* The volume is the same, but for the order in which it has the names.
SameVolume ==
  /\ Refs' = Refs
  /\ \A id \in Ids : \A seq \in Nat : GetSummary(id, seq)' = GetSummary(id, seq)
  /\ \A ref \in Refs :
       /\ Deref(ref)'.seq = Deref(ref).seq
       /\ Usable(ref)' = Usable(ref)
       /\ Steady(Deref(ref).names) => Deref(ref)'.names = Deref(ref).names

LEMMA UsableFacts ==
  ASSUME VolumeInv, NEW ref \in Refs
  PROVE  /\ Usable(ref) \subseteq FileNames
         /\ Usable(ref) = {} <=> Deref(ref).names = << >>
<1> PICK names : names = Deref(ref).names
  OBVIOUS
<1>1. names \in Seq(FileNames)
  BY RefFacts
<1>2. ToSet(names) \subseteq FileNames
  BY <1>1 DEF ToSet
<1>3. ToSet(names) = {} <=> names = << >>
  <2>1. Len(names) \in Nat /\ DOMAIN names = 1..Len(names) /\ (Len(names) = 0 <=> names = << >>)
    BY <1>1, SeqFacts
  <2>2. Len(names) # 0 => names[1] \in ToSet(names)
    BY <2>1 DEF ToSet
  <2>3. Len(names) = 0 => ToSet(names) = {}
    BY <2>1 DEF ToSet
  <2> QED BY <2>1, <2>2, <2>3
<1> QED BY <1>2, <1>3 DEF Usable, Filters, LongNames

\* Then the paths are the same.
LEMMA SamePaths ==
  ASSUME VolumeInv, SameVolume
  PROVE  /\ \A n \in 0..(MaxDirectoryDepth + 1) : PathsAbove'[n] = PathsAbove[n]
         /\ \A fn \in FileNames : \A n \in 0..(MaxDirectoryDepth + 1) :
              Through(fn, n)' = Through(fn, n)
<1>1. ASSUME NEW fn \in FileNames, NEW prev PROVE AboveBy(fn, prev)' = AboveBy(fn, prev)
  <2>1. fn.parent \in Ids \cup {Root} /\ fn.seq \in Nat
    BY Types
  <2>2. CASE fn.parent = Root
    BY <2>2 DEF AboveBy
  <2>3. CASE fn.parent # Root
    <3> PICK up : up = GetSummary(fn.parent, fn.seq)
      OBVIOUS
    <3>1. GetSummary(fn.parent, fn.seq)' = up
      BY <2>1, <2>3 DEF SameVolume
    <3>2. up # None => up \in Refs /\ Deref(up)'.seq = Deref(up).seq
      BY <2>1, <2>3, GetSummaryIn DEF SameVolume
    <3>3. AboveBy(fn, prev) = IF up = None THEN {<<"<Err>", "<NoEntry>">>}
                              ELSE IF Deref(up).seq # fn.seq THEN {<<"<Err>", "<WrongSequence>">>}
                              ELSE prev[up]
      BY <2>3 DEF AboveBy
    <3>4. AboveBy(fn, prev)' = IF up = None THEN {<<"<Err>", "<NoEntry>">>}
                               ELSE IF Deref(up)'.seq # fn.seq THEN {<<"<Err>", "<WrongSequence>">>}
                               ELSE prev[up]
      BY <2>3, <3>1 DEF AboveBy
    <3> QED BY <3>2, <3>3, <3>4
  <2> QED BY <2>2, <2>3
<1>2. ASSUME NEW prev PROVE Level(prev)' = Level(prev)
  <2> DEFINE New(ref) ==
        IF Usable(ref)' = {} THEN {<<"<Err>", "<UnknownEntry>">>}
        ELSE UNION {{Append(p, fn.name) : p \in AboveBy(fn, prev)'} : fn \in Usable(ref)'}
      Old(ref) ==
        IF Usable(ref) = {} THEN {<<"<Err>", "<UnknownEntry>">>}
        ELSE UNION {{Append(p, fn.name) : p \in AboveBy(fn, prev)} : fn \in Usable(ref)}
  <2>1. ASSUME NEW ref \in Refs PROVE New(ref) = Old(ref)
    <3>1. Usable(ref)' = Usable(ref) /\ Usable(ref) \subseteq FileNames
      BY UsableFacts DEF SameVolume
    <3>2. {{Append(p, fn.name) : p \in AboveBy(fn, prev)'} : fn \in Usable(ref)}
            = {{Append(p, fn.name) : p \in AboveBy(fn, prev)} : fn \in Usable(ref)}
      BY <1>1, <3>1
    <3> QED BY <3>1, <3>2
  <2>2. Level(prev)' = [ref \in Refs' |-> New(ref)] /\ Level(prev) = [ref \in Refs |-> Old(ref)]
    BY DEF Level
  <2>3. Refs' = Refs
    BY DEF SameVolume
  <2> HIDE DEF New, Old
  <2> QED BY <2>1, <2>2, <2>3
<1>3. Zeroth' = Zeroth
  BY DEF Zeroth, SameVolume
<1>4. MaxDirectoryDepth + 1 \in Nat
  BY OptionsAssumption
<1> DEFINE D == MaxDirectoryDepth + 1
           T == {n \in Nat : n <= D => PathsAbove'[n] = PathsAbove[n]}
<1> HIDE DEF D
<1>5. ASSUME NEW n \in Nat, n <= D
      PROVE  /\ PathsAbove[n] = IF n = 0 THEN Zeroth ELSE Level(PathsAbove[n - 1])
             /\ PathsAbove'[n] = IF n = 0 THEN Zeroth' ELSE Level(PathsAbove[n - 1])'
  <2>1. n \in 0..D
    BY <1>4, <1>5 DEF D
  <2>2. /\ PathsAbove = [m \in 0..D |-> IF m = 0 THEN Zeroth ELSE Level(PathsAbove[m - 1])]
        /\ PathsAbove' = [m \in 0..D |-> IF m = 0 THEN Zeroth' ELSE Level(PathsAbove[m - 1])']
    BY PathsAboveIs, PathsAboveIsPrimed DEF PathsAboveLevels, Levels, D
  <2> QED BY <2>1, <2>2
<1>6. 0 \in T
  BY <1>3, <1>5
<1>7. ASSUME NEW n \in Nat, n \in T PROVE n + 1 \in T
  <2> SUFFICES ASSUME n + 1 <= D PROVE PathsAbove'[n + 1] = PathsAbove[n + 1]
    OBVIOUS
  <2>1. n <= D /\ n + 1 # 0 /\ (n + 1) - 1 = n
    BY <1>4 DEF D
  <2>2. PathsAbove'[n] = PathsAbove[n]
    BY <1>7, <2>1
  <2>3. /\ PathsAbove[n + 1] = Level(PathsAbove[n])
        /\ PathsAbove'[n + 1] = Level(PathsAbove[n])'
    BY <1>5, <2>1
  <2>4. PICK prev : prev = PathsAbove[n]
    OBVIOUS
  <2>5. Level(PathsAbove[n])' = Level(prev)'
    BY <2>2, <2>4 DEF Level, AboveBy
  <2> QED BY <1>2, <2>3, <2>4, <2>5
<1>8. \A n \in 0..(MaxDirectoryDepth + 1) : PathsAbove'[n] = PathsAbove[n]
  <2> HIDE DEF T
  <2>1. T = Nat
    BY <1>6, <1>7, SetInduction DEF T
  <2> QED BY <1>4, <2>1 DEF T, D
<1>9. ASSUME NEW fn \in FileNames, NEW n \in 0..(MaxDirectoryDepth + 1)
      PROVE  Through(fn, n)' = Through(fn, n)
  <2> PICK prev : prev = PathsAbove[n]
    OBVIOUS
  <2>1. PathsAbove'[n] = prev
    BY <1>8
  <2>2. Above(fn, n) = AboveBy(fn, prev) /\ Above(fn, n)' = AboveBy(fn, prev)'
    BY <2>1 DEF Above, AboveBy
  <2> QED BY <1>1, <2>2 DEF Through
<1> QED BY <1>8, <1>9

LEMMA UpdateFacts ==
  ASSUME NEW s, IsSummary(s), NEW names \in Seq(FileNames), NEW new,
         new = [s EXCEPT !.names = names]
  PROVE  IsSummary(new) /\ new.names = names /\ new.seq = s.seq
         /\ DOMAIN new = DOMAIN s
<1>1. new.names = names /\ new.seq = s.seq /\ DOMAIN new = DOMAIN s
      /\ new = [x \in DOMAIN s |-> new[x]]
  BY DEF IsSummary
<1> QED BY <1>1 DEF IsSummary

\* What changes when the names of one summary are reordered, and what does not.
LEMMA Reorder ==
  ASSUME VolumeInv, NEW ref \in Refs, SetNames(ref, LongFirst(Deref(ref).names)),
         UNCHANGED includeShortNames
  PROVE  VolumeInv' /\ SameVolume /\ Deref(ref)'.names = LongFirst(Deref(ref).names)
<1> PICK old, names, new : old = Deref(ref) /\ names = old.names /\ new = LongFirst(names)
  OBVIOUS
<1> PICK upd : upd = [old EXCEPT !.names = new]
  OBVIOUS
<1>1. IsSummary(old) /\ names \in Seq(FileNames) /\ ~ TwoShort(names)
  BY RefFacts
<1>2. /\ new \in Seq(FileNames) /\ ToSet(new) = ToSet(names)
      /\ (Steady(names) => new = names) /\ Steady(new) /\ ~ TwoShort(new)
      /\ LongFirst(new) = new
  BY <1>1, LongFirstFacts
<1>3. IsSummary(upd) /\ upd.names = new /\ upd.seq = old.seq
  BY <1>1, <1>2, UpdateFacts
<1>4. ref.from = "mft" => upd # None
  BY DEF VolumeInv
<1>5. /\ \A r \in Refs : Deref(r)' = IF r = ref THEN upd ELSE Deref(r)
      /\ \A id \in Ids : (mft'[id] = None <=> mft[id] = None) /\ mft'[id].seq = mft[id].seq
      /\ DOMAIN preloaded' = DOMAIN preloaded
      /\ mft' = [id \in Ids |-> mft'[id]]
      /\ preloaded' = [k \in DOMAIN preloaded' |-> preloaded'[k]]
  <2>1. CASE ref.from = "mft"
    <3>1. ref.id \in Ids /\ ref = InMft(ref.id) /\ old = mft[ref.id] /\ mft[ref.id] # None
      BY <2>1, RefFacts DEF Deref
    <3>2. mft' = [mft EXCEPT ![ref.id].names = new] /\ preloaded' = preloaded
      BY <2>1 DEF SetNames
    <3>3. mft = [id \in Ids |-> mft[id]] /\ preloaded = [k \in DOMAIN preloaded |-> preloaded[k]]
      BY DEF VolumeInv
    <3>4. /\ mft'[ref.id] = upd
          /\ \A id \in Ids : id # ref.id => mft'[id] = mft[id]
          /\ mft' = [id \in Ids |-> mft'[id]]
      BY <3>1, <3>2, <3>3
    <3>5. ASSUME NEW r \in Refs PROVE Deref(r)' = IF r = ref THEN upd ELSE Deref(r)
      <4>1. CASE r.from = "mft"
        <5>1. r.id \in Ids /\ r = InMft(r.id)
          BY <4>1, RefFacts
        <5>2. r.id = ref.id <=> r = ref
          BY <3>1, <5>1
        <5> QED BY <3>4, <4>1, <5>1, <5>2 DEF Deref
      <4>2. CASE r.from # "mft"
        <5>1. r # ref
          BY <2>1, <4>2
        <5> QED BY <3>2, <4>2, <5>1 DEF Deref
      <4> QED BY <4>1, <4>2
    <3>6. \A id \in Ids : (mft'[id] = None <=> mft[id] = None) /\ mft'[id].seq = mft[id].seq
      BY <1>3, <1>4, <2>1, <3>1, <3>4
    <3> QED BY ZenonT(60), <3>2, <3>3, <3>4, <3>5, <3>6
  <2>2. CASE ref.from # "mft"
    <3> PICK key : key = <<ref.id, ref.seq>>
      OBVIOUS
    <3>1. /\ ref.from = "preloaded" /\ key \in DOMAIN preloaded
          /\ ref = Preload(ref.id, ref.seq) /\ old = preloaded[key]
      BY <2>2, RefFacts DEF Deref
    <3>2. preloaded' = [preloaded EXCEPT ![key].names = new] /\ mft' = mft
      BY <2>2 DEF SetNames
    <3>3. mft = [id \in Ids |-> mft[id]] /\ preloaded = [k \in DOMAIN preloaded |-> preloaded[k]]
      BY DEF VolumeInv
    <3>4. /\ preloaded'[key] = upd /\ DOMAIN preloaded' = DOMAIN preloaded
          /\ \A k \in DOMAIN preloaded : k # key => preloaded'[k] = preloaded[k]
          /\ preloaded' = [k \in DOMAIN preloaded' |-> preloaded'[k]]
      BY <3>1, <3>2, <3>3
    <3>5. ASSUME NEW r \in Refs PROVE Deref(r)' = IF r = ref THEN upd ELSE Deref(r)
      <4>1. CASE r.from = "mft"
        <5>1. r # ref
          BY <2>2, <4>1
        <5> QED BY <3>2, <4>1, <5>1 DEF Deref
      <4>2. CASE r.from # "mft"
        <5>1. /\ <<r.id, r.seq>> \in DOMAIN preloaded
              /\ r = Preload(r.id, r.seq)
          BY <4>2, RefFacts
        <5>2. <<r.id, r.seq>> = key <=> r = ref
          BY <3>1, <5>1
        <5> QED BY <3>4, <4>2, <5>1, <5>2 DEF Deref
      <4> QED BY <4>1, <4>2
    <3> QED BY <3>2, <3>3, <3>4, <3>5
  <2> QED BY <2>1, <2>2
<1>6. Refs' = Refs
  <2>1. {x \in Ids : mft'[x] # None} = {x \in Ids : mft[x] # None}
    BY <1>5
  <2> QED BY <1>5, <2>1 DEF Refs
<1>7. ASSUME NEW id \in Ids, NEW seq \in Nat PROVE GetSummary(id, seq)' = GetSummary(id, seq)
  BY <1>5 DEF GetSummary
<1>8. ASSUME NEW r \in Refs
      PROVE  /\ IsSummary(Deref(r)') /\ ~ TwoShort(Deref(r)'.names)
             /\ r.from = "mft" => [Deref(r)' EXCEPT !.names = LongFirst(@)] # None
  <2>1. CASE r = ref
    <3>1. Deref(r)' = upd
      BY <1>5, <2>1
    <3>2. [upd EXCEPT !.names = LongFirst(@)] = upd
      BY <1>2, <1>3 DEF IsSummary
    <3> QED BY <1>2, <1>3, <1>4, <2>1, <3>1, <3>2
  <2>2. CASE r # ref
    BY <1>5, <2>2 DEF VolumeInv
  <2> QED BY <2>1, <2>2
<1>9. VolumeInv'
  BY <1>5, <1>6, <1>8 DEF VolumeInv
<1>10. ASSUME NEW r \in Refs
       PROVE  /\ Deref(r)'.seq = Deref(r).seq
              /\ Usable(r)' = Usable(r)
              /\ Steady(Deref(r).names) => Deref(r)'.names = Deref(r).names
  <2>1. /\ Deref(r)'.seq = Deref(r).seq
        /\ ToSet(Deref(r)'.names) = ToSet(Deref(r).names)
        /\ Steady(Deref(r).names) => Deref(r)'.names = Deref(r).names
    BY <1>2, <1>3, <1>5
  <2> QED BY <2>1 DEF Usable, Filters, LongNames
<1> QED BY <1>3, <1>5, <1>6, <1>7, <1>9, <1>10 DEF SameVolume

LEMMA Unordered ==
  ASSUME VolumeInv, UNCHANGED <<mft, preloaded, includeShortNames>>
  PROVE  VolumeInv' /\ SameVolume
<1>1. /\ Refs' = Refs
      /\ \A ref : Deref(ref)' = Deref(ref) /\ Usable(ref)' = Usable(ref)
      /\ \A id, seq : GetSummary(id, seq)' = GetSummary(id, seq)
  BY DEF Refs, Deref, GetSummary, Usable, Filters
<1>2. VolumeInv'
  BY <1>1 DEF VolumeInv
<1> QED BY <1>1, <1>2 DEF SameVolume

-----------------------------------------------------------------------------
(* The visit of a directory *)

\* The path ends there, with a marker, and that is the path above.
Ended(ref, idx, depth, ps, below, marker) ==
  /\ paths' = [ps EXCEPT ![idx] = @ \o <<marker, "<Err>">>]
  /\ stack' = below
  /\ PathsAbove[MaxDirectoryDepth + 1 - depth][ref] = {<<"<Err>", marker>>}

\* A frame goes on with its names.
Opened(ref, idx, depth, ps, below, frame) ==
  /\ depth <= MaxDirectoryDepth
  /\ paths' = ps /\ stack' = Append(below, frame)
  /\ frame.ref = ref /\ frame.idx = idx /\ frame.depth = depth /\ frame.i = 1
  /\ NamesOf(frame)' \in Seq(FileNames) /\ Steady(NamesOf(frame)')
  /\ NamesOf(frame)' # << >> /\ ToSet(NamesOf(frame)') = Usable(ref)
  /\ PathsAbove[MaxDirectoryDepth + 1 - depth][ref]
       = UNION {Through(fn, MaxDirectoryDepth - depth) : fn \in Usable(ref)}

LEMMA VisitLemma ==
  ASSUME VolumeInv, UNCHANGED includeShortNames,
         NEW ref \in Refs, NEW depth \in 0..(MaxDirectoryDepth + 1),
         NEW ps, NEW idx \in Nat, NEW below, Visit(ref, idx, depth, ps, below)
  PROVE  /\ VolumeInv' /\ SameVolume
         /\ \/ \E marker \in Markers : Ended(ref, idx, depth, ps, below, marker)
            \/ \E frame \in Frames : Opened(ref, idx, depth, ps, below, frame)
<1> DEFINE n == MaxDirectoryDepth + 1 - depth
<1> PICK names : names = Deref(ref).names
  OBVIOUS
<1>1. /\ MaxDirectoryDepth \in Nat /\ n \in 0..(MaxDirectoryDepth + 1)
      /\ n = 0 <=> depth > MaxDirectoryDepth
      /\ n - 1 = MaxDirectoryDepth - depth
  BY OptionsAssumption
<1> HIDE DEF n
<1>2. /\ names \in Seq(FileNames) /\ ~ TwoShort(names)
      /\ Usable(ref) = {} <=> names = << >>
  BY RefFacts, UsableFacts
<1>3. CASE depth > MaxDirectoryDepth
  <2>1. PathsAbove[n][ref] = {<<"<Err>", "<DirTooDeep>">>}
    BY <1>1, <1>3, PathsAboveFacts
  <2>2. /\ paths' = [ps EXCEPT ![idx] = @ \o <<"<DirTooDeep>", "<Err>">>]
        /\ stack' = below /\ UNCHANGED <<mft, preloaded>>
    BY <1>3 DEF Visit, TooDeep
  <2>3. Ended(ref, idx, depth, ps, below, "<DirTooDeep>")
    BY <2>1, <2>2 DEF Ended, n
  <2>4. VolumeInv' /\ SameVolume
    BY <2>2, Unordered
  <2>5. "<DirTooDeep>" \in Markers
    BY DEF Markers
  <2> QED BY <2>3, <2>4, <2>5
<1>4. CASE ~ (depth > MaxDirectoryDepth) /\ names = << >>
  <2>1. PathsAbove[n][ref] = {<<"<Err>", "<UnknownEntry>">>}
    BY <1>1, <1>2, <1>4, PathsAboveFacts
  <2>2. /\ paths' = [ps EXCEPT ![idx] = @ \o <<"<UnknownEntry>", "<Err>">>]
        /\ stack' = below /\ UNCHANGED <<mft, preloaded>>
    BY <1>4 DEF Visit, TooDeep
  <2>3. Ended(ref, idx, depth, ps, below, "<UnknownEntry>")
    BY <2>1, <2>2 DEF Ended, n
  <2>4. VolumeInv' /\ SameVolume
    BY <2>2, Unordered
  <2>5. "<UnknownEntry>" \in Markers
    BY DEF Markers
  <2> QED BY <2>3, <2>4, <2>5
<1>5. CASE ~ (depth > MaxDirectoryDepth) /\ names # << >>
  <2>1. /\ depth <= MaxDirectoryDepth /\ depth \in Nat
        /\ PathsAbove[n][ref]
             = UNION {Through(fn, MaxDirectoryDepth - depth) : fn \in Usable(ref)}
    BY <1>1, <1>2, <1>5, PathsAboveFacts
  <2>2. CASE Filters(names)
    <3> PICK kept : kept = Only(names, LongNames(names))
      OBVIOUS
    <3> PICK own : own = LongFirst(kept)
      OBVIOUS
    <3> PICK frame : frame = [ref |-> ref, shared |-> FALSE, own |-> own,
                              idx |-> idx, depth |-> depth, i |-> 1]
      OBVIOUS
    <3>1. /\ paths' = ps /\ stack' = Append(below, frame) /\ UNCHANGED <<mft, preloaded>>
      BY <1>5, <2>2 DEF Visit, TooDeep
    <3>2. kept \in Seq(FileNames) /\ ToSet(kept) = ToSet(names) \cap LongNames(names)
      BY <1>2, OnlyFacts
    <3>3. /\ ToSet(kept) = LongNames(names) /\ LongNames(names) # {}
          /\ \A fn \in LongNames(names) : fn.type # "DOS"
      BY <2>2, <3>2 DEF Filters, LongNames, IsLongName
    <3>4. Len(kept) \in Nat /\ \A k \in 1..Len(kept) : kept[k] \in ToSet(kept)
      BY <3>2 DEF ToSet
    <3>5. Steady(kept) /\ kept # << >>
      <4>1. Steady(kept)
        BY <3>3, <3>4 DEF Steady
      <4>2. kept # << >>
        <5>1. DOMAIN kept # {}
          BY <3>3 DEF ToSet
        <5> QED BY <5>1
      <4> QED BY <4>1, <4>2
    <3>6. own = kept
      BY <3>2, <3>5, LongFirstFacts
    <3>7. Usable(ref) = LongNames(names)
      BY <2>2 DEF Usable
    <3>8. NamesOf(frame)' = own
      BY DEF NamesOf
    <3>9. frame \in Frames
      BY <2>1, <3>2, <3>6 DEF Frames
    <3>10. Opened(ref, idx, depth, ps, below, frame)
      BY <2>1, <3>1, <3>2, <3>3, <3>5, <3>6, <3>7, <3>8 DEF Opened, n
    <3>11. VolumeInv' /\ SameVolume
      BY <3>1, Unordered
    <3> QED BY <3>9, <3>10, <3>11
  <2>3. CASE ~ Filters(names)
    <3> PICK new : new = LongFirst(names)
      OBVIOUS
    <3> PICK frame : frame = [ref |-> ref, shared |-> TRUE, own |-> << >>,
                              idx |-> idx, depth |-> depth, i |-> 1]
      OBVIOUS
    <3>1. /\ paths' = ps /\ stack' = Append(below, frame) /\ SetNames(ref, new)
      BY <1>5, <2>3 DEF Visit, TooDeep
    <3>2. VolumeInv' /\ SameVolume /\ Deref(ref)'.names = new
      BY <3>1, Reorder
    <3>3. /\ new \in Seq(FileNames) /\ Steady(new) /\ new # << >>
          /\ ToSet(new) = ToSet(names)
      BY <1>2, <1>5, LongFirstFacts
    <3>4. Usable(ref) = ToSet(names)
      BY <2>3 DEF Usable
    <3>5. NamesOf(frame)' = new
      BY <3>2 DEF NamesOf
    <3>6. frame \in Frames
      BY <2>1 DEF Frames
    <3>7. Opened(ref, idx, depth, ps, below, frame)
      BY <2>1, <3>1, <3>3, <3>4, <3>5 DEF Opened, n
    <3> QED BY <3>2, <3>6, <3>7
  <2> QED BY <2>2, <2>3
<1> QED BY <1>3, <1>4, <1>5

-----------------------------------------------------------------------------
(* The frames that a step leaves where they are *)

\* No path is changed but at its end.
Extended ==
  \A j \in DOMAIN paths :
    /\ j \in DOMAIN paths' /\ Len(paths[j]) <= Len(paths'[j])
    /\ \A i \in 1..Len(paths[j]) : paths'[j][i] = paths[j][i]

LEMMA WalkFacts ==
  ASSUME WalkInv
  PROVE  /\ Len(stack) \in Nat /\ DOMAIN stack = 1..Len(stack)
         /\ Len(paths) \in Nat /\ DOMAIN paths = 1..Len(paths)
         /\ \A j \in DOMAIN paths : paths[j] \in Seq(Words) /\ Len(paths[j]) \in Nat
         /\ \A k \in DOMAIN stack : stack[k] \in Frames /\ FrameInv(k)
BY DEF WalkInv

LEMMA FramesSame == ASSUME SameVolume PROVE Frames' = Frames
BY DEF Frames, SameVolume

LEMMA NamesSame ==
  ASSUME SameVolume, NEW f \in Frames, Steady(NamesOf(f))
  PROVE  NamesOf(f)' = NamesOf(f) /\ Usable(f.ref)' = Usable(f.ref)
<1>1. f.ref \in Refs /\ f.shared \in BOOLEAN
  BY DEF Frames
<1>2. f.shared => Deref(f.ref)'.names = Deref(f.ref).names
  BY <1>1 DEF SameVolume, NamesOf
<1> QED BY <1>1, <1>2 DEF SameVolume, NamesOf

LEMMA FrameKept ==
  ASSUME VolumeInv, SameVolume, WalkInv, Extended, paths' \in Seq(Seq(Words)),
         NEW k \in DOMAIN stack, NEW m \in Nat, m # 1, stack[k].i <= m,
         m <= Len(NamesOf(stack[k])) + 1,
         stack'[k] = [stack[k] EXCEPT !.i = m]
  PROVE  FrameInv(k)' /\ Left(k)' = LeftFrom(k, m) /\ stack'[k] \in Frames
<1> PICK f, g, names : f = stack[k] /\ g = stack'[k] /\ names = NamesOf(f)
  OBVIOUS
<1>1. /\ f \in Frames /\ f.depth = k - 1 /\ k \in Nat /\ k >= 1
      /\ names \in Seq(FileNames) /\ Steady(names)
      /\ names # << >> /\ ToSet(names) = Usable(f.ref)
      /\ f.i \in 1..(Len(names) + 1) /\ f.i \in Nat /\ Len(names) \in Nat
      /\ f.idx \in DOMAIN paths /\ Len(paths[f.idx]) >= k - 1
      /\ paths[f.idx] \in Seq(Words) /\ Len(paths[f.idx]) \in Nat
  <2>1. FrameInv(k) /\ DOMAIN stack = 1..Len(stack) /\ Len(stack) \in Nat
    BY WalkFacts
  <2>2. /\ f \in Frames /\ f.depth = k - 1
        /\ names \in Seq(FileNames) /\ Steady(names)
        /\ names # << >> /\ ToSet(names) = Usable(f.ref)
        /\ f.i \in 1..(Len(names) + 1)
        /\ f.idx \in DOMAIN paths /\ Len(paths[f.idx]) >= k - 1
    BY <2>1 DEF FrameInv
  <2>3. k \in Nat /\ k >= 1
    BY <2>1
  <2>4. paths[f.idx] \in Seq(Words) /\ Len(paths[f.idx]) \in Nat
    BY <2>2, WalkFacts
  <2>5. Len(names) \in Nat /\ f.i \in Nat
    BY <2>2
  <2> QED BY <2>2, <2>3, <2>4, <2>5
<1>2. /\ g \in Frames /\ g.ref = f.ref /\ g.shared = f.shared /\ g.own = f.own
      /\ g.idx = f.idx /\ g.depth = f.depth /\ g.i = m
  <2>1. g = [f EXCEPT !.i = m]
    OBVIOUS
  <2> QED BY <1>1, <2>1 DEF Frames
<1>3. NamesOf(g)' = names /\ Usable(g.ref)' = Usable(f.ref) /\ NamesOf(g) = names
  <2>1. NamesOf(g) = names
    BY <1>2 DEF NamesOf
  <2>2. NamesOf(g)' = NamesOf(g) /\ Usable(g.ref)' = Usable(g.ref)
    BY <1>1, <1>2, <2>1, NamesSame
  <2> QED BY <1>2, <2>1, <2>2
<1>4. /\ g.idx \in DOMAIN paths' /\ Len(paths'[g.idx]) >= k - 1
      /\ paths'[g.idx] \in Seq(Words)
      /\ \A i \in 1..(k - 1) : paths'[g.idx][i] = paths[f.idx][i]
  <2>1. /\ f.idx \in DOMAIN paths' /\ Len(paths[f.idx]) <= Len(paths'[f.idx])
        /\ \A i \in 1..Len(paths[f.idx]) : paths'[f.idx][i] = paths[f.idx][i]
    BY <1>1 DEF Extended
  <2>2. paths'[f.idx] \in Seq(Words) /\ Len(paths'[f.idx]) \in Nat
    BY <2>1
  <2> QED BY <1>1, <1>2, <2>1, <2>2
<1>5. FrameInv(k)'
  <2>1. g \in Frames'
    BY <1>2, FramesSame
  <2>2. g.i # 1 /\ g.i \in 1..(Len(names) + 1)
    BY <1>1, <1>2
  <2> QED BY <1>1, <1>2, <1>3, <1>4, <2>1, <2>2 DEF FrameInv
<1>6. Below(k)' = Below(k)
  <2> PICK n, s, t : n = k - 1 /\ s = paths[f.idx] /\ t = paths'[g.idx]
    OBVIOUS
  <2>1. /\ n \in Nat /\ s \in Seq(Words) /\ t \in Seq(Words)
        /\ n <= Len(s) /\ n <= Len(t)
        /\ \A i \in 1..n : t[i] = s[i]
    BY <1>1, <1>4
  <2>2. /\ SubSeq(s, 1, n) \in Seq(Words) /\ Len(SubSeq(s, 1, n)) = n
        /\ \A i \in 1..n : SubSeq(s, 1, n)[i] = s[i]
    BY SMTT(30), <2>1, SubSeqFacts
  <2>3. /\ SubSeq(t, 1, n) \in Seq(Words) /\ Len(SubSeq(t, 1, n)) = n
        /\ \A i \in 1..n : SubSeq(t, 1, n)[i] = t[i]
    BY SMTT(30), <2>1, SubSeqFacts
  <2>4. SubSeq(t, 1, n) = SubSeq(s, 1, n)
    <3> PICK u, v : u = SubSeq(s, 1, n) /\ v = SubSeq(t, 1, n)
      OBVIOUS
    <3>1. u \in Seq(Words) /\ v \in Seq(Words) /\ Len(u) = Len(v)
          /\ \A i \in 1..Len(v) : v[i] = u[i]
      BY SMTT(30), <2>1, <2>2, <2>3
    <3> QED BY ZenonT(60), <3>1, SameSeq
  <2> QED BY <2>4 DEF Below
<1>7. ASSUME NEW j \in m..Len(names)
      PROVE  Through(names[j], MaxDirectoryDepth + 1 - k)'
               = Through(names[j], MaxDirectoryDepth + 1 - k)
  <2>1. names[j] \in FileNames
    BY <1>1
  <2>2. MaxDirectoryDepth + 1 - k \in 0..(MaxDirectoryDepth + 1)
    <3>1. k <= Len(stack) /\ Len(stack) \in Nat /\ Len(stack) <= MaxDirectoryDepth + 1
      BY WalkFacts DEF WalkInv
    <3>2. MaxDirectoryDepth \in Nat /\ k \in Nat /\ k >= 1
      BY <1>1, OptionsAssumption
    <3> QED BY <3>1, <3>2
  <2> QED BY <2>1, <2>2, SamePaths
<1>8. {Through(names[j], MaxDirectoryDepth + 1 - k)' : j \in m..Len(names)}
        = {Through(names[j], MaxDirectoryDepth + 1 - k) : j \in m..Len(names)}
  BY <1>7
<1>9. LeftFrom(k, m)' = LeftFrom(k, m)
  <2>1. LeftFrom(k, m) =
          {p \o Below(k) : p \in UNION {Through(names[j], MaxDirectoryDepth + 1 - k) :
                                          j \in m..Len(names)}}
    BY DEF LeftFrom
  <2>2. LeftFrom(k, m)' =
          {p \o Below(k)' : p \in UNION {Through(names[j], MaxDirectoryDepth + 1 - k)' :
                                           j \in m..Len(names)}}
    BY <1>3 DEF LeftFrom
  <2> QED BY ZenonT(60), <1>6, <1>8, <2>1, <2>2
<1> QED BY <1>2, <1>5, <1>9 DEF Left

-----------------------------------------------------------------------------
(* A turn of the loop of the top frame *)

Ready == stack # << >> /\ Top.i <= Len(NamesOf(Top))

\* The path from the entry up to the directory of the top frame.
Base == SubSeq(paths[Top.idx], 1, Len(stack) - 1)

FileName == NamesOf(Top)[Top.i]

\* The paths with the one of the file name among them, as far as Base.
Started == IF Top.i = 1 THEN paths
           ELSE Append(paths, CopyOf(paths[Top.idx], Top.depth))

Current == IF Top.i = 1 THEN Top.idx ELSE Len(Started)

LEMMA TopFacts ==
  ASSUME WalkInv, stack # << >>
  PROVE  /\ Len(stack) \in DOMAIN stack /\ Len(stack) \in Nat
         /\ Len(stack) \in 1..(MaxDirectoryDepth + 1)
         /\ Top = stack[Len(stack)] /\ Top \in Frames /\ FrameInv(Len(stack))
         /\ Top.i \in Nat /\ Top.i >= 1
         /\ NamesOf(Top) \in Seq(FileNames) /\ Len(NamesOf(Top)) \in Nat
         /\ Len(NamesOf(Top)) >= 1
         /\ Top.i <= Len(NamesOf(Top)) + 1
         /\ Top.depth = Len(stack) - 1 /\ Top.idx \in DOMAIN paths
         /\ Base \in Seq(Words) /\ Len(Base) = Len(stack) - 1
         /\ Below(Len(stack)) = Reverse(Base)
         /\ Top.i = 1 => paths[Top.idx] = Base
<1> PICK k, f, names : k = Len(stack) /\ f = Top /\ names = NamesOf(f)
  OBVIOUS
<1>1. /\ Len(stack) \in Nat /\ DOMAIN stack = 1..Len(stack) /\ Len(stack) # 0
      /\ Len(stack) <= MaxDirectoryDepth + 1 /\ MaxDirectoryDepth \in Nat
  BY WalkFacts, OptionsAssumption DEF WalkInv
<1>2. /\ k \in DOMAIN stack /\ k \in Nat /\ k \in 1..(MaxDirectoryDepth + 1)
      /\ f = stack[k] /\ k - 1 \in Nat
  BY <1>1 DEF Top
<1>3. f \in Frames /\ FrameInv(k)
  BY <1>2, WalkFacts
<1>4. /\ names \in Seq(FileNames) /\ names # << >> /\ f.i \in 1..(Len(names) + 1)
      /\ f.depth = k - 1 /\ f.idx \in DOMAIN paths /\ Len(paths[f.idx]) >= k - 1
      /\ f.i = 1 => Len(paths[f.idx]) = k - 1
  BY <1>2, <1>3 DEF FrameInv
<1>5. Len(names) \in Nat /\ Len(names) >= 1 /\ f.i \in Nat /\ f.i >= 1 /\ f.i <= Len(names) + 1
  <2>1. Len(names) \in Nat /\ Len(names) # 0
    BY <1>4, SeqFacts
  <2> QED BY <1>4, <2>1
<1> PICK n, path : n = k - 1 /\ path = paths[f.idx]
  OBVIOUS
<1>6. path \in Seq(Words) /\ n \in Nat /\ n <= Len(path)
  BY <1>2, <1>4, WalkFacts
<1>7. Base = SubSeq(path, 1, n) /\ Below(k) = Reverse(Base)
  BY <1>2 DEF Base, Below
<1>8. /\ SubSeq(path, 1, n) \in Seq(Words) /\ Len(SubSeq(path, 1, n)) = n
      /\ \A i \in 1..n : SubSeq(path, 1, n)[i] = path[i]
  BY <1>6, SubSeqFacts
<1>9. f.i = 1 => path = Base
  <2> SUFFICES ASSUME f.i = 1 PROVE path = Base
    OBVIOUS
  <2> PICK s : s = SubSeq(path, 1, n)
    OBVIOUS
  <2>1. s \in Seq(Words) /\ Len(s) = n /\ Len(path) = n /\ \A i \in 1..n : s[i] = path[i]
    BY <1>4, <1>8
  <2>2. \A i \in 1..Len(s) : s[i] = path[i]
    BY <2>1
  <2>3. s = path
    BY <1>6, <2>1, <2>2, SameSeq
  <2> QED BY <1>7, <2>3
<1> QED BY <1>2, <1>3, <1>4, <1>5, <1>7, <1>8, <1>9

LEMMA StartedFacts ==
  ASSUME WalkInv, Ready
  PROVE  /\ FileName \in FileNames
         /\ Started \in Seq(Seq(Words)) /\ Len(Started) \in Nat
         /\ Len(paths) <= Len(Started)
         /\ Current \in 1..Len(Started) /\ Started[Current] = Base
         /\ \A j \in 1..Len(Started) :
              j # Current => j \in DOMAIN paths /\ Started[j] = paths[j]
         /\ \A j \in DOMAIN paths : j # Current => ~ IsOpen(j)
         /\ Current \in DOMAIN paths => paths[Current] = Base /\ IsOpen(Current)
         /\ Top.i # 1 => Current = Len(Started) /\ Len(Started) = Len(paths) + 1
<1>1. stack # << >> /\ Top.i <= Len(NamesOf(Top))
  BY DEF Ready
<1>2. Len(paths) \in Nat /\ DOMAIN paths = 1..Len(paths) /\ paths \in Seq(Seq(Words))
  BY WalkFacts DEF WalkInv
<1>3. FileName \in FileNames
  <2>1. /\ NamesOf(Top) \in Seq(FileNames) /\ Top.i \in 1..Len(NamesOf(Top))
    BY <1>1, TopFacts
  <2> QED BY <2>1 DEF FileName
<1>4. CASE Top.i = 1
  <2>1. Started = paths /\ Current = Top.idx
    BY <1>4 DEF Started, Current
  <2>2. Top.idx \in DOMAIN paths /\ paths[Top.idx] = Base
    BY <1>1, <1>4, TopFacts
  <2> QED BY <1>1, <1>2, <1>3, <1>4, <2>1, <2>2 DEF IsOpen
<1>5. CASE Top.i # 1
  <2>1. CopyOf(paths[Top.idx], Top.depth) = Base /\ Base \in Seq(Words)
    BY <1>1, TopFacts DEF CopyOf, Base
  <2>2. Started = Append(paths, Base) /\ Current = Len(Started)
    BY <1>5, <2>1 DEF Started, Current
  <2> PICK new : new = Append(paths, Base)
    OBVIOUS
  <2>3. /\ new \in Seq(Seq(Words)) /\ Len(new) = Len(paths) + 1
        /\ \A j \in 1..Len(paths) : new[j] = paths[j]
        /\ new[Len(paths) + 1] = Base
    BY <1>2, <2>1, AppendFacts
  <2>4. Started = new /\ Current = Len(paths) + 1
    BY <2>2, <2>3
  <2>5. \A j \in 1..(Len(paths) + 1) : j # Len(paths) + 1 => j \in 1..Len(paths)
    BY <1>2
  <2> QED BY <1>2, <1>3, <1>5, <2>3, <2>4, <2>5 DEF IsOpen
<1> QED BY <1>4, <1>5

\* The paths, with that of the file name going on from Base.
LEMMA PathsStep ==
  ASSUME WalkInv, Ready, NEW path \in Seq(Words), Len(Base) <= Len(path),
         \A i \in 1..Len(Base) : path[i] = Base[i],
         paths' = [Started EXCEPT ![Current] = path]
  PROVE  /\ paths' \in Seq(Seq(Words)) /\ Extended /\ Len(paths') = Len(Started)
         /\ paths'[Current] = path
         /\ \A j \in 1..Len(Started) : j # Current => paths'[j] = paths[j]
<1>1. /\ paths' \in Seq(Seq(Words)) /\ Len(paths') = Len(Started)
      /\ DOMAIN paths' = 1..Len(Started)
      /\ paths'[Current] = path
      /\ \A j \in 1..Len(Started) : j # Current => paths'[j] = Started[j]
  <2> PICK s, c : s = Started /\ c = Current
    OBVIOUS
  <2>1. s \in Seq(Seq(Words)) /\ c \in 1..Len(s)
    BY StartedFacts
  <2>2. paths' = [s EXCEPT ![c] = path]
    OBVIOUS
  <2> QED BY <2>1, <2>2
<1>2. \A j \in 1..Len(Started) : j # Current => paths'[j] = paths[j]
  BY <1>1, StartedFacts
<1>3. Extended
  <2> SUFFICES ASSUME NEW j \in DOMAIN paths
               PROVE  /\ j \in DOMAIN paths' /\ Len(paths[j]) <= Len(paths'[j])
                      /\ \A i \in 1..Len(paths[j]) : paths'[j][i] = paths[j][i]
    BY DEF Extended
  <2>1. j \in 1..Len(Started) /\ Len(paths[j]) \in Nat
    BY StartedFacts, WalkFacts
  <2>2. CASE j = Current
    <3>1. paths[j] = Base
      BY <2>2, StartedFacts
    <3> QED BY <1>1, <2>1, <2>2, <3>1
  <2>3. CASE j # Current
    BY <1>1, <1>2, <2>1, <2>3
  <2> QED BY <2>2, <2>3
<1> QED BY <1>1, <1>2, <1>3

LEMMA MarkerTypes ==
  /\ \A marker \in Markers :
       <<"<Err>", marker>> \in Seq(Words) /\ <<marker, "<Err>">> \in Seq(Words)
  /\ \A marker \in Markers : Reverse(<<marker, "<Err>">>) = <<"<Err>", marker>>
<1> SUFFICES ASSUME NEW marker \in Markers
             PROVE  /\ <<"<Err>", marker>> \in Seq(Words) /\ <<marker, "<Err>">> \in Seq(Words)
                    /\ Reverse(<<marker, "<Err>">>) = <<"<Err>", marker>>
  OBVIOUS
<1> PICK err : err = "<Err>"
  OBVIOUS
<1>1. err \in Words /\ marker \in Words
  BY DEF Words, Markers
<1> PICK s, t : s = <<marker, err>> /\ t = <<err, marker>>
  OBVIOUS
<1>2. /\ s \in Seq(Words) /\ t \in Seq(Words) /\ Len(s) = 2 /\ Len(t) = 2
      /\ s[1] = marker /\ s[2] = err /\ t[1] = err /\ t[2] = marker
  BY <1>1
<1>3. Reverse(s) = t
  <2> PICK r : r = Reverse(s)
    OBVIOUS
  <2>1. r \in Seq(Words) /\ Len(r) = 2 /\ \A k \in 1..2 : r[k] = s[2 - k + 1]
    BY <1>2, ReverseFacts
  <2>2. \A k \in 1..Len(r) : r[k] = t[k]
    BY <1>2, <2>1
  <2>3. r = t
    BY <1>2, <2>1, <2>2, SameSeq
  <2> QED BY <2>3
<1> QED BY <1>2, <1>3

\* The paths above are sequences of words.
LEMMA PathsTyped ==
  ASSUME VolumeInv
  PROVE  /\ \A n \in 0..(MaxDirectoryDepth + 1) : \A ref \in Refs :
              PathsAbove[n][ref] \subseteq Seq(Words)
         /\ \A n \in 0..(MaxDirectoryDepth + 1) : \A fn \in FileNames :
              Above(fn, n) \subseteq Seq(Words) /\ Through(fn, n) \subseteq Seq(Words)
<1> DEFINE T == {n \in Nat : n <= MaxDirectoryDepth + 1 =>
                               \A ref \in Refs : PathsAbove[n][ref] \subseteq Seq(Words)}
<1>1. /\ MaxDirectoryDepth \in Nat
      /\ \A marker \in Markers : <<"<Err>", marker>> \in Seq(Words)
      /\ "<DirTooDeep>" \in Markers /\ "<UnknownEntry>" \in Markers
      /\ "<NoEntry>" \in Markers /\ "<WrongSequence>" \in Markers
  BY OptionsAssumption, MarkerTypes DEF Markers
<1>2. ASSUME NEW fn \in FileNames, NEW n \in Nat,
             \A ref \in Refs : PathsAbove[n][ref] \subseteq Seq(Words)
      PROVE  Above(fn, n) \subseteq Seq(Words) /\ Through(fn, n) \subseteq Seq(Words)
  <2>1. fn.parent # Root /\ GetSummary(fn.parent, fn.seq) # None =>
          GetSummary(fn.parent, fn.seq) \in Refs
    BY Types, GetSummaryIn
  <2>2. Above(fn, n) \subseteq Seq(Words)
    <3>1. << >> \in Seq(Words)
      OBVIOUS
    <3>2. CASE fn.parent = Root
      BY <3>1, <3>2 DEF Above
    <3>3. CASE fn.parent # Root
      <4> PICK none, wrong, up : /\ none = <<"<Err>", "<NoEntry>">>
                                 /\ wrong = <<"<Err>", "<WrongSequence>">>
                                 /\ up = GetSummary(fn.parent, fn.seq)
        OBVIOUS
      <4>1. Above(fn, n) = IF up = None THEN {none}
                           ELSE IF Deref(up).seq # fn.seq THEN {wrong}
                           ELSE PathsAbove[n][up]
        BY <3>3 DEF Above
      <4>2. none \in Seq(Words) /\ wrong \in Seq(Words)
        BY <1>1
      <4>3. up # None => PathsAbove[n][up] \subseteq Seq(Words)
        BY <1>2, <2>1, <3>3
      <4> QED BY <4>1, <4>2, <4>3
    <3> QED BY <3>2, <3>3
  <2>3. ASSUME NEW p \in Above(fn, n) PROVE Append(p, fn.name) \in Seq(Words)
    BY <2>2, Types, AppendFacts
  <2> QED BY <2>2, <2>3 DEF Through
<1>3. 0 \in T
  <2>1. \A ref \in Refs : PathsAbove[0][ref] = {<<"<Err>", "<DirTooDeep>">>}
    BY <1>1, PathsAboveFacts
  <2> QED BY <1>1, <2>1
<1>4. ASSUME NEW n \in Nat, n \in T PROVE n + 1 \in T
  <2> SUFFICES ASSUME n + 1 <= MaxDirectoryDepth + 1, NEW ref \in Refs
               PROVE  PathsAbove[n + 1][ref] \subseteq Seq(Words)
    OBVIOUS
  <2>1. /\ n <= MaxDirectoryDepth + 1 /\ n + 1 \in 0..(MaxDirectoryDepth + 1)
        /\ n + 1 # 0 /\ (n + 1) - 1 = n
    BY <1>1
  <2>2. \A fn \in FileNames : Through(fn, n) \subseteq Seq(Words)
    BY <1>2, <1>4, <2>1
  <2>3. CASE Usable(ref) = {}
    <3>1. PathsAbove[n + 1][ref] = {<<"<Err>", "<UnknownEntry>">>}
      BY <2>1, <2>3, PathsAboveFacts
    <3> QED BY <1>1, <3>1
  <2>4. CASE Usable(ref) # {}
    <3>1. PathsAbove[n + 1][ref] = UNION {Through(fn, n) : fn \in Usable(ref)}
      BY <2>1, <2>4, PathsAboveFacts
    <3>2. Usable(ref) \subseteq FileNames
      BY UsableFacts
    <3> QED BY <2>2, <3>1, <3>2
  <2> QED BY <2>3, <2>4
<1>5. \A n \in 0..(MaxDirectoryDepth + 1) : \A ref \in Refs :
        PathsAbove[n][ref] \subseteq Seq(Words)
  <2> HIDE DEF T
  <2>1. T = Nat
    BY <1>3, <1>4, SetInduction DEF T
  <2> QED BY <1>1, <2>1 DEF T
<1> QED BY <1>1, <1>2, <1>5

LEMMA DepthFacts ==
  ASSUME WalkInv, stack # << >>
  PROVE  /\ MaxDirectoryDepth + 1 - Len(stack) \in 0..(MaxDirectoryDepth + 1)
         /\ MaxDirectoryDepth + 1 \in Nat /\ MaxDirectoryDepth \in Nat
         /\ MaxDirectoryDepth + 1 \in 0..(MaxDirectoryDepth + 1)
<1>1. Len(stack) \in 1..(MaxDirectoryDepth + 1) /\ MaxDirectoryDepth \in Nat
  BY TopFacts, OptionsAssumption
<1> QED BY <1>1

LEMMA MapUnion ==
  ASSUME NEW A, NEW B, NEW b
  PROVE  {p \o b : p \in A \cup B} = {p \o b : p \in A} \cup {p \o b : p \in B}
OBVIOUS

\* What is left, of the name that is visited and of the others.
LEMMA LeftFacts ==
  ASSUME WalkInv, stack # << >>
  PROVE  /\ Ready => Left(Len(stack)) =
              {p \o Below(Len(stack)) :
                 p \in Through(FileName, MaxDirectoryDepth + 1 - Len(stack))}
              \cup LeftFrom(Len(stack), Top.i + 1)
         /\ ~ Ready => Left(Len(stack)) = {}
         /\ UNION {Left(j) : j \in DOMAIN stack}
              = (UNION {Left(j) : j \in 1..(Len(stack) - 1)}) \cup Left(Len(stack))
<1> PICK k, names, i, b : k = Len(stack) /\ names = NamesOf(Top) /\ i = Top.i /\ b = Below(k)
  OBVIOUS
<1> DEFINE Thru(j) == Through(names[j], MaxDirectoryDepth + 1 - k)
<1>1. /\ Top = stack[k] /\ i \in Nat /\ Len(names) \in Nat
      /\ k \in Nat /\ DOMAIN stack = 1..k /\ k \in DOMAIN stack
  BY TopFacts, WalkFacts
<1>2. /\ Left(k) = {p \o b : p \in UNION {Thru(j) : j \in i..Len(names)}}
      /\ LeftFrom(k, i + 1) = {p \o b : p \in UNION {Thru(j) : j \in (i + 1)..Len(names)}}
  BY <1>1 DEF Left, LeftFrom
<1> HIDE DEF Thru
<1>3. ASSUME Ready
      PROVE  Left(k) = {p \o b : p \in Through(FileName, MaxDirectoryDepth + 1 - k)}
                         \cup LeftFrom(k, i + 1)
  <2>1. i..Len(names) = {i} \cup (i + 1)..Len(names)
    BY <1>1, <1>3 DEF Ready
  <2>2. UNION {Thru(j) : j \in i..Len(names)}
          = Thru(i) \cup UNION {Thru(j) : j \in (i + 1)..Len(names)}
    BY <2>1
  <2>3. Thru(i) = Through(FileName, MaxDirectoryDepth + 1 - k)
    BY DEF Thru, FileName
  <2> PICK A, B, C : /\ A = Thru(i) /\ B = UNION {Thru(j) : j \in (i + 1)..Len(names)}
                     /\ C = UNION {Thru(j) : j \in i..Len(names)}
    OBVIOUS
  <2>4. {p \o b : p \in C} = {p \o b : p \in A} \cup {p \o b : p \in B}
    <3>1. C = A \cup B
      BY <2>2
    <3> QED BY ZenonT(60), <3>1, MapUnion
  <2>5. Left(k) = {p \o b : p \in C} /\ LeftFrom(k, i + 1) = {p \o b : p \in B}
    BY <1>2
  <2> QED BY <2>3, <2>4, <2>5
<1>4. ASSUME ~ Ready PROVE Left(k) = {}
  <2>1. i..Len(names) = {}
    BY <1>1, <1>4 DEF Ready
  <2> QED BY <1>2, <1>4, <2>1
<1>5. 1..k = 1..(k - 1) \cup {k}
  BY <1>1
<1>6. UNION {Left(j) : j \in DOMAIN stack} = (UNION {Left(j) : j \in 1..(k - 1)}) \cup Left(k)
  BY <1>1, <1>5
<1> QED BY <1>3, <1>4, <1>6

LEMMA FinishedFacts ==
  ASSUME WalkInv, Ready
  PROVE  Finished = {Reverse(paths[j]) : j \in {x \in 1..Len(Started) : x # Current}}
<1>1. {x \in DOMAIN paths : ~ IsOpen(x)} = {x \in 1..Len(Started) : x # Current}
  <2>1. /\ DOMAIN paths \subseteq 1..Len(Started)
        /\ \A j \in 1..Len(Started) : j # Current => j \in DOMAIN paths
        /\ \A j \in DOMAIN paths : j # Current <=> ~ IsOpen(j)
    BY StartedFacts, WalkFacts
  <2> QED BY <2>1
<1> QED BY <1>1 DEF Finished

LEMMA AdvancedFacts ==
  ASSUME WalkInv, Ready
  PROVE  /\ Advanced \in Seq(Frames) /\ Len(Advanced) = Len(stack)
         /\ Advanced[Len(stack)] = [Top EXCEPT !.i = Top.i + 1]
         /\ \A j \in 1..(Len(stack) - 1) : Advanced[j] = stack[j]
<1> PICK k : k = Len(stack)
  OBVIOUS
<1>1. /\ stack \in Seq(Frames) /\ k \in 1..Len(stack) /\ Top = stack[k]
      /\ Top \in Frames /\ Top.i + 1 \in Nat
  BY TopFacts, WalkFacts DEF Ready, WalkInv
<1>2. [Top EXCEPT !.i = Top.i + 1] \in Frames
  BY <1>1 DEF Frames
<1>3. Advanced = [stack EXCEPT ![k] = [Top EXCEPT !.i = Top.i + 1]]
  BY <1>1 DEF Advanced
<1> QED BY <1>1, <1>2, <1>3

\* The frames, once the top one has gone on to its next name.
LEMMA StackStep ==
  ASSUME VolumeInv, SameVolume, WalkInv, Ready, Extended, paths' \in Seq(Seq(Words)),
         NEW k, k = Len(stack), \A j \in 1..k : stack'[j] = Advanced[j]
  PROVE  /\ \A j \in 1..k : FrameInv(j)'
         /\ \A j \in 1..(k - 1) : Left(j)' = Left(j)
         /\ Left(k)' = LeftFrom(k, Top.i + 1)
         /\ stack'[k].i # 1
<1>1. /\ k \in Nat /\ DOMAIN stack = 1..k /\ k \in DOMAIN stack /\ Top = stack[k]
      /\ Top \in Frames /\ Top.i \in Nat /\ Top.i >= 1 /\ Top.i <= Len(NamesOf(Top))
      /\ Len(NamesOf(Top)) \in Nat
  BY TopFacts, WalkFacts DEF Ready
<1>2. ASSUME NEW j \in 1..(k - 1) PROVE FrameInv(j)' /\ Left(j)' = Left(j)
  <2> PICK f, m : f = stack[j] /\ m = f.i
    OBVIOUS
  <2>1. j \in DOMAIN stack /\ j # k
    BY <1>1
  <2>2. f \in Frames /\ FrameInv(j)
    BY <2>1, WalkFacts
  <2>3. m \in Nat /\ m # 1 /\ m <= Len(NamesOf(f)) + 1
    <3>1. /\ f.i \in 1..(Len(NamesOf(f)) + 1) /\ NamesOf(f) \in Seq(FileNames)
          /\ f.i = 1 => j = Len(stack)
      BY <2>2 DEF FrameInv
    <3> QED BY <2>1, <3>1
  <2>4. stack'[j] = [f EXCEPT !.i = m]
    <3>1. stack'[j] = f
      BY <1>1, AdvancedFacts
    <3>2. [f EXCEPT !.i = m] = f
      BY <2>2 DEF Frames
    <3> QED BY <3>1, <3>2
  <2>5. FrameInv(j)' /\ Left(j)' = LeftFrom(j, m)
    BY <2>1, <2>3, <2>4, FrameKept
  <2> QED BY <2>5 DEF Left
<1>3. FrameInv(k)' /\ Left(k)' = LeftFrom(k, Top.i + 1) /\ stack'[k].i # 1
  <2>1. stack'[k] = [stack[k] EXCEPT !.i = Top.i + 1]
    BY <1>1, AdvancedFacts
  <2>2. stack'[k].i = Top.i + 1
    BY <1>1, <2>1 DEF Frames
  <2>3. Top.i + 1 \in Nat /\ Top.i + 1 # 1 /\ stack[k].i <= Top.i + 1
        /\ Top.i + 1 <= Len(NamesOf(stack[k])) + 1
    BY <1>1
  <2>4. FrameInv(k)' /\ Left(k)' = LeftFrom(k, Top.i + 1)
    BY <1>1, <2>1, <2>3, FrameKept
  <2>5. Top.i + 1 # 1
    BY <1>1
  <2> QED BY <2>2, <2>4, <2>5
<1>4. \A j \in 1..k : FrameInv(j)'
  <2>1. \A j \in 1..k : j = k \/ j \in 1..(k - 1)
    BY <1>1
  <2> QED BY <1>2, <1>3, <2>1
<1> QED BY <1>2, <1>3, <1>4

\* The paths that are finished, and those that are begun, after such a step.
LEMMA FinishedStep ==
  ASSUME WalkInv, Ready, NEW path \in Seq(Words), Len(Base) <= Len(path),
         \A i \in 1..Len(Base) : path[i] = Base[i],
         paths' = [Started EXCEPT ![Current] = path],
         NEW open \in BOOLEAN, \A j : IsOpen(j)' <=> (open /\ j = Current)
  PROVE  Finished' = Finished \cup (IF open THEN {} ELSE {Reverse(path)})
<1> PICK n, c : n = Len(Started) /\ c = Current
  OBVIOUS
<1>1. /\ paths' \in Seq(Seq(Words)) /\ Len(paths') = n /\ paths'[c] = path
      /\ \A j \in 1..n : j # c => paths'[j] = paths[j]
      /\ n \in Nat /\ c \in 1..n
  BY PathsStep, StartedFacts
<1>2. Finished = {Reverse(paths[j]) : j \in {x \in 1..n : x # c}}
  BY FinishedFacts
<1>3. {Reverse(paths[j]) : j \in {x \in 1..n : x # c}}
        = {Reverse(paths'[j]) : j \in {x \in 1..n : x # c}}
  BY <1>1
<1>4. Finished' = {Reverse(paths'[j]) : j \in {x \in 1..n : ~ (open /\ x = c)}}
  <2>1. DOMAIN paths' = 1..n
    BY <1>1
  <2>2. {x \in 1..n : ~ IsOpen(x)'} = {x \in 1..n : ~ (open /\ x = c)}
    OBVIOUS
  <2>3. Finished' = {Reverse(paths'[j]) : j \in {x \in DOMAIN paths' : ~ IsOpen(x)'}}
    BY DEF Finished
  <2> QED BY <2>1, <2>2, <2>3
<1>5. CASE open
  <2>1. {x \in 1..n : ~ (open /\ x = c)} = {x \in 1..n : x # c}
    BY <1>5
  <2> QED BY <1>2, <1>3, <1>4, <1>5, <2>1
<1>6. CASE ~ open
  <2>1. {x \in 1..n : ~ (open /\ x = c)} = {x \in 1..n : x # c} \cup {c}
    BY <1>1, <1>6
  <2>2. {Reverse(paths'[j]) : j \in {x \in 1..n : x # c} \cup {c}}
          = {Reverse(paths'[j]) : j \in {x \in 1..n : x # c}} \cup {Reverse(paths'[c])}
    OBVIOUS
  <2> QED BY <1>1, <1>2, <1>3, <1>4, <1>6, <2>1, <2>2
<1> QED BY <1>5, <1>6

\* What the file name leads to is this path.
LeadsTo(path, k) ==
  /\ path # << >>
  /\ {p \o Below(k) : p \in Through(FileName, MaxDirectoryDepth + 1 - k)} = {Reverse(path)}

\* The name leads to one path, or there are too many.
LEMMA CloseStep ==
  ASSUME IInv, VolumeInv', SameVolume, Ready, UNCHANGED <<call, calls>>,
         NEW path \in Seq(Words), Len(Base) <= Len(path),
         \A i \in 1..Len(Base) : path[i] = Base[i],
         paths' = [Started EXCEPT ![Current] = path], stack' = Advanced,
         NEW k, k = Len(stack),
         Current > MaxLinks + 1 \/ LeadsTo(path, k)
  PROVE  WalkInv' /\ PathsInv'
<1>1. /\ VolumeInv /\ WalkInv /\ PathsInv /\ stack # << >> /\ call.pc = "busy"
      /\ MaxLinks \in Nat
  BY OptionsAssumption DEF IInv, WalkInv, Ready
<1>2. /\ paths' \in Seq(Seq(Words)) /\ Extended /\ Len(paths') = Len(Started)
      /\ paths'[Current] = path
      /\ \A j \in 1..Len(Started) : j # Current => paths'[j] = paths[j]
  BY <1>1, PathsStep
<1>3. /\ Advanced \in Seq(Frames) /\ Len(stack') = k /\ DOMAIN stack' = 1..k
      /\ k \in Nat /\ k # 0 /\ k <= MaxDirectoryDepth + 1
  BY <1>1, AdvancedFacts, WalkFacts, TopFacts DEF WalkInv
<1>4. /\ \A j \in 1..k : FrameInv(j)'
      /\ \A j \in 1..(k - 1) : Left(j)' = Left(j)
      /\ Left(k)' = LeftFrom(k, Top.i + 1)
      /\ stack'[k].i # 1
  BY <1>1, <1>2, StackStep
<1>5. WalkInv'
  <2>1. stack' \in Seq(Frames')
    BY <1>3, FramesSame
  <2> QED BY <1>1, <1>2, <1>3, <1>4, <2>1 DEF WalkInv
<1>6. \A j : ~ IsOpen(j)'
  <2>1. Top' = stack'[k]
    BY <1>3 DEF Top
  <2> QED BY <1>4, <2>1 DEF IsOpen
<1>7. Finished' = Finished \cup {Reverse(path)}
  <2>1. \A j : IsOpen(j)' <=> (FALSE /\ j = Current)
    BY <1>6
  <2> QED BY <1>1, <2>1, FinishedStep
<1>8. call.id \in Refs' /\ call' = call
  BY <1>1 DEF PathsInv, SameVolume
<1>9. ASSUME NEW j \in DOMAIN paths', j <= MaxLinks + 1 PROVE paths'[j] # << >>
  <2>1. j \in 1..Len(Started)
    BY <1>2
  <2>2. CASE j = Current
    <3>1. ~ (Current > MaxLinks + 1)
      BY <1>9, <2>1, <2>2, <1>1
    <3> QED BY <1>2, <2>2, <3>1 DEF LeadsTo
  <2>3. CASE j # Current
    <3>1. j \in DOMAIN paths /\ paths'[j] = paths[j] /\ ~ IsOpen(j)
      BY <1>1, <1>2, <2>1, <2>3, StartedFacts
    <3> QED BY <1>1, <1>9, <3>1 DEF PathsInv
  <2> QED BY <2>2, <2>3
<1>10. ASSUME Fits'
       PROVE  PathsAbove'[MaxDirectoryDepth + 1][call.id]
                = Finished' \cup UNION {Left(j)' : j \in DOMAIN stack'}
  <2>1. Len(Started) <= MaxLinks + 1
    BY <1>2, <1>10 DEF Fits
  <2>2. Fits /\ ~ (Current > MaxLinks + 1)
    <3>1. /\ Len(paths) \in Nat /\ Len(paths) <= Len(Started) /\ Len(Started) \in Nat
          /\ Current \in 1..Len(Started)
      BY <1>1, StartedFacts, WalkFacts
    <3> QED BY <1>1, <2>1, <3>1 DEF Fits
  <2> PICK old, low, rest, one :
        /\ old = Finished /\ low = UNION {Left(j) : j \in 1..(k - 1)}
        /\ rest = LeftFrom(k, Top.i + 1) /\ one = {Reverse(path)}
    OBVIOUS
  <2>3. UNION {Left(j) : j \in DOMAIN stack} = low \cup (one \cup rest)
    BY <1>1, <2>2, LeftFacts DEF LeadsTo
  <2>4. PathsAbove[MaxDirectoryDepth + 1][call.id] = old \cup (low \cup (one \cup rest))
    BY <1>1, <2>2, <2>3 DEF PathsInv
  <2>5. UNION {Left(j)' : j \in DOMAIN stack'} = low \cup rest
    <3>1. 1..k = 1..(k - 1) \cup {k}
      BY <1>3
    <3>2. UNION {Left(j)' : j \in 1..k} = (UNION {Left(j)' : j \in 1..(k - 1)}) \cup Left(k)'
      BY <3>1
    <3>3. {Left(j)' : j \in 1..(k - 1)} = {Left(j) : j \in 1..(k - 1)}
      BY <1>4
    <3> QED BY <1>3, <1>4, <3>2, <3>3
  <2>6. PathsAbove'[MaxDirectoryDepth + 1] = PathsAbove[MaxDirectoryDepth + 1]
    BY <1>1, SamePaths, DepthFacts
  <2> QED BY <1>7, <2>4, <2>5, <2>6
<1>11. PathsInv'
  <2>1. ASSUME Fits'
        PROVE  PathsAbove'[MaxDirectoryDepth + 1][call'.id]
                 = Finished' \cup UNION {Left(j)' : j \in DOMAIN stack'}
    BY <1>8, <1>10, <2>1
  <2> QED BY <1>8, <1>9, <2>1 DEF PathsInv
<1> QED BY <1>5, <1>11

\* A name is a step from what is above it to what is below it.
LEMMA StepUp ==
  ASSUME NEW A \in SUBSET Seq(Words), NEW b \in Seq(Words), NEW e \in Words
  PROVE  {p \o Reverse(b) : p \in {Append(a, e) : a \in A}}
           = {a \o Reverse(Append(b, e)) : a \in A}
<1> PICK r, u : r = Reverse(b) /\ u = Reverse(Append(b, e))
  OBVIOUS
<1>1. r \in Seq(Words)
  BY ReverseFacts
<1>2. u = <<e>> \o r
  <2> PICK none, c : none = << >> /\ c = Append(b, e)
    OBVIOUS
  <2>1. none \in Seq(Words) /\ c \in Seq(Words)
    BY AppendFacts
  <2>2. Reverse(Append(b, e) \o none) = Append(Reverse(none), e) \o Reverse(b)
    BY <2>1, ReverseStep
  <2>3. c \o none = c
    BY <2>1, ConcatNone
  <2>4. Reverse(none) = << >>
    BY ReverseNone
  <2>5. Append(<< >>, e) = <<e>>
    OBVIOUS
  <2> QED BY <2>2, <2>3, <2>4, <2>5
<1>3. ASSUME NEW a \in A PROVE Append(a, e) \o r = a \o u
  <2>1. a \in Seq(Words)
    OBVIOUS
  <2> QED BY <1>1, <1>2, <2>1
<1>4. {p \o r : p \in {Append(a, e) : a \in A}} = {Append(a, e) \o r : a \in A}
  OBVIOUS
<1>5. {Append(a, e) \o r : a \in A} = {a \o u : a \in A}
  BY <1>3
<1> QED BY <1>4, <1>5

\* What a frame that has just been opened has to visit.
Opening(names, d, b) ==
  {p \o b : p \in UNION {Through(names[j], d)' : j \in 1..Len(names)}}

LEMMA LeftOpened ==
  ASSUME NEW k, NEW frame, NEW names, NEW d, d = MaxDirectoryDepth + 1 - k,
         NEW b, b = Below(k)', stack'[k] = frame, frame.i = 1, NamesOf(frame)' = names
  PROVE  Left(k)' = Opening(names, d, b)
BY DEF Left, LeftFrom, Opening

\* The name leads to a directory with names of its own.
LEMMA OpenStep ==
  ASSUME IInv, VolumeInv', SameVolume, Ready, UNCHANGED <<call, calls>>,
         NEW path, path = Append(Base, FileName.name),
         NEW next, next = [Started EXCEPT ![Current] = path],
         NEW k, k = Len(stack), NEW up \in Refs, NEW frame \in Frames,
         NEW idx, idx = Current, NEW below, below = Advanced,
         Opened(up, idx, k, next, below, frame),
         Above(FileName, MaxDirectoryDepth + 1 - k) = PathsAbove[MaxDirectoryDepth + 1 - k][up]
  PROVE  WalkInv' /\ PathsInv'
<1>1. /\ VolumeInv /\ WalkInv /\ PathsInv /\ stack # << >> /\ call.pc = "busy"
      /\ MaxLinks \in Nat /\ MaxDirectoryDepth \in Nat
  BY OptionsAssumption DEF IInv, WalkInv, Ready
<1> PICK base, e, names : base = Base /\ e = FileName.name /\ names = NamesOf(frame)'
  OBVIOUS
<1>2. /\ base \in Seq(Words) /\ e \in Words /\ Len(base) = k - 1
      /\ path \in Seq(Words) /\ Len(path) = k /\ path # << >>
      /\ \A i \in 1..Len(base) : path[i] = base[i]
      /\ k \in Nat /\ k \in 1..(MaxDirectoryDepth + 1)
  <2>1. /\ base \in Seq(Words) /\ Len(base) = k - 1 /\ k \in Nat
        /\ k \in 1..(MaxDirectoryDepth + 1)
    BY <1>1, TopFacts
  <2>2. e \in Words
    BY <1>1, StartedFacts, Types
  <2>3. /\ path \in Seq(Words) /\ Len(path) = Len(base) + 1
        /\ \A i \in 1..Len(base) : path[i] = base[i]
    BY <2>1, <2>2, AppendFacts
  <2> QED BY <2>1, <2>2, <2>3
<1>3. /\ k <= MaxDirectoryDepth /\ paths' = next /\ stack' = Append(Advanced, frame)
      /\ frame.ref = up /\ frame.idx = Current /\ frame.depth = k /\ frame.i = 1
      /\ names \in Seq(FileNames) /\ Steady(names) /\ names # << >>
      /\ ToSet(names) = Usable(up)
      /\ PathsAbove[MaxDirectoryDepth + 1 - k][up]
           = UNION {Through(fn, MaxDirectoryDepth - k) : fn \in Usable(up)}
  BY DEF Opened
<1>4. paths' = [Started EXCEPT ![Current] = path] /\ Len(Base) <= Len(path)
  BY <1>2, <1>3
<1>5. /\ paths' \in Seq(Seq(Words)) /\ Extended /\ Len(paths') = Len(Started)
      /\ paths'[Current] = path
      /\ \A j \in 1..Len(Started) : j # Current => paths'[j] = paths[j]
  BY <1>1, <1>2, <1>4, PathsStep
<1>6. /\ Advanced \in Seq(Frames) /\ Len(Advanced) = k
      /\ stack' \in Seq(Frames) /\ Len(stack') = k + 1 /\ DOMAIN stack' = 1..(k + 1)
      /\ \A j \in 1..k : stack'[j] = Advanced[j]
      /\ stack'[k + 1] = frame
  <2> PICK adv : adv = Advanced
    OBVIOUS
  <2>1. adv \in Seq(Frames) /\ Len(adv) = k
    BY <1>1, AdvancedFacts
  <2>2. /\ Append(adv, frame) \in Seq(Frames) /\ Len(Append(adv, frame)) = k + 1
        /\ \A j \in 1..k : Append(adv, frame)[j] = adv[j]
        /\ Append(adv, frame)[k + 1] = frame
    BY <2>1, AppendFacts
  <2>3. DOMAIN Append(adv, frame) = 1..(k + 1)
    BY <2>1, <2>2, SeqFacts
  <2> QED BY <1>3, <2>1, <2>2, <2>3
<1>7. /\ \A j \in 1..k : FrameInv(j)'
      /\ \A j \in 1..(k - 1) : Left(j)' = Left(j)
      /\ Left(k)' = LeftFrom(k, Top.i + 1)
  BY <1>1, <1>5, <1>6, StackStep
<1>8. Current \in DOMAIN paths' /\ Current \in 1..Len(Started)
  BY <1>1, <1>5, StartedFacts
<1>9. FrameInv(k + 1)'
  <2>1. frame \in Frames' /\ Usable(up)' = Usable(up)
    BY FramesSame DEF SameVolume
  <2>2. frame.i \in 1..(Len(names) + 1) /\ Len(names) \in Nat
    BY <1>3
  <2>3. (k + 1) - 1 = k
    BY <1>2
  <2> QED BY <1>2, <1>3, <1>5, <1>6, <1>8, <2>1, <2>2, <2>3 DEF FrameInv
<1>10. WalkInv'
  <2>1. stack' \in Seq(Frames')
    BY <1>6, FramesSame
  <2>2. Len(stack') <= MaxDirectoryDepth + 1
    BY <1>1, <1>2, <1>3, <1>6
  <2>3. \A j \in 1..(k + 1) : FrameInv(j)'
    <3>1. \A j \in 1..(k + 1) : j = k + 1 \/ j \in 1..k
      BY <1>2
    <3> QED BY <1>7, <1>9, <3>1
  <2> QED BY <1>1, <1>5, <1>6, <2>1, <2>2, <2>3 DEF WalkInv
<1>11. \A j : IsOpen(j)' <=> j = Current
  <2>1. Top' = frame /\ stack' # << >>
    BY <1>2, <1>6 DEF Top
  <2> QED BY <1>3, <2>1 DEF IsOpen
<1>12. Finished' = Finished
  <2>1. \A j : IsOpen(j)' <=> (TRUE /\ j = Current)
    BY <1>11
  <2>2. Finished' = Finished \cup (IF TRUE THEN {} ELSE {Reverse(path)})
    BY <1>1, <1>2, <1>4, <2>1, FinishedStep
  <2> QED BY <2>2
<1>13. call.id \in Refs' /\ call' = call
  BY <1>1 DEF PathsInv, SameVolume
<1>14. ASSUME NEW j \in DOMAIN paths', j <= MaxLinks + 1, paths'[j] = << >> PROVE FALSE
  <2>1. j \in 1..Len(Started)
    BY <1>5
  <2>2. CASE j = Current
    BY <1>2, <1>5, <1>14, <2>2
  <2>3. CASE j # Current
    <3>1. j \in DOMAIN paths /\ paths'[j] = paths[j] /\ ~ IsOpen(j)
      BY <1>1, <1>5, <2>1, <2>3, StartedFacts
    <3> QED BY <1>1, <1>14, <3>1 DEF PathsInv
  <2> QED BY <2>2, <2>3
<1> DEFINE A == PathsAbove[MaxDirectoryDepth + 1 - k][up]
<1>15. A \subseteq Seq(Words)
  BY <1>1, PathsTyped, DepthFacts
<1>16. Left(k + 1)' = {p \o Reverse(path) : p \in A}
  <2>1. Below(k + 1)' = Reverse(path)
    <3>1. SubSeq(path, 1, k) = path
      <4> PICK s : s = SubSeq(path, 1, k)
        OBVIOUS
      <4>0. path \in Seq(Words) /\ k \in Nat /\ k <= Len(path)
        BY <1>2
      <4>1. s \in Seq(Words) /\ Len(s) = k /\ \A i \in 1..k : s[i] = path[i]
        BY <4>0, SubSeqFacts
      <4>2. s = path
        BY <1>2, <4>1, SameSeq
      <4> QED BY <4>2
    <3>2. (k + 1) - 1 = k
      BY <1>2
    <3> QED BY <1>3, <1>5, <1>6, <3>1, <3>2 DEF Below
  <2> PICK d : d = MaxDirectoryDepth + 1 - (k + 1)
    OBVIOUS
  <2>2. d = MaxDirectoryDepth - k /\ d \in 0..(MaxDirectoryDepth + 1)
    BY <1>1, <1>2, <1>3
  <2>3. (UNION {Through(names[j], d)' : j \in 1..Len(names)}) = A
    <3>1. /\ ToSet(names) = {names[j] : j \in 1..Len(names)}
          /\ \A j \in 1..Len(names) : names[j] \in FileNames
      BY <1>3 DEF ToSet
    <3>2. {Through(names[j], d)' : j \in 1..Len(names)}
            = {Through(names[j], d) : j \in 1..Len(names)}
      BY <1>1, <2>2, <3>1, SamePaths
    <3>3. {Through(names[j], d) : j \in 1..Len(names)} = {Through(fn, d) : fn \in ToSet(names)}
      BY <3>1
    <3>4. ToSet(names) = Usable(up) /\ A = UNION {Through(fn, d) : fn \in Usable(up)}
      BY <1>3, <2>2
    <3> HIDE DEF A
    <3> QED BY <3>2, <3>3, <3>4
  <2>4. Left(k + 1)' = {p \o Below(k + 1)' :
                          p \in UNION {Through(names[j], d)' : j \in 1..Len(names)}}
    <3>1. stack'[k + 1] = frame /\ frame.i = 1 /\ NamesOf(frame)' = names
      BY <1>3, <1>6
    <3> QED BY <3>1 DEF Left, LeftFrom
  <2> HIDE DEF A
  <2> QED BY <2>1, <2>3, <2>4
<1>17. {p \o Below(k) : p \in Through(FileName, MaxDirectoryDepth + 1 - k)}
         = {p \o Reverse(path) : p \in A}
  <2>1. Below(k) = Reverse(base)
    BY <1>1, TopFacts
  <2>2. Through(FileName, MaxDirectoryDepth + 1 - k) = {Append(p, e) : p \in A}
    BY DEF Through
  <2> HIDE DEF A
  <2>3. {p \o Reverse(base) : p \in {Append(a, e) : a \in A}}
          = {a \o Reverse(Append(base, e)) : a \in A}
    <3>1. A \in SUBSET Seq(Words) /\ base \in Seq(Words) /\ e \in Words
      BY <1>2, <1>15
    <3> QED BY <3>1, StepUp
  <2> QED BY <2>1, <2>2, <2>3
<1>18. ASSUME Fits'
       PROVE  PathsAbove'[MaxDirectoryDepth + 1][call.id]
                = Finished' \cup UNION {Left(j)' : j \in DOMAIN stack'}
  <2>1. Fits
    <3>1. Len(paths) \in Nat /\ Len(paths) <= Len(Started) /\ Len(Started) \in Nat
      BY <1>1, StartedFacts, WalkFacts
    <3>2. Len(Started) <= MaxLinks + 1
      BY <1>5, <1>18 DEF Fits
    <3> QED BY <1>1, <3>1, <3>2 DEF Fits
  <2> PICK old, low, rest, some :
        /\ old = Finished /\ low = UNION {Left(j) : j \in 1..(k - 1)}
        /\ rest = LeftFrom(k, Top.i + 1) /\ some = {p \o Reverse(path) : p \in A}
    OBVIOUS
  <2> HIDE DEF A
  <2>2. UNION {Left(j) : j \in DOMAIN stack} = low \cup (some \cup rest)
    BY <1>1, <1>17, LeftFacts
  <2>3. PathsAbove[MaxDirectoryDepth + 1][call.id] = old \cup (low \cup (some \cup rest))
    BY <1>1, <2>1, <2>2 DEF PathsInv
  <2>4. UNION {Left(j)' : j \in DOMAIN stack'} = (low \cup rest) \cup some
    <3>1. 1..(k + 1) = (1..(k - 1) \cup {k}) \cup {k + 1}
      BY <1>2
    <3>2. UNION {Left(j)' : j \in 1..(k + 1)}
            = ((UNION {Left(j)' : j \in 1..(k - 1)}) \cup Left(k)') \cup Left(k + 1)'
      BY <3>1
    <3>3. {Left(j)' : j \in 1..(k - 1)} = {Left(j) : j \in 1..(k - 1)}
      BY <1>7
    <3> QED BY <1>6, <1>7, <1>16, <3>2, <3>3
  <2>5. PathsAbove'[MaxDirectoryDepth + 1] = PathsAbove[MaxDirectoryDepth + 1]
    BY <1>1, SamePaths, DepthFacts
  <2> QED BY <1>12, <2>3, <2>4, <2>5
<1>19. PathsInv'
  <2>1. ASSUME Fits'
        PROVE  PathsAbove'[MaxDirectoryDepth + 1][call'.id]
                 = Finished' \cup UNION {Left(j)' : j \in DOMAIN stack'}
    BY <1>13, <1>18, <2>1
  <2> QED BY <1>13, <1>14, <2>1 DEF PathsInv
<1> QED BY <1>10, <1>19

\* The path ends above the name, with a marker or in the root.
LEMMA EndStep ==
  ASSUME IInv, VolumeInv', SameVolume, Ready, UNCHANGED <<call, calls>>,
         NEW t \in Seq(Words), NEW k, k = Len(stack),
         paths' = [Started EXCEPT ![Current] = Append(Base, FileName.name) \o t],
         stack' = Advanced, Above(FileName, MaxDirectoryDepth + 1 - k) = {Reverse(t)}
  PROVE  WalkInv' /\ PathsInv'
<1> PICK base, e : base = Base /\ e = FileName.name
  OBVIOUS
<1> PICK named : named = Append(base, e)
  OBVIOUS
<1> PICK path : path = named \o t
  OBVIOUS
<1>1. /\ base \in Seq(Words) /\ e \in Words /\ Below(k) = Reverse(base)
  <2>1. WalkInv /\ stack # << >>
    BY DEF IInv, Ready
  <2> QED BY <2>1, TopFacts, StartedFacts, Types
<1>2. /\ named \in Seq(Words) /\ Len(named) = Len(base) + 1 /\ Len(base) \in Nat
      /\ \A i \in 1..Len(base) : named[i] = base[i]
  BY <1>1, AppendFacts, SeqFacts
<1>3. /\ path \in Seq(Words) /\ Len(path) = Len(named) + Len(t) /\ Len(t) \in Nat
      /\ \A i \in 1..Len(named) : path[i] = named[i]
  BY <1>2, ConcatFacts, SeqFacts
<1>4. /\ Len(Base) <= Len(path) /\ path # << >>
      /\ \A i \in 1..Len(Base) : path[i] = Base[i]
  <2>1. Len(path) # 0 /\ Len(base) <= Len(path)
    BY <1>2, <1>3
  <2>2. \A i \in 1..Len(base) : i \in 1..Len(named)
    BY <1>2
  <2>3. path # << >>
    BY <1>3, <2>1, SeqFacts
  <2> QED BY <1>2, <1>3, <2>1, <2>2, <2>3
<1>5. {p \o Below(k) : p \in Through(FileName, MaxDirectoryDepth + 1 - k)} = {Reverse(path)}
  <2>1. Through(FileName, MaxDirectoryDepth + 1 - k) = {Append(Reverse(t), e)}
    BY DEF Through
  <2>2. Reverse(Append(base, e) \o t) = Append(Reverse(t), e) \o Reverse(base)
    BY <1>1, ReverseStep
  <2> QED BY ZenonT(60), <1>1, <2>1, <2>2
<1>6. paths' = [Started EXCEPT ![Current] = path]
  OBVIOUS
<1>7. path \in Seq(Words)
  BY <1>3
<1>8. LeadsTo(path, k)
  BY <1>4, <1>5 DEF LeadsTo
<1> QED BY <1>4, <1>6, <1>7, <1>8, CloseStep

\* The paths with the name added.
Visited == [Started EXCEPT ![Current] = Append(@, FileName.name)]

LEMMA VisitedIs ==
  ASSUME WalkInv, Ready
  PROVE  /\ Visited = [Started EXCEPT ![Current] = Append(Base, FileName.name)]
         /\ Started = [Started EXCEPT ![Current] = Base]
         /\ \A t : [Visited EXCEPT ![Current] = @ \o t]
                     = [Started EXCEPT ![Current] = Append(Base, FileName.name) \o t]
<1> PICK s, c, named : s = Started /\ c = Current /\ named = Append(Base, FileName.name)
  OBVIOUS
<1>1. s \in Seq(Seq(Words)) /\ c \in 1..Len(s) /\ s[c] = Base
  BY StartedFacts
<1>2. Visited = [s EXCEPT ![c] = named]
  BY <1>1 DEF Visited
<1>3. s = [s EXCEPT ![c] = Base]
  BY <1>1
<1>4. ASSUME NEW t PROVE [Visited EXCEPT ![c] = @ \o t] = [s EXCEPT ![c] = named \o t]
  <2> PICK v : v = [s EXCEPT ![c] = named]
    OBVIOUS
  <2>1. v[c] = named
    BY <1>1
  <2>2. [v EXCEPT ![c] = @ \o t] = [v EXCEPT ![c] = named \o t]
    BY <2>1
  <2> PICK u : u = named \o t
    OBVIOUS
  <2>3. [v EXCEPT ![c] = u] = [s EXCEPT ![c] = u]
    BY <1>1
  <2> QED BY <1>2, <2>2, <2>3
<1> QED BY <1>2, <1>3, <1>4

LEMMA MarkStep ==
  ASSUME IInv, VolumeInv', SameVolume, Ready, UNCHANGED <<call, calls>>,
         NEW marker \in Markers, NEW k, k = Len(stack),
         paths' = [Visited EXCEPT ![Current] = @ \o <<marker, "<Err>">>],
         stack' = Advanced,
         Above(FileName, MaxDirectoryDepth + 1 - k) = {<<"<Err>", marker>>}
  PROVE  WalkInv' /\ PathsInv'
<1> PICK t : t = <<marker, "<Err>">>
  OBVIOUS
<1>1. t \in Seq(Words) /\ Reverse(t) = <<"<Err>", marker>>
  BY MarkerTypes
<1>2. paths' = [Started EXCEPT ![Current] = Append(Base, FileName.name) \o t]
  <2>1. WalkInv
    BY DEF IInv
  <2> QED BY <2>1, VisitedIs
<1>3. Above(FileName, MaxDirectoryDepth + 1 - k) = {Reverse(t)}
  BY <1>1
<1> QED BY <1>1, <1>2, <1>3, EndStep

TooMany == Top.i > 1 /\ Current - 1 > MaxLinks

\* What becomes of a file name.
LEMMA NextNameCases ==
  ASSUME NextName, NEW up, up = GetSummary(FileName.parent, FileName.seq),
         NEW depth, depth = Top.depth + 1
  PROVE  /\ Ready /\ UNCHANGED <<call, calls>>
         /\ \/ /\ TooMany
               /\ paths' = Started /\ stack' = Advanced /\ UNCHANGED <<mft, preloaded>>
            \/ /\ ~ TooMany /\ FileName.parent = Root
               /\ paths' = Visited /\ stack' = Advanced /\ UNCHANGED <<mft, preloaded>>
            \/ /\ ~ TooMany /\ FileName.parent # Root /\ up = None
               /\ paths' = [Visited EXCEPT ![Current] = @ \o <<"<NoEntry>", "<Err>">>]
               /\ stack' = Advanced /\ UNCHANGED <<mft, preloaded>>
            \/ /\ ~ TooMany /\ FileName.parent # Root /\ up # None /\ Deref(up).seq # FileName.seq
               /\ paths' = [Visited EXCEPT ![Current] = @ \o <<"<WrongSequence>", "<Err>">>]
               /\ stack' = Advanced /\ UNCHANGED <<mft, preloaded>>
            \/ /\ ~ TooMany /\ FileName.parent # Root /\ up # None /\ Deref(up).seq = FileName.seq
               /\ Visit(up, Current, depth, Visited, Advanced)
BY DEF NextName, Ready, TooMany, Started, Current, FileName, Visited

LEMMA CallKept ==
  ASSUME IInv, UNCHANGED <<call, calls>>, call.pc # "done"
  PROVE  CallInv'
BY DEF IInv, CallInv

LEMMA NextNameStep ==
  ASSUME IInv, NextName, UNCHANGED includeShortNames
  PROVE  IInv'
<1> PICK k, up, depth : /\ k = Len(stack) /\ depth = Top.depth + 1
                        /\ up = GetSummary(FileName.parent, FileName.seq)
  OBVIOUS
<1> DEFINE n == MaxDirectoryDepth + 1 - k
<1>1. VolumeInv /\ WalkInv /\ Ready /\ UNCHANGED <<call, calls>> /\ stack # << >>
  BY NextNameCases DEF IInv, Ready
<1>2. depth = k /\ k \in 1..(MaxDirectoryDepth + 1) /\ k \in 0..(MaxDirectoryDepth + 1)
  BY <1>1, TopFacts
<1>3. CallInv'
  BY <1>1, CallKept DEF WalkInv
<1>4. /\ FileName \in FileNames /\ Current \in Nat
      /\ FileName.parent # Root => FileName.parent \in Ids
  BY <1>1, StartedFacts, Types
<1>5. /\ Visited = [Started EXCEPT ![Current] = Append(Base, FileName.name)]
      /\ Started = [Started EXCEPT ![Current] = Base]
  BY <1>1, VisitedIs
<1>6. UNCHANGED <<mft, preloaded>> => VolumeInv' /\ SameVolume
  BY <1>1, Unordered
<1>7. CASE TooMany /\ paths' = Started /\ stack' = Advanced /\ UNCHANGED <<mft, preloaded>>
  <2>1. Base \in Seq(Words) /\ Len(Base) \in Nat
    BY <1>1, TopFacts
  <2>2. Current > MaxLinks + 1
    BY <1>4, <1>7, OptionsAssumption DEF TooMany
  <2>3. paths' = [Started EXCEPT ![Current] = Base]
    BY <1>5, <1>7
  <2>4. Len(Base) <= Len(Base) /\ \A i \in 1..Len(Base) : Base[i] = Base[i]
    BY <2>1
  <2>5. WalkInv' /\ PathsInv'
    BY <1>1, <1>6, <1>7, <2>1, <2>2, <2>3, <2>4, CloseStep
  <2> QED BY <1>3, <1>6, <1>7, <2>5 DEF IInv
<1>8. CASE /\ FileName.parent = Root
           /\ paths' = Visited /\ stack' = Advanced /\ UNCHANGED <<mft, preloaded>>
  <2> PICK t : t = << >>
    OBVIOUS
  <2>1. t \in Seq(Words) /\ Reverse(t) = << >>
    BY ReverseNone
  <2>2. Append(Base, FileName.name) \o t = Append(Base, FileName.name)
    <3>1. Base \in Seq(Words) /\ FileName.name \in Words
      BY <1>1, <1>4, TopFacts, Types
    <3>2. Append(Base, FileName.name) \in Seq(Words)
      BY <3>1, AppendFacts
    <3> QED BY <3>2, ConcatNone
  <2>3. paths' = [Started EXCEPT ![Current] = Append(Base, FileName.name) \o t]
    BY <1>5, <1>8, <2>2
  <2>4. Above(FileName, n) = {Reverse(t)}
    BY <1>8, <2>1 DEF Above
  <2>5. WalkInv' /\ PathsInv'
    BY <1>1, <1>6, <1>8, <2>1, <2>3, <2>4, EndStep
  <2> QED BY <1>3, <1>6, <1>8, <2>5 DEF IInv
<1>9. CASE /\ FileName.parent # Root /\ up = None
           /\ paths' = [Visited EXCEPT ![Current] = @ \o <<"<NoEntry>", "<Err>">>]
           /\ stack' = Advanced /\ UNCHANGED <<mft, preloaded>>
  <2>1. Above(FileName, n) = {<<"<Err>", "<NoEntry>">>}
    BY <1>9 DEF Above
  <2>2. "<NoEntry>" \in Markers
    BY DEF Markers
  <2>3. WalkInv' /\ PathsInv'
    BY <1>1, <1>6, <1>9, <2>1, <2>2, MarkStep
  <2> QED BY <1>3, <1>6, <1>9, <2>3 DEF IInv
<1>10. CASE /\ FileName.parent # Root /\ up # None /\ Deref(up).seq # FileName.seq
            /\ paths' = [Visited EXCEPT ![Current] = @ \o <<"<WrongSequence>", "<Err>">>]
            /\ stack' = Advanced /\ UNCHANGED <<mft, preloaded>>
  <2>1. Above(FileName, n) = {<<"<Err>", "<WrongSequence>">>}
    BY <1>10 DEF Above
  <2>2. "<WrongSequence>" \in Markers
    BY DEF Markers
  <2>3. WalkInv' /\ PathsInv'
    BY <1>1, <1>6, <1>10, <2>1, <2>2, MarkStep
  <2> QED BY <1>3, <1>6, <1>10, <2>3 DEF IInv
<1>11. CASE /\ FileName.parent # Root /\ up # None /\ Deref(up).seq = FileName.seq
            /\ Visit(up, Current, depth, Visited, Advanced)
  <2> PICK idx, ps, below : idx = Current /\ ps = Visited /\ below = Advanced
    OBVIOUS
  <2>1. up \in Refs
    BY <1>1, <1>4, <1>11, GetSummaryIn
  <2>2. Above(FileName, n) = PathsAbove[n][up]
    BY <1>11 DEF Above
  <2>3. Visit(up, idx, k, ps, below)
    BY <1>2, <1>11
  <2>4. /\ VolumeInv' /\ SameVolume
        /\ \/ \E marker \in Markers : Ended(up, idx, k, ps, below, marker)
           \/ \E frame \in Frames : Opened(up, idx, k, ps, below, frame)
    <3>1. idx \in Nat
      BY <1>4
    <3> QED BY <1>1, <1>2, <2>1, <2>3, <3>1, VisitLemma
  <2>5. CASE \E marker \in Markers : Ended(up, idx, k, ps, below, marker)
    <3>1. PICK marker \in Markers : Ended(up, idx, k, ps, below, marker)
      BY <2>5
    <3>2. /\ paths' = [Visited EXCEPT ![Current] = @ \o <<marker, "<Err>">>]
          /\ stack' = Advanced /\ Above(FileName, n) = {<<"<Err>", marker>>}
      BY <2>2, <3>1 DEF Ended
    <3>3. WalkInv' /\ PathsInv'
      BY <1>1, <2>4, <3>2, MarkStep
    <3> QED BY <1>3, <2>4, <3>3 DEF IInv
  <2>6. CASE \E frame \in Frames : Opened(up, idx, k, ps, below, frame)
    <3>1. PICK frame \in Frames : Opened(up, idx, k, ps, below, frame)
      BY <2>6
    <3> PICK path : path = Append(Base, FileName.name)
      OBVIOUS
    <3>2. ps = [Started EXCEPT ![Current] = path]
      BY <1>5
    <3>3. WalkInv' /\ PathsInv'
      BY <1>1, <2>1, <2>2, <2>4, <3>1, <3>2, OpenStep
    <3> QED BY <1>3, <2>4, <3>3 DEF IInv
  <2> QED BY <2>4, <2>5, <2>6
<1> HIDE DEF n
<1> QED BY <1>7, <1>8, <1>9, <1>10, <1>11, NextNameCases

-----------------------------------------------------------------------------
(* The other steps *)

LEMMA LeaveStep ==
  ASSUME IInv, Leave, UNCHANGED includeShortNames
  PROVE  IInv'
<1> PICK k : k = Len(stack)
  OBVIOUS
<1>1. /\ VolumeInv /\ WalkInv /\ PathsInv /\ stack # << >> /\ ~ Ready
      /\ stack' = Front(stack) /\ UNCHANGED <<mft, preloaded, paths, call, calls>>
  BY TopFacts DEF IInv, Leave, Ready
<1>2. VolumeInv' /\ SameVolume /\ call.pc = "busy"
  BY <1>1, Unordered DEF WalkInv
<1>3. /\ k \in Nat /\ k >= 1 /\ DOMAIN stack = 1..k /\ k <= MaxDirectoryDepth + 1
      /\ stack \in Seq(Frames) /\ MaxDirectoryDepth \in Nat
  BY <1>1, WalkFacts, TopFacts, OptionsAssumption DEF WalkInv
<1>4. /\ stack' \in Seq(Frames) /\ Len(stack') = k - 1 /\ DOMAIN stack' = 1..(k - 1)
      /\ \A j \in 1..(k - 1) : stack'[j] = stack[j]
  <2>1. stack' = SubSeq(stack, 1, k - 1)
    BY <1>1 DEF Front
  <2> QED BY <1>3, <2>1
<1>5. Extended /\ paths' \in Seq(Seq(Words))
  <2>1. paths' = paths /\ \A j \in DOMAIN paths : Len(paths[j]) \in Nat
    BY <1>1, WalkFacts
  <2> QED BY <1>1, <2>1 DEF Extended, WalkInv
<1>6. ASSUME NEW j \in 1..(k - 1)
      PROVE  FrameInv(j)' /\ Left(j)' = Left(j) /\ stack[j].i # 1
  <2> PICK f, m : f = stack[j] /\ m = f.i
    OBVIOUS
  <2>1. j \in DOMAIN stack /\ j # k
    BY <1>3
  <2>2. f \in Frames /\ FrameInv(j)
    BY <1>1, <2>1, WalkFacts
  <2>3. m \in Nat /\ m # 1 /\ m <= Len(NamesOf(f)) + 1
    <3>1. /\ f.i \in 1..(Len(NamesOf(f)) + 1) /\ NamesOf(f) \in Seq(FileNames)
          /\ f.i = 1 => j = Len(stack)
      BY <2>2 DEF FrameInv
    <3> QED BY <2>1, <3>1
  <2>4. stack'[j] = [f EXCEPT !.i = m]
    <3>1. stack'[j] = f
      BY <1>4
    <3>2. [f EXCEPT !.i = m] = f
      BY <2>2 DEF Frames
    <3> QED BY <3>1, <3>2
  <2>5. FrameInv(j)' /\ Left(j)' = LeftFrom(j, m)
    BY <1>1, <1>2, <1>5, <2>1, <2>3, <2>4, FrameKept
  <2> QED BY <2>3, <2>5 DEF Left
<1>7. WalkInv'
  <2>1. stack' \in Seq(Frames')
    BY <1>2, <1>4, FramesSame
  <2>2. Len(stack') <= MaxDirectoryDepth + 1
    BY <1>3, <1>4
  <2> QED BY <1>1, <1>2, <1>4, <1>5, <1>6, <2>1, <2>2 DEF WalkInv
<1>8. \A j : ~ IsOpen(j) /\ ~ IsOpen(j)'
  <2>1. Top.i # 1
    BY <1>1, TopFacts DEF Ready
  <2>2. stack' # << >> => Top'.i # 1
    <3> SUFFICES ASSUME stack' # << >> PROVE Top'.i # 1
      OBVIOUS
    <3>1. k - 1 # 0
      BY <1>4, SeqFacts
    <3>2. k - 1 \in 1..(k - 1) /\ Top' = stack'[k - 1]
      BY <1>3, <1>4, <3>1 DEF Top
    <3> QED BY <1>4, <1>6, <3>2
  <2> QED BY <2>1, <2>2 DEF IsOpen
<1>9. Finished' = Finished
  <2>1. {x \in DOMAIN paths' : ~ IsOpen(x)'} = {x \in DOMAIN paths : ~ IsOpen(x)}
    BY <1>1, <1>8
  <2> QED BY <1>1, <2>1 DEF Finished
<1>10. ASSUME Fits'
       PROVE  PathsAbove'[MaxDirectoryDepth + 1][call.id]
                = Finished' \cup UNION {Left(j)' : j \in DOMAIN stack'}
  <2> PICK low, old : low = UNION {Left(j) : j \in 1..(k - 1)} /\ old = Finished
    OBVIOUS
  <2>1. UNION {Left(j) : j \in DOMAIN stack} = low
    BY <1>1, LeftFacts
  <2>2. Fits
    BY <1>1, <1>10 DEF Fits
  <2>3. PathsAbove[MaxDirectoryDepth + 1][call.id] = old \cup low
    BY <1>1, <1>2, <2>1, <2>2 DEF PathsInv
  <2>4. UNION {Left(j)' : j \in DOMAIN stack'} = low
    <3>1. {Left(j)' : j \in 1..(k - 1)} = {Left(j) : j \in 1..(k - 1)}
      BY <1>6
    <3> QED BY <1>4, <3>1
  <2>5. PathsAbove'[MaxDirectoryDepth + 1] = PathsAbove[MaxDirectoryDepth + 1]
    BY <1>1, <1>2, SamePaths, DepthFacts
  <2> QED BY <1>9, <2>3, <2>4, <2>5
<1>11. PathsInv'
  <2>1. call.id \in Refs' /\ call' = call
    BY <1>1, <1>2 DEF PathsInv, SameVolume
  <2>2. \A j \in DOMAIN paths' : j <= MaxLinks + 1 => paths'[j] # << >>
    BY <1>1, <1>2, <1>8 DEF PathsInv
  <2>3. ASSUME Fits'
        PROVE  PathsAbove'[MaxDirectoryDepth + 1][call'.id]
                 = Finished' \cup UNION {Left(j)' : j \in DOMAIN stack'}
    BY <1>10, <2>1, <2>3
  <2> QED BY <2>1, <2>2, <2>3 DEF PathsInv
<1>12. CallInv'
  BY <1>1, <1>2, CallKept
<1> QED BY <1>2, <1>7, <1>11, <1>12 DEF IInv

LEMMA BeginStep ==
  ASSUME IInv, NEW id \in Ids, NEW seq, Begin(id, seq), UNCHANGED includeShortNames
  PROVE  IInv'
<1> PICK ref : ref = GetSummary(id, seq)
  OBVIOUS
<1>1. /\ VolumeInv /\ WalkInv /\ CallInv /\ stack = << >>
      /\ MaxDirectoryDepth \in Nat /\ MaxLinks \in Nat /\ MaxCalls \in Nat
  BY OptionsAssumption DEF IInv, WalkInv, Begin
<1>2. calls' \in 0..MaxCalls
  BY <1>1 DEF Begin, CallInv
<1>3. CASE ref = None
  <2>1. /\ call' = [pc |-> "failed", id |-> id, result |-> << >>]
        /\ UNCHANGED <<mft, preloaded, stack, paths>>
    BY <1>3 DEF Begin
  <2>2. VolumeInv' /\ SameVolume
    BY <1>1, <2>1, Unordered
  <2>3. WalkInv'
    <3>1. stack' \in Seq(Frames') /\ Len(stack') = 0 /\ DOMAIN stack' = {}
      BY <1>1, <2>1
    <3> QED BY <1>1, <2>1, <3>1 DEF WalkInv
  <2>4. PathsInv'
    BY <2>1 DEF PathsInv
  <2>5. CallInv'
    BY <1>2, <2>1 DEF CallInv
  <2> QED BY <2>2, <2>3, <2>4, <2>5 DEF IInv
<1>4. CASE ref # None
  <2> PICK none, ps, below, idx, depth :
        none = << >> /\ ps = <<none>> /\ below = << >> /\ idx = 1 /\ depth = 0
    OBVIOUS
  <2>1. /\ call' = [pc |-> "busy", id |-> ref, result |-> << >>]
        /\ Visit(ref, idx, depth, ps, below)
    BY <1>4 DEF Begin
  <2>2. ref \in Refs
    BY <1>1, <1>4, GetSummaryIn
  <2>3. /\ VolumeInv' /\ SameVolume
        /\ \/ \E marker \in Markers : Ended(ref, idx, depth, ps, below, marker)
           \/ \E frame \in Frames : Opened(ref, idx, depth, ps, below, frame)
    <3>1. idx \in Nat /\ depth \in 0..(MaxDirectoryDepth + 1)
      BY <1>1
    <3> QED BY <1>1, <2>1, <2>2, <3>1, VisitLemma
  <2>4. CallInv' /\ call'.pc = "busy" /\ call'.id = ref /\ ref \in Refs'
    BY <1>2, <2>1, <2>2, <2>3 DEF CallInv, SameVolume
  <2> DEFINE D == MaxDirectoryDepth + 1
             A == PathsAbove[D][ref]
  <2>5. D \in 0..D /\ D - depth = D /\ D - 1 = MaxDirectoryDepth /\ MaxDirectoryDepth \in 0..D
    BY <1>1
  <2>6. PathsAbove'[D] = PathsAbove[D] /\ A \subseteq Seq(Words)
    BY <1>1, <2>2, <2>3, <2>5, SamePaths, PathsTyped
  <2>7. /\ none \in Seq(Words) /\ ps \in Seq(Seq(Words))
        /\ Len(ps) = 1 /\ DOMAIN ps = {1} /\ ps[1] = none
    OBVIOUS
  <2>8. CASE \E marker \in Markers : Ended(ref, idx, depth, ps, below, marker)
    <3>1. PICK marker \in Markers : Ended(ref, idx, depth, ps, below, marker)
      BY <2>8
    <3> PICK t, up : t = <<marker, "<Err>">> /\ up = <<"<Err>", marker>>
      OBVIOUS
    <3>2. t \in Seq(Words) /\ up \in Seq(Words) /\ Reverse(t) = up /\ t # << >>
      BY MarkerTypes
    <3>3. paths' = <<t>> /\ stack' = << >> /\ A = {up}
      <4>1. paths' = [ps EXCEPT ![1] = @ \o t] /\ stack' = << >> /\ A = {up}
        BY <2>5, <3>1 DEF Ended
      <4>2. none \o t = t
        BY <3>2
      <4> QED BY <4>1, <4>2
    <3>4. paths' \in Seq(Seq(Words)) /\ DOMAIN paths' = {1} /\ paths'[1] = t /\ \A j : ~ IsOpen(j)'
      BY <3>2, <3>3 DEF IsOpen
    <3>5. WalkInv'
      <4>1. stack' \in Seq(Frames') /\ Len(stack') = 0 /\ DOMAIN stack' = {}
        BY <3>3
      <4> QED BY <1>1, <2>4, <3>4, <4>1 DEF WalkInv
    <3>6. Finished' = {up}
      <4>1. {x \in DOMAIN paths' : ~ IsOpen(x)'} = {1}
        BY <3>4
      <4>2. Finished' = {Reverse(paths'[j]) : j \in {x \in DOMAIN paths' : ~ IsOpen(x)'}}
        BY DEF Finished
      <4>3. {Reverse(paths'[j]) : j \in {1}} = {Reverse(paths'[1])}
        OBVIOUS
      <4>4. Reverse(paths'[1]) = up
        BY <3>2, <3>4
      <4> QED BY <4>1, <4>2, <4>3, <4>4
    <3>7. UNION {Left(j)' : j \in DOMAIN stack'} = {}
      BY <3>3
    <3>8. PathsAbove'[D][ref] = Finished' \cup UNION {Left(j)' : j \in DOMAIN stack'}
      BY <2>6, <3>3, <3>6, <3>7
    <3>9. PathsInv'
      <4> HIDE DEF A
      <4> QED BY <2>4, <3>2, <3>4, <3>8 DEF PathsInv
    <3> QED BY <2>3, <2>4, <3>5, <3>9 DEF IInv
  <2>9. CASE \E frame \in Frames : Opened(ref, idx, depth, ps, below, frame)
    <3>1. PICK frame \in Frames : Opened(ref, idx, depth, ps, below, frame)
      BY <2>9
    <3> PICK names : names = NamesOf(frame)'
      OBVIOUS
    <3>2. /\ paths' = ps /\ stack' = <<frame>>
          /\ frame.ref = ref /\ frame.idx = 1 /\ frame.depth = 0 /\ frame.i = 1
          /\ names \in Seq(FileNames) /\ Steady(names) /\ names # << >>
          /\ ToSet(names) = Usable(ref)
          /\ A = UNION {Through(fn, MaxDirectoryDepth) : fn \in Usable(ref)}
      <4>1. Append(below, frame) = <<frame>> /\ MaxDirectoryDepth - depth = MaxDirectoryDepth
        BY <1>1
      <4> QED BY <2>5, <3>1, <4>1 DEF Opened
    <3>3. /\ stack' \in Seq(Frames') /\ Len(stack') = 1 /\ DOMAIN stack' = {1} /\ stack'[1] = frame
          /\ stack' # << >> /\ Top' = frame
      BY <2>3, <3>2, FramesSame DEF Top
    <3>4. FrameInv(1)'
      <4>1. Usable(ref)' = Usable(ref) /\ frame \in Frames'
        BY <2>2, <2>3, FramesSame DEF SameVolume
      <4>2. frame.i \in 1..(Len(names) + 1) /\ Len(none) = 0
        BY <3>2
      <4> QED BY <2>7, <3>2, <3>3, <4>1, <4>2 DEF FrameInv
    <3>5. WalkInv'
      BY <1>1, <2>4, <2>7, <3>2, <3>3, <3>4 DEF WalkInv
    <3>6. \A j : IsOpen(j)' <=> j = 1
      BY <3>2, <3>3 DEF IsOpen
    <3>7. Finished' = {}
      <4>1. {x \in DOMAIN paths' : ~ IsOpen(x)'} = {}
        BY <2>7, <3>2, <3>6
      <4> QED BY <4>1 DEF Finished
    <3> PICK one : one = 1
      OBVIOUS
    <3>8. Left(one)' = A
      <4> PICK d, b : d = D - one /\ b = Below(one)'
        OBVIOUS
      <4>1. b = << >>
        <5>1. SubSeq(none, 1, one - 1) = << >>
          OBVIOUS
        <5> QED BY <2>7, <3>2, <3>3, <5>1, ReverseNone DEF Below
      <4>2. Left(one)' = {p \o b : p \in UNION {Through(names[j], d)' : j \in 1..Len(names)}}
        <5>1. stack'[one] = frame /\ frame.i = 1 /\ NamesOf(frame)' = names
          BY <3>2, <3>3
        <5>2. Left(one)' = Opening(names, d, b)
          <6>1. d = MaxDirectoryDepth + 1 - one
            BY <1>1
          <6> QED BY <5>1, <6>1, LeftOpened
        <5> QED BY <5>2 DEF Opening
      <4>3. (UNION {Through(names[j], d)' : j \in 1..Len(names)}) = A
        <5>1. /\ ToSet(names) = {names[j] : j \in 1..Len(names)}
              /\ \A j \in 1..Len(names) : names[j] \in FileNames
          BY <3>2 DEF ToSet
        <5>2. {Through(names[j], d)' : j \in 1..Len(names)}
                = {Through(names[j], d) : j \in 1..Len(names)}
          BY <1>1, <2>3, <2>5, <5>1, SamePaths
        <5>3. {Through(names[j], d) : j \in 1..Len(names)} = {Through(fn, d) : fn \in ToSet(names)}
          BY <5>1
        <5>4. ToSet(names) = Usable(ref) /\ A = UNION {Through(fn, d) : fn \in Usable(ref)}
          BY <2>5, <3>2
        <5> HIDE DEF A
        <5> QED BY <5>2, <5>3, <5>4
      <4> HIDE DEF A
      <4>4. \A p \in A : p \o b = p
        BY <2>6, <4>1
      <4>5. {p \o b : p \in A} = A
        BY <4>4
      <4> QED BY <4>2, <4>3, <4>5
    <3>9. UNION {Left(j)' : j \in DOMAIN stack'} = A
      BY <3>3, <3>8
    <3>10. PathsAbove'[D][ref] = Finished' \cup UNION {Left(j)' : j \in DOMAIN stack'}
      BY <2>6, <3>7, <3>9
    <3>11. PathsInv'
      <4>1. \A j \in DOMAIN paths' : IsOpen(j)'
        BY <2>7, <3>2, <3>6
      <4> HIDE DEF A
      <4> QED BY <2>4, <3>10, <4>1 DEF PathsInv
    <3> QED BY <2>3, <2>4, <3>5, <3>11 DEF IInv
  <2> QED BY <2>3, <2>8, <2>9
<1> QED BY <1>3, <1>4

\* What is returned of a finished path.
LEMMA ComponentsFacts ==
  ASSUME Reverse(Prefix) = Prefix, NEW ps \in Seq(Seq(Words))
  PROVE  /\ Len(Components(ps)) \in Nat
         /\ \A m \in 0..Len(ps) :
              (\A j \in 1..m : ps[j] # << >>) => Len(Components(ps)) >= m
         /\ (\A j \in 1..Len(ps) : ps[j] # << >>) =>
              ToSet(Components(ps)) = {Prefix \o Reverse(ps[j]) : j \in 1..Len(ps)}
<1> DEFINE res == [i \in DOMAIN ps |-> Reverse(ps[i] \o Prefix)]
           S == ToSet(res) \ {<< >>}
<1>1. Prefix \in Seq(Words)
  BY OptionsAssumption DEF Words
<1>2. /\ Len(ps) \in Nat /\ DOMAIN ps = 1..Len(ps)
      /\ \A j \in 1..Len(ps) : ps[j] \in Seq(Words)
  OBVIOUS
<1>3. ASSUME NEW j \in 1..Len(ps)
      PROVE  /\ res[j] = Prefix \o Reverse(ps[j]) /\ res[j] \in Seq(Words)
             /\ ps[j] # << >> => res[j] # << >>
  <2> PICK p, q : p = ps[j] /\ q = Reverse(ps[j])
    OBVIOUS
  <2>1. p \in Seq(Words) /\ q \in Seq(Words) /\ Len(q) = Len(p)
    BY <1>2, ReverseFacts
  <2>2. res[j] = Reverse(p \o Prefix)
    BY <1>2
  <2> HIDE DEF res
  <2>3. Reverse(p \o Prefix) = Prefix \o q
    BY <1>1, <2>1, ReverseConcat
  <2>4. Prefix \o q \in Seq(Words) /\ Len(Prefix \o q) = Len(Prefix) + Len(q)
    BY <1>1, <2>1, ConcatFacts
  <2>5. p # << >> => Prefix \o q # << >>
    <3> PICK u : u = Prefix \o q
      OBVIOUS
    <3>1. /\ Len(p) \in Nat /\ Len(Prefix) \in Nat /\ (Len(p) = 0 <=> p = << >>)
          /\ (Len(u) = 0 <=> u = << >>)
      BY <1>1, <2>1, <2>4, SeqFacts
    <3>2. Len(u) = Len(Prefix) + Len(p)
      BY <2>1, <2>4
    <3> QED BY <3>1, <3>2
  <2> QED BY <2>2, <2>3, <2>4, <2>5
<1>4. res \in Seq(Seq(Words)) /\ Len(res) = Len(ps)
  <2>1. DOMAIN res = 1..Len(ps) /\ res = [i \in 1..Len(ps) |-> res[i]]
    BY <1>2
  <2> HIDE DEF res
  <2> QED BY <1>2, <1>3, <2>1
<1>5. Components(ps) = Only(res, S)
  BY DEF Components
<1> HIDE DEF res, S
<1>6. ToSet(res) = {res[j] : j \in 1..Len(ps)}
  BY <1>4 DEF ToSet
<1>7. /\ Only(res, S) \in Seq(Seq(Words))
      /\ ToSet(Only(res, S)) = ToSet(res) \cap S
      /\ \A m \in 0..Len(res) :
           (\A j \in 1..m : res[j] \in S) => Len(Only(res, S)) >= m
  BY <1>4, OnlyFacts
<1>8. ASSUME NEW j \in 1..Len(ps), ps[j] # << >> PROVE res[j] \in S
  BY <1>3, <1>6, <1>8 DEF S
<1>9. ASSUME NEW m \in 0..Len(ps), \A j \in 1..m : ps[j] # << >>
      PROVE  Len(Only(res, S)) >= m
  <2>1. \A j \in 1..m : j \in 1..Len(ps)
    BY <1>2
  <2>2. \A j \in 1..m : res[j] \in S
    BY <1>8, <1>9, <2>1
  <2> QED BY <1>4, <1>7, <2>2
<1>10. ASSUME \A j \in 1..Len(ps) : ps[j] # << >>
       PROVE  ToSet(Only(res, S)) = {Prefix \o Reverse(ps[j]) : j \in 1..Len(ps)}
  <2>1. ToSet(res) \subseteq S
    BY <1>6, <1>8, <1>10
  <2>2. {res[j] : j \in 1..Len(ps)} = {Prefix \o Reverse(ps[j]) : j \in 1..Len(ps)}
    BY <1>3
  <2> QED BY <1>6, <1>7, <2>1, <2>2
<1>11. Len(Only(res, S)) \in Nat
  BY <1>7
<1> QED BY <1>5, <1>9, <1>10, <1>11

LEMMA ReturnStep ==
  ASSUME IInv, Reverse(Prefix) = Prefix, Return, UNCHANGED includeShortNames
  PROVE  IInv'
<1> PICK ps, result : ps = paths /\ result = Components(paths)
  OBVIOUS
<1>1. /\ VolumeInv /\ WalkInv /\ PathsInv /\ CallInv /\ stack = << >> /\ call.pc = "busy"
      /\ call' = [call EXCEPT !.pc = "done", !.result = result] /\ paths' = << >>
      /\ UNCHANGED <<mft, preloaded, stack, calls>>
      /\ MaxLinks \in Nat /\ MaxDirectoryDepth \in Nat
  BY OptionsAssumption DEF IInv, Return
<1>2. VolumeInv' /\ SameVolume
  BY <1>1, Unordered
<1>3. WalkInv'
  <2>1. /\ stack' \in Seq(Frames') /\ Len(stack') = 0 /\ DOMAIN stack' = {}
        /\ paths' \in Seq(Seq(Words))
    BY <1>1
  <2> QED BY <1>1, <2>1 DEF WalkInv
<1>4. /\ call'.pc = "done" /\ call'.id = call.id /\ call'.result = result
      /\ call' = [pc |-> call'.pc, id |-> call'.id, result |-> call'.result]
  BY <1>1 DEF CallInv
<1>5. PathsInv'
  BY <1>4 DEF PathsInv
<1>6. /\ ps \in Seq(Seq(Words)) /\ Len(ps) \in Nat /\ DOMAIN ps = 1..Len(ps)
      /\ \A j : ~ IsOpen(j)
  BY <1>1, WalkFacts DEF WalkInv, IsOpen
<1>7. \A j \in 1..Len(ps) : j <= MaxLinks + 1 => ps[j] # << >>
  BY <1>1, <1>6 DEF PathsInv
<1>8. Overflowed' \/ Found' = AllPaths(call.id)'
  <2>1. CASE Len(ps) > MaxLinks + 1
    <3>1. MaxLinks + 1 \in 0..Len(ps) /\ \A j \in 1..(MaxLinks + 1) : ps[j] # << >>
      BY <1>1, <1>6, <1>7, <2>1
    <3>2. Len(result) \in Nat /\ Len(result) >= MaxLinks + 1
      BY <1>6, <3>1, ComponentsFacts
    <3>3. Len(result) > MaxLinks
      BY <1>1, <3>2
    <3> QED BY <1>4, <3>3 DEF Overflowed
  <2>2. CASE ~ (Len(ps) > MaxLinks + 1)
    <3>1. Fits /\ \A j \in 1..Len(ps) : ps[j] # << >>
      BY <1>1, <1>6, <1>7, <2>2 DEF Fits
    <3>2. ToSet(result) = {Prefix \o Reverse(ps[j]) : j \in 1..Len(ps)}
      BY <1>6, <3>1, ComponentsFacts
    <3>3. Found' = ToSet(result)
      BY <1>4 DEF Found, ToSet
    <3>4. Finished = {Reverse(ps[j]) : j \in 1..Len(ps)}
      <4>1. {x \in DOMAIN paths : ~ IsOpen(x)} = 1..Len(ps)
        BY <1>6
      <4> QED BY <4>1 DEF Finished
    <3>5. PathsAbove[MaxDirectoryDepth + 1][call.id] = Finished
      <4>1. UNION {Left(k) : k \in DOMAIN stack} = {}
        BY <1>1
      <4> QED BY <1>1, <3>1, <4>1 DEF PathsInv
    <3>6. PathsAbove'[MaxDirectoryDepth + 1] = PathsAbove[MaxDirectoryDepth + 1]
      <4>1. MaxDirectoryDepth + 1 \in 0..(MaxDirectoryDepth + 1)
        BY <1>1
      <4> QED BY <1>1, <1>2, <4>1, SamePaths
    <3> PICK id : id = call.id
      OBVIOUS
    <3>7. AllPaths(id)' = {Prefix \o p : p \in {Reverse(ps[j]) : j \in 1..Len(ps)}}
      BY <3>4, <3>5, <3>6 DEF AllPaths
    <3>8. {Prefix \o p : p \in {Reverse(ps[j]) : j \in 1..Len(ps)}}
            = {Prefix \o Reverse(ps[j]) : j \in 1..Len(ps)}
      OBVIOUS
    <3>9. AllPaths(call.id)' = {Prefix \o p : p \in PathsAbove'[MaxDirectoryDepth + 1][call'.id]}
      BY DEF AllPaths
    <3> QED BY <1>4, <3>2, <3>3, <3>4, <3>5, <3>6, <3>8, <3>9
  <2> QED BY <2>1, <2>2
<1>9. CallInv'
  <2>1. call'.pc = "done" => Overflowed' \/ Found' = AllPaths(call.id)'
    BY <1>8
  <2>2. calls' \in 0..MaxCalls
    BY <1>1 DEF CallInv
  <2> QED BY <1>4, <2>1, <2>2 DEF CallInv
<1> QED BY <1>2, <1>3, <1>5, <1>9 DEF IInv

-----------------------------------------------------------------------------
(* The theorems *)

\* No summary begins with two short names: a file has at most one of them.
\* Without this ExactlyThePaths is false: see EveryNameIsFollowed.
OneShortName ==
  \A v \in Volumes :
    /\ \A id \in Ids : v.mft[id] # None => ~ TwoShort(v.mft[id].names)
    /\ \A k \in DOMAIN v.preloaded : ~ TwoShort(v.preloaded[k].names)

LEMMA InitStep ==
  ASSUME Init, OneShortName
  PROVE  IInv
<1>1. PICK v \in Volumes : mft = v.mft /\ preloaded = v.preloaded
  BY DEF Init
<1>2. /\ mft = [id \in Ids |-> mft[id]]
      /\ preloaded = [k \in DOMAIN preloaded |-> preloaded[k]]
      /\ DOMAIN preloaded \subseteq Ids \X Nat
  BY <1>1, VolumesAssumption
<1>3. \A id \in Ids : mft[id] # None =>
        /\ IsSummary(mft[id]) /\ ~ TwoShort(mft[id].names)
        /\ [mft[id] EXCEPT !.names = LongFirst(@)] # None
  BY <1>1, VolumesAssumption DEF OneShortName
<1>4. \A k \in DOMAIN preloaded : IsSummary(preloaded[k]) /\ ~ TwoShort(preloaded[k].names)
  BY <1>1, VolumesAssumption DEF OneShortName
<1>5. ASSUME NEW ref \in Refs
      PROVE  /\ IsSummary(Deref(ref)) /\ ~ TwoShort(Deref(ref).names)
             /\ ref.from = "mft" => [Deref(ref) EXCEPT !.names = LongFirst(@)] # None
  <2>1. CASE \E id \in Ids : mft[id] # None /\ ref = InMft(id)
    <3>1. PICK id \in Ids : mft[id] # None /\ ref = InMft(id)
      BY <2>1
    <3>2. Deref(ref) = mft[id]
      BY <3>1 DEF Deref, InMft
    <3> QED BY <1>3, <3>1, <3>2
  <2>2. CASE \E k \in DOMAIN preloaded : ref = Preload(k[1], k[2])
    <3>1. PICK k \in DOMAIN preloaded : ref = Preload(k[1], k[2])
      BY <2>2
    <3>2. k = <<k[1], k[2]>>
      BY <1>2
    <3>3. ref.from = "preloaded" /\ ref.id = k[1] /\ ref.seq = k[2]
      BY <3>1 DEF Preload
    <3>4. Deref(ref) = preloaded[k]
      BY <3>2, <3>3 DEF Deref
    <3> QED BY <1>4, <3>3, <3>4
  <2> QED BY <2>1, <2>2 DEF Refs
<1>6. /\ includeShortNames \in BOOLEAN /\ MaxCalls \in Nat /\ MaxDirectoryDepth \in Nat
      /\ stack = << >> /\ paths = << >> /\ calls = 0
      /\ call = [pc |-> "idle", id |-> None, result |-> << >>]
  BY OptionsAssumption DEF Init
<1>7. VolumeInv
  BY <1>2, <1>5, <1>6 DEF VolumeInv
<1>8. WalkInv
  <2>1. /\ stack \in Seq(Frames) /\ Len(stack) = 0 /\ DOMAIN stack = {}
        /\ paths \in Seq(Seq(Words))
    BY <1>6
  <2> QED BY <1>6, <2>1 DEF WalkInv
<1>9. PathsInv /\ CallInv
  BY <1>6 DEF PathsInv, CallInv
<1> QED BY <1>7, <1>8, <1>9 DEF IInv

LEMMA StutterStep ==
  ASSUME IInv, UNCHANGED vars
  PROVE  IInv'
<1>1. UNCHANGED <<mft, preloaded, includeShortNames>> /\ UNCHANGED <<stack, paths, call, calls>>
  BY DEF vars
<1>2. VolumeInv'
  BY <1>1, Unordered DEF IInv
<1>3. WalkInv'
  <2>1. /\ Frames' = Frames
        /\ \A ref : Deref(ref)' = Deref(ref) /\ Usable(ref)' = Usable(ref)
        /\ \A k : NamesOf(stack[k])' = NamesOf(stack[k])
    BY <1>1 DEF Frames, Refs, Deref, Usable, Filters, NamesOf
  <2>2. \A k : FrameInv(k)' <=> FrameInv(k)
    BY <1>1, <2>1 DEF FrameInv, NamesOf, Deref, Usable, Filters
  <2> QED BY <1>1, <2>1, <2>2 DEF IInv, WalkInv
<1>4. PathsInv'
  <2>1. /\ Refs' = Refs /\ Fits' = Fits /\ Finished' = Finished
        /\ \A j : IsOpen(j)' <=> IsOpen(j)
        /\ PathsAbove' = PathsAbove
    BY <1>1 DEF Refs, Fits, Finished, IsOpen, Top, PathsAbove, GetSummary, Deref, Usable, Filters
  <2>2. /\ \A fn, n : Through(fn, n)' = Through(fn, n)
        /\ \A k : Below(k)' = Below(k) /\ NamesOf(stack[k])' = NamesOf(stack[k])
    BY <1>1, <2>1 DEF Below, Through, Above, NamesOf, GetSummary, Deref
  <2>3. ASSUME NEW k
        PROVE  Left(k)' = Left(k)
    <3> PICK names, i, d, b, A : /\ names = NamesOf(stack[k]) /\ i = stack[k].i
                                 /\ d = MaxDirectoryDepth + 1 - k /\ b = Below(k)
                                 /\ A = UNION {Through(names[j], d) : j \in i..Len(names)}
      OBVIOUS
    <3>1. \A j : Through(names[j], d)' = Through(names[j], d)
      BY <2>2
    <3>2. Left(k) = {p \o b : p \in A}
      BY DEF Left, LeftFrom
    <3>3. UNION {Through(names[j], d)' : j \in i..Len(names)} = A
      <4>1. {Through(names[j], d)' : j \in i..Len(names)}
              = {Through(names[j], d) : j \in i..Len(names)}
        BY <3>1
      <4> QED BY <4>1
    <3>4. LeftFrom(k, i)' = {p \o b : p \in A}
      <4>1. NamesOf(stack[k])' = names /\ Below(k)' = b
        BY <2>2
      <4>2. LeftFrom(k, i)'
              = {p \o b : p \in UNION {Through(names[j], d)' : j \in i..Len(names)}}
        BY <4>1 DEF LeftFrom
      <4> QED BY <3>3, <4>2
    <3>5. Left(k)' = LeftFrom(k, i)'
      BY <1>1 DEF Left
    <3> QED BY <3>2, <3>4, <3>5
  <2> QED BY <1>1, <2>1, <2>3 DEF IInv, PathsInv
<1>5. CallInv'
  <2>1. PathsAbove'[MaxDirectoryDepth + 1] = PathsAbove[MaxDirectoryDepth + 1]
    <3>1. MaxDirectoryDepth + 1 \in 0..(MaxDirectoryDepth + 1)
      BY OptionsAssumption
    <3> QED BY <1>1, <3>1, Unordered, SamePaths DEF IInv
  <2>2. AllPaths(call.id)' = {Prefix \o p : p \in PathsAbove'[MaxDirectoryDepth + 1][call'.id]}
    BY DEF AllPaths
  <2>3. AllPaths(call.id)' = AllPaths(call.id)
    BY <1>1, <2>1, <2>2 DEF AllPaths
  <2> QED BY <1>1, <2>3 DEF IInv, CallInv, Overflowed, Found
<1> QED BY <1>2, <1>3, <1>4, <1>5 DEF IInv

LEMMA NextStep ==
  ASSUME IInv, Reverse(Prefix) = Prefix, [Next]_vars
  PROVE  IInv'
<1>1. CASE UNCHANGED vars
  BY <1>1, StutterStep
<1>2. CASE NextName /\ UNCHANGED includeShortNames
  BY <1>2, NextNameStep
<1>3. CASE Leave /\ UNCHANGED includeShortNames
  BY <1>3, LeaveStep
<1>4. CASE Return /\ UNCHANGED includeShortNames
  BY <1>4, ReturnStep
<1>5. ASSUME NEW id \in Ids, NEW seq \in Seqs, Begin(id, seq), UNCHANGED includeShortNames
      PROVE  IInv'
  BY <1>5, BeginStep
<1> QED BY <1>1, <1>2, <1>3, <1>4, <1>5 DEF Next, Step

LEMMA Invariant ==
  ASSUME OneShortName, Reverse(Prefix) = Prefix
  PROVE  Spec => []IInv
<1>1. Init => IInv
  BY InitStep
<1>2. IInv /\ [Next]_vars => IInv'
  BY NextStep
<1> QED BY <1>1, <1>2, PTL DEF Spec

\* The resolver goes no deeper than one directory past MaxDirectoryDepth, and
\* each call of getNames in progress has a path with a component for every
\* call below it, on every volume, cycles included (hardlinks.go:93).
THEOREM TypesHold ==
  ASSUME OneShortName, Reverse(Prefix) = Prefix
  PROVE  Spec => []TypeOK
<1>1. IInv => TypeOK
  <2> SUFFICES ASSUME IInv
               PROVE  TypeOK
    OBVIOUS
  <2>1. Len(stack) <= MaxDirectoryDepth + 1 /\ calls \in 0..MaxCalls
    BY DEF IInv, WalkInv, CallInv
  <2>2. ASSUME NEW k \in DOMAIN stack
        PROVE  /\ stack[k].depth = k - 1 /\ stack[k].idx \in DOMAIN paths
               /\ Len(paths[stack[k].idx]) >= stack[k].depth
    <3>1. FrameInv(k)
      BY DEF IInv, WalkInv
    <3> QED BY <3>1 DEF FrameInv
  <2>3. call.pc \in {"idle", "busy", "done", "failed"}
    BY DEF IInv, CallInv
  <2> QED BY <2>1, <2>2, <2>3 DEF TypeOK
<1> QED BY <1>1, Invariant, PTL

\* GetHardLinks returns exactly the paths that the names of the volume define,
\* unless they are more than MaxLinks: for every volume, also one whose
\* directories form cycles, and whatever calls before have reordered in the
\* cached summaries (hardlinks.go:72).
THEOREM PathsAreExact ==
  ASSUME OneShortName, Reverse(Prefix) = Prefix
  PROVE  Spec => []ExactlyThePaths
<1>1. IInv => ExactlyThePaths
  BY DEF IInv, CallInv, ExactlyThePaths
<1> QED BY <1>1, Invariant, PTL

-----------------------------------------------------------------------------
(* What indexes are made of *)

LEMMA FlattenIs ==
  ASSUME NEW R, NEW s \in Seq(R), s # << >>
  PROVE  \E f : Flattens(f, s, Len(s)) /\ FlattenSeq(s) = f[Len(s)]
<1> DEFINE f == CHOOSE f : f = [i \in 1..Len(s) |-> IF i = 1 THEN s[i] ELSE f[i - 1] \o s[i]]
<1>1. Len(s) \in Nat /\ Len(s) # 0
  BY ListFacts
<1>2. FlattenSeq(s) = f[Len(s)]
  BY <1>1 DEF FlattenSeq
<1>3. Flattens(f, s, Len(s))
  BY <1>1, FlattensExists DEF Flattens
<1> QED BY <1>2, <1>3

LEMMA Elements ==
  ASSUME NEW R, NEW s \in Seq(R)
  PROVE  \A e : e \in ToSet(s) <=> \E k \in 1..Len(s) : e = s[k]
<1>1. DOMAIN s = 1..Len(s)
  BY SeqFacts
<1> QED BY <1>1 DEF ToSet

LEMMA ElementsOfBoth ==
  ASSUME NEW R, NEW s \in Seq(R), NEW t \in Seq(R)
  PROVE  s \o t \in Seq(R) /\ ToSet(s \o t) = ToSet(s) \cup ToSet(t)
<1>1. /\ s \o t \in Seq(R) /\ Len(s \o t) = Len(s) + Len(t)
      /\ Len(s) \in Nat /\ Len(t) \in Nat
      /\ \A k \in 1..Len(s) : (s \o t)[k] = s[k]
      /\ \A k \in 1..Len(t) : (s \o t)[Len(s) + k] = t[k]
  BY ConcatFacts, SeqFacts
<1> PICK u, a, b : u = s \o t /\ a = Len(s) /\ b = Len(t)
  OBVIOUS
<1>2. /\ a \in Nat /\ b \in Nat
      /\ \A k \in 1..a : u[k] = s[k]
      /\ \A k \in 1..b : u[a + k] = t[k]
  BY <1>1
<1>3. /\ \A e : e \in ToSet(u) <=> \E k \in 1..(a + b) : e = u[k]
      /\ \A e : e \in ToSet(s) <=> \E k \in 1..a : e = s[k]
      /\ \A e : e \in ToSet(t) <=> \E k \in 1..b : e = t[k]
  <2>1. u \in Seq(R) /\ Len(u) = a + b
    BY <1>1
  <2>2. \A e : e \in ToSet(u) <=> \E k \in 1..Len(u) : e = u[k]
    BY <2>1, Elements
  <2>3. /\ \A e : e \in ToSet(s) <=> \E k \in 1..Len(s) : e = s[k]
        /\ \A e : e \in ToSet(t) <=> \E k \in 1..Len(t) : e = t[k]
    BY Elements
  <2> QED BY <2>1, <2>2, <2>3
<1>4. ASSUME NEW e, e \in ToSet(u) PROVE e \in ToSet(s) \/ e \in ToSet(t)
  <2>1. PICK k \in 1..(a + b) : e = u[k]
    BY <1>3, <1>4
  <2>2. CASE k <= a
    <3>1. k \in 1..a
      BY <1>2, <2>2
    <3> QED BY <1>2, <1>3, <2>1, <3>1
  <2>3. CASE ~ (k <= a)
    <3>1. k - a \in 1..b /\ a + (k - a) = k
      BY <1>2, <2>3
    <3>2. u[a + (k - a)] = t[k - a]
      BY <1>2, <3>1
    <3>3. e = t[k - a]
      BY <2>1, <3>1, <3>2
    <3> QED BY <1>3, <3>1, <3>3
  <2> QED BY <2>2, <2>3
<1>5. ASSUME NEW e, e \in ToSet(s) \/ e \in ToSet(t) PROVE e \in ToSet(u)
  <2>1. CASE e \in ToSet(s)
    <3>1. PICK k \in 1..a : e = s[k]
      BY <1>3, <2>1
    <3>2. k \in 1..(a + b) /\ u[k] = s[k]
      BY <1>2
    <3> QED BY <1>3, <3>1, <3>2
  <2>2. CASE e \in ToSet(t)
    <3>1. PICK k \in 1..b : e = t[k]
      BY <1>3, <2>2
    <3>2. a + k \in 1..(a + b) /\ u[a + k] = t[k]
      BY <1>2
    <3> QED BY <1>3, <3>1, <3>2
  <2> QED BY <1>5, <2>1, <2>2
<1> QED BY <1>1, <1>4, <1>5

\* No element comes twice in both.
LEMMA BothDistinct ==
  ASSUME NEW R, NEW s \in Seq(R), NEW t \in Seq(R), IsInjective(s), IsInjective(t),
         \A e \in ToSet(s) : e \notin ToSet(t)
  PROVE  IsInjective(s \o t)
<1>1. /\ s \o t \in Seq(R) /\ Len(s \o t) = Len(s) + Len(t)
      /\ Len(s) \in Nat /\ Len(t) \in Nat
      /\ \A k \in 1..Len(s) : (s \o t)[k] = s[k]
      /\ \A k \in 1..Len(t) : (s \o t)[Len(s) + k] = t[k]
  BY ConcatFacts, SeqFacts
<1> PICK u, a, b : u = s \o t /\ a = Len(s) /\ b = Len(t)
  OBVIOUS
<1>2. /\ a \in Nat /\ b \in Nat /\ DOMAIN u = 1..(a + b)
      /\ \A k \in 1..a : u[k] = s[k]
      /\ \A k \in 1..b : u[a + k] = t[k]
  <2>1. u \in Seq(R) /\ Len(u) = a + b
    BY <1>1
  <2> QED BY <1>1, <2>1, SeqFacts
<1>3. /\ DOMAIN s = 1..a /\ DOMAIN t = 1..b
      /\ \A k \in 1..a : s[k] \in ToSet(s)
      /\ \A k \in 1..b : t[k] \in ToSet(t)
  <2>1. DOMAIN s = 1..a /\ DOMAIN t = 1..b
    BY SeqFacts
  <2> QED BY <2>1 DEF ToSet
<1>4. \A k \in 1..(a + b) : k \in 1..a \/ (k - a \in 1..b /\ a + (k - a) = k)
  BY <1>2
<1>5. \A k \in 1..(a + b) : k \notin 1..a => u[k] = t[k - a]
  BY <1>2, <1>4
<1>6. ASSUME NEW j \in 1..(a + b), NEW k \in 1..(a + b), u[j] = u[k]
      PROVE  j = k
  <2>1. CASE j \in 1..a /\ k \in 1..a
    BY <1>2, <1>3, <1>6, <2>1 DEF IsInjective
  <2>2. CASE j \notin 1..a /\ k \notin 1..a
    <3>1. j - a \in 1..b /\ k - a \in 1..b /\ t[j - a] = t[k - a]
      BY <1>4, <1>5, <1>6, <2>2
    <3>2. j - a = k - a
      BY <1>3, <3>1 DEF IsInjective
    <3> QED BY <1>2, <3>2
  <2>3. CASE j \in 1..a /\ k \notin 1..a
    BY <1>2, <1>3, <1>4, <1>5, <1>6, <2>3
  <2>4. CASE j \notin 1..a /\ k \in 1..a
    BY <1>2, <1>3, <1>4, <1>5, <1>6, <2>4
  <2> QED BY <2>1, <2>2, <2>3, <2>4
<1>7. IsInjective(u)
  BY <1>2, <1>6 DEF IsInjective
<1> QED BY <1>7

\* No part has an element twice, and no two have one in common.
Apart(s, n) ==
  \A k \in 1..n : /\ IsInjective(s[k])
                  /\ \A j \in 1..n : \A e \in ToSet(s[j]) : e \in ToSet(s[k]) => j = k

\* What is flattened has the elements of each part, and none of them twice if
\* the parts are apart.
LEMMA FlattenMembers ==
  ASSUME NEW R, NEW s \in Seq(Seq(R))
  PROVE  /\ FlattenSeq(s) \in Seq(R)
         /\ \A e : e \in ToSet(FlattenSeq(s)) <=> \E k \in 1..Len(s) : e \in ToSet(s[k])
         /\ Apart(s, Len(s)) => IsInjective(FlattenSeq(s))
<1> DEFINE Q == Seq(R)
<1>1. /\ s \in Seq(Q) /\ Len(s) \in Nat /\ (Len(s) = 0 <=> s = << >>)
      /\ \A k \in 1..Len(s) : s[k] \in Q
  <2>1. s \in Seq(Q)
    OBVIOUS
  <2> HIDE DEF Q
  <2> QED BY <2>1, SeqFacts
<1>2. CASE s = << >>
  <2>1. FlattenSeq(s) = << >> /\ Len(s) = 0
    BY <1>2 DEF FlattenSeq
  <2>2. ToSet(<< >>) = {} /\ << >> \in Seq(R) /\ IsInjective(<< >>)
    BY DEF ToSet, IsInjective
  <2> QED BY <2>1, <2>2
<1>3. CASE s # << >>
  <2> HIDE DEF Q
  <2>1. PICK f : Flattens(f, s, Len(s)) /\ FlattenSeq(s) = f[Len(s)]
    BY <1>1, <1>3, FlattenIs
  <2> DEFINE n == Len(s)
             Right(m) == /\ f[m] \in Q
                         /\ \A e : e \in ToSet(f[m]) <=> \E k \in 1..m : e \in ToSet(s[k])
                         /\ Apart(s, n) => IsInjective(f[m])
             S == {m \in Nat : m + 1 <= n => Right(m + 1)}
  <2>2. \A i \in 1..n : f[i] = IF i = 1 THEN s[i] ELSE f[i - 1] \o s[i]
    BY <2>1 DEF Flattens
  <2> HIDE DEF n
  <2>3. n \in Nat /\ n # 0 /\ \A k \in 1..n : s[k] \in Q
    BY <1>1, <1>3 DEF n
  <2>4. 0 \in S
    <3>1. 1 \in 1..n
      BY <2>3
    <3>2. f[1] = s[1] /\ s[1] \in Q
      BY <2>2, <2>3, <3>1
    <3>3. \A k : k \in 1..1 <=> k = 1
      OBVIOUS
    <3>4. Apart(s, n) => IsInjective(f[1])
      BY <3>1, <3>2 DEF Apart
    <3> QED BY <3>2, <3>3, <3>4
  <2>5. ASSUME NEW m \in Nat, m \in S PROVE m + 1 \in S
    <3> SUFFICES ASSUME (m + 1) + 1 <= n PROVE Right((m + 1) + 1)
      OBVIOUS
    <3>1. /\ m + 1 <= n /\ (m + 1) + 1 \in 1..n /\ (m + 1) + 1 # 1
          /\ ((m + 1) + 1) - 1 = m + 1
      BY <2>3
    <3>2. Right(m + 1)
      BY <2>5, <3>1
    <3> PICK a, b : a = f[m + 1] /\ b = s[(m + 1) + 1]
      OBVIOUS
    <3>3. f[(m + 1) + 1] = a \o b
      BY <2>2, <3>1
    <3>4. a \in Q /\ b \in Q
      BY <2>3, <3>1, <3>2
    <3>5. a \o b \in Q /\ ToSet(a \o b) = ToSet(a) \cup ToSet(b)
      BY <3>4, ElementsOfBoth DEF Q
    <3>6. \A k : k \in 1..((m + 1) + 1) <=> k \in 1..(m + 1) \/ k = (m + 1) + 1
      OBVIOUS
    <3>7. \A e : e \in ToSet(a) <=> \E k \in 1..(m + 1) : e \in ToSet(s[k])
      BY <3>2
    <3>8. ASSUME Apart(s, n) PROVE IsInjective(a \o b)
      <4>1. IsInjective(a) /\ IsInjective(b)
        BY <3>1, <3>2, <3>8 DEF Apart
      <4>2. ASSUME NEW e \in ToSet(a), e \in ToSet(b) PROVE FALSE
        <5>1. PICK k \in 1..(m + 1) : e \in ToSet(s[k])
          BY <3>7
        <5>2. k \in 1..n /\ k # (m + 1) + 1
          BY <2>3, <3>1
        <5> QED BY <3>1, <3>8, <4>2, <5>1, <5>2 DEF Apart
      <4> QED BY <3>4, <4>1, <4>2, BothDistinct DEF Q
    <3> QED BY <3>3, <3>5, <3>6, <3>7, <3>8
  <2>6. n - 1 \in Nat /\ (n - 1) + 1 = n
    BY <2>3
  <2>7. n - 1 \in S
    <3> HIDE DEF S
    <3> QED BY <2>4, <2>5, <2>6, SetInduction DEF S
  <2>8. Right(n)
    BY <2>6, <2>7
  <2> QED BY <2>1, <2>8 DEF n, Q
<1> QED BY <1>2, <1>3

\* What is flattened of an element each, or none.
LEMMA FlattenSome ==
  ASSUME NEW R, NEW n \in Nat, NEW s, s = [k \in 1..n |-> s[k]],
         \A k \in 1..n : s[k] \in Seq(R)
  PROVE  /\ FlattenSeq(s) \in Seq(R)
         /\ \A e : e \in ToSet(FlattenSeq(s)) <=> \E k \in 1..n : e \in ToSet(s[k])
         /\ Apart(s, n) => IsInjective(FlattenSeq(s))
<1> DEFINE Q == Seq(R)
<1>1. s \in Seq(Q) /\ Len(s) = n
  <2>1. \A k \in 1..n : s[k] \in Q
    OBVIOUS
  <2> HIDE DEF Q
  <2> QED BY <2>1, IsSeq
<1> QED BY <1>1, FlattenMembers DEF Q

\* A list, with no element twice.
Distinct(s) == s \in Seq(ToSet(s)) /\ IsInjective(s)

LEMMA OwnList ==
  ASSUME NEW R, NEW s \in Seq(R)
  PROVE  s \in Seq(ToSet(s))
<1> PICK S, n : S = ToSet(s) /\ n = Len(s)
  OBVIOUS
<1>1. n \in Nat /\ s = [k \in 1..n |-> s[k]] /\ DOMAIN s = 1..n
  BY SeqFacts
<1>2. \A k \in 1..n : s[k] \in S
  BY <1>1 DEF ToSet
<1> QED BY <1>1, <1>2, IsSeq

LEMMA DistinctFew ==
  /\ Distinct(<< >>) /\ \A e : e \notin ToSet(<< >>)
  /\ \A x : Distinct(<<x>>) /\ \A e : e \in ToSet(<<x>>) <=> e = x
BY DEF Distinct, ToSet, IsInjective

LEMMA DistinctFacts ==
  ASSUME NEW s, Distinct(s)
  PROVE  /\ Len(s) \in Nat /\ DOMAIN s = 1..Len(s)
         /\ \A k \in 1..Len(s) : s[k] \in ToSet(s)
         /\ \A e : e \in ToSet(s) <=> \E k \in 1..Len(s) : e = s[k]
         /\ \A j, k \in 1..Len(s) : s[j] = s[k] => j = k
         /\ Len(s) = 0 <=> s = << >>
<1> PICK S : S = ToSet(s)
  OBVIOUS
<1>1. s \in Seq(S)
  BY DEF Distinct
<1>2. \A e : e \in ToSet(s) <=> \E k \in 1..Len(s) : e = s[k]
  BY <1>1, Elements
<1>3. /\ Len(s) \in Nat /\ DOMAIN s = 1..Len(s) /\ \A k \in 1..Len(s) : s[k] \in S
      /\ Len(s) = 0 <=> s = << >>
  BY <1>1, SeqFacts
<1> QED BY <1>2, <1>3 DEF Distinct, IsInjective

LEMMA DistinctBoth ==
  ASSUME NEW s, NEW t, Distinct(s), Distinct(t), \A e \in ToSet(s) : e \notin ToSet(t)
  PROVE  /\ Distinct(s \o t)
         /\ \A e : e \in ToSet(s \o t) <=> e \in ToSet(s) \/ e \in ToSet(t)
<1> PICK R, u : R = ToSet(s) \cup ToSet(t) /\ u = s \o t
  OBVIOUS
<1>1. s \in Seq(R) /\ t \in Seq(R)
  BY DEF Distinct
<1>2. u \in Seq(R) /\ ToSet(u) = ToSet(s) \cup ToSet(t)
  BY <1>1, ElementsOfBoth
<1>3. IsInjective(u)
  BY <1>1, BothDistinct DEF Distinct
<1> QED BY <1>2, <1>3, OwnList DEF Distinct

\* Lists that are apart, flattened.
LEMMA DistinctAll ==
  ASSUME NEW n \in Nat, NEW s, s = [k \in 1..n |-> s[k]],
         \A k \in 1..n : Distinct(s[k]),
         \A j \in 1..n : \A k \in 1..n : \A e \in ToSet(s[j]) : e \in ToSet(s[k]) => j = k
  PROVE  /\ Distinct(FlattenSeq(s))
         /\ \A e : e \in ToSet(FlattenSeq(s)) <=> \E k \in 1..n : e \in ToSet(s[k])
<1> PICK R, u : R = UNION {ToSet(s[k]) : k \in 1..n} /\ u = FlattenSeq(s)
  OBVIOUS
<1>1. ASSUME NEW k \in 1..n PROVE s[k] \in Seq(R)
  <2> PICK S, t : S = ToSet(s[k]) /\ t = s[k]
    OBVIOUS
  <2>1. S \in SUBSET R /\ t \in Seq(S)
    BY DEF Distinct
  <2> QED BY <2>1
<1>2. /\ u \in Seq(R)
      /\ \A e : e \in ToSet(u) <=> \E k \in 1..n : e \in ToSet(s[k])
      /\ Apart(s, n) => IsInjective(u)
  BY <1>1, FlattenSome
<1>3. Apart(s, n)
  BY DEF Apart, Distinct
<1> QED BY <1>2, <1>3, OwnList DEF Distinct

-----------------------------------------------------------------------------
(* What is in a directory *)

\* SetToSeq has each of the elements.
LEMMA InOrderFacts == InOrder \in Seq(Ids) /\ ToSet(InOrder) = Ids
<1> DEFINE n == Cardinality(Ids)
           Orders == {f \in [1..n -> Ids] : IsInjective(f)}
<1>1. IsFiniteSet(Ids)
  BY DirectoriesAssumption
<1>2. n \in Nat
  BY <1>1, FS_CardinalityType
<1>3. Orders # {}
  <2>1. PICK m \in Nat : ExistsBijection(1..m, Ids)
    BY <1>1, FS_NatBijection
  <2>2. Cardinality(Ids) = m
    BY <2>1, FS_CountingElements
  <2>3. PICK f : f \in Bijection(1..m, Ids)
    BY <2>1 DEF ExistsBijection
  <2> QED BY <2>2, <2>3 DEF Bijection, Injection
<1>4. InOrder \in Orders
  BY <1>3 DEF InOrder, SetToSeq
<1>5. InOrder \in Injection(1..n, Ids)
  BY <1>4 DEF Injection
<1>6. Cardinality(1..n) = n
  BY <1>2, FS_Interval
<1>7. InOrder \in Surjection(1..n, Ids)
  BY <1>1, <1>5, <1>6, FS_Injection
<1> HIDE DEF n
<1>8. InOrder \in [1..n -> Ids] /\ \A id \in Ids : \E k \in 1..n : InOrder[k] = id
  BY <1>7 DEF Surjection
<1>9. InOrder \in Seq(Ids) /\ DOMAIN InOrder = 1..n
  BY <1>2, <1>8
<1> QED BY <1>8, <1>9 DEF ToSet

Records == [name : STRING \cup Ids, entry : Ids]

\* What the proofs need of a volume: the names are typed and an index finds one
\* entry for each.
IndexInv ==
  /\ \A id \in Readable : mft[id].names \in Seq(FileNames)
  /\ WellIndexed(mft)

\* Record r is that of id in d.
IsRecord(r, id, d) ==
  IF id \in Readable
  THEN \E fn \in ToSet(mft[id].names) : /\ IsIn(fn, d, mft)
                                        /\ r = [name |-> fn.name, entry |-> id]
  ELSE d = Root /\ r = [name |-> id, entry |-> id]

LEMMA RecordIs ==
  ASSUME NEW r, NEW id, NEW d, IsRecord(r, id, d)
  PROVE  /\ r.entry = id
         /\ id \in Readable =>
              \E fn \in ToSet(mft[id].names) : IsIn(fn, d, mft) /\ r.name = fn.name
         /\ id \notin Readable => d = Root /\ r.name = id
<1>1. CASE id \in Readable
  <2>1. PICK fn \in ToSet(mft[id].names) :
          IsIn(fn, d, mft) /\ r = [name |-> fn.name, entry |-> id]
    BY <1>1 DEF IsRecord
  <2> PICK name : name = fn.name
    OBVIOUS
  <2>2. r = [name |-> name, entry |-> id]
    BY <2>1
  <2>3. r.name = name /\ r.entry = id
    BY <2>2
  <2> QED BY <1>1, <2>1, <2>3
<1>2. CASE id \notin Readable
  <2>1. d = Root /\ r = [name |-> id, entry |-> id]
    BY <1>2 DEF IsRecord
  <2> QED BY <1>2, <2>1
<1> QED BY <1>1, <1>2

LEMMA RecordsFacts ==
  ASSUME IndexInv, NEW id \in Ids, NEW d \in Folders
  PROVE  /\ RecordsOf(id, d) \in Seq(Records)
         /\ \A r : r \in ToSet(RecordsOf(id, d)) <=> IsRecord(r, id, d)
<1>1. CASE id \notin Readable
  <2> DEFINE r == [name |-> id, entry |-> id]
  <2>1. r \in Records
    BY DEF Records
  <2>2. CASE d = Root
    <3>1. RecordsOf(id, d) = <<r>>
      BY <1>1, <2>2 DEF RecordsOf
    <3> HIDE DEF r
    <3>2. <<r>> \in Seq(Records) /\ \A e : e \in ToSet(<<r>>) <=> e = r
      BY <2>1 DEF ToSet
    <3> QED BY <1>1, <2>2, <3>1, <3>2 DEF IsRecord, r
  <2>3. CASE d # Root
    <3>1. RecordsOf(id, d) = << >>
      BY <1>1, <2>3 DEF RecordsOf
    <3>2. << >> \in Seq(Records) /\ ToSet(<< >>) = {}
      BY DEF ToSet
    <3> QED BY <1>1, <2>3, <3>1, <3>2 DEF IsRecord
  <2> QED BY <2>2, <2>3
<1>2. CASE id \in Readable
  <2> PICK names : names = mft[id].names
    OBVIOUS
  <2> DEFINE n == Len(names)
             One(fn) == IF IsIn(fn, d, mft) THEN <<[name |-> fn.name, entry |-> id]>> ELSE << >>
             s == [k \in 1..n |-> One(names[k])]
  <2>1. names \in Seq(FileNames)
    BY <1>2 DEF IndexInv
  <2>2. /\ n \in Nat /\ DOMAIN names = 1..n /\ \A k \in 1..n : names[k] \in FileNames
        /\ \A fn : fn \in ToSet(names) <=> \E k \in 1..n : fn = names[k]
    BY <2>1, SeqFacts, Elements
  <2>3. RecordsOf(id, d) = FlattenSeq(s)
    BY <1>2, <2>2 DEF RecordsOf
  <2>4. ASSUME NEW fn \in FileNames
        PROVE  /\ One(fn) \in Seq(Records)
               /\ \A r : r \in ToSet(One(fn)) <=>
                    IsIn(fn, d, mft) /\ r = [name |-> fn.name, entry |-> id]
    <3> PICK x : x = [name |-> fn.name, entry |-> id]
      OBVIOUS
    <3>1. x \in Records
      BY Types DEF Records
    <3>2. <<x>> \in Seq(Records) /\ \A e : e \in ToSet(<<x>>) <=> e = x
      BY <3>1 DEF ToSet
    <3>3. << >> \in Seq(Records) /\ ToSet(<< >>) = {}
      BY DEF ToSet
    <3>4. One(fn) = IF IsIn(fn, d, mft) THEN <<x>> ELSE << >>
      OBVIOUS
    <3> HIDE DEF One
    <3> QED BY <3>2, <3>3, <3>4
  <2> HIDE DEF One
  <2>5. /\ s = [k \in 1..n |-> s[k]] /\ \A k \in 1..n : s[k] = One(names[k])
        /\ \A k \in 1..n : s[k] \in Seq(Records)
    BY <2>2, <2>4
  <2> HIDE DEF s, n
  <2>6. /\ FlattenSeq(s) \in Seq(Records)
        /\ \A r : r \in ToSet(FlattenSeq(s)) <=> \E k \in 1..n : r \in ToSet(s[k])
    BY <2>2, <2>5, FlattenSome
  <2>7. ASSUME NEW r PROVE r \in ToSet(FlattenSeq(s)) <=> IsRecord(r, id, d)
    <3>0. ASSUME NEW k \in 1..n
          PROVE  r \in ToSet(s[k]) <=> /\ IsIn(names[k], d, mft)
                                       /\ r = [name |-> names[k].name, entry |-> id]
      BY <2>2, <2>4, <2>5
    <3>1. r \in ToSet(FlattenSeq(s)) <=>
            \E k \in 1..n : /\ IsIn(names[k], d, mft)
                            /\ r = [name |-> names[k].name, entry |-> id]
      BY <2>6, <3>0
    <3>2. IsRecord(r, id, d) <=>
            \E fn \in ToSet(names) : IsIn(fn, d, mft) /\ r = [name |-> fn.name, entry |-> id]
      BY <1>2 DEF IsRecord
    <3> QED BY <2>2, <3>1, <3>2
  <2> QED BY <2>3, <2>6, <2>7
<1> QED BY <1>1, <1>2

LEMMA IndexFacts ==
  ASSUME IndexInv, NEW d \in Folders
  PROVE  /\ IndexOf(d) \in Seq(Records)
         /\ \A r : r \in ToSet(IndexOf(d)) <=> \E id \in Ids : IsRecord(r, id, d)
<1> DEFINE n == Len(InOrder)
           s == [k \in 1..n |-> RecordsOf(InOrder[k], d)]
<1>1. /\ n \in Nat /\ DOMAIN InOrder = 1..n /\ \A k \in 1..n : InOrder[k] \in Ids
      /\ \A id \in Ids : \E k \in 1..n : id = InOrder[k]
  <2>1. \A e : e \in ToSet(InOrder) <=> \E k \in 1..n : e = InOrder[k]
    BY InOrderFacts, Elements
  <2>2. n \in Nat /\ DOMAIN InOrder = 1..n /\ \A k \in 1..n : InOrder[k] \in Ids
    BY InOrderFacts, SeqFacts
  <2> QED BY <2>1, <2>2, InOrderFacts
<1>2. IndexOf(d) = FlattenSeq(s)
  BY <1>1 DEF IndexOf
<1>3. /\ s = [k \in 1..n |-> s[k]] /\ \A k \in 1..n : s[k] = RecordsOf(InOrder[k], d)
  OBVIOUS
<1>4. \A k \in 1..n : /\ s[k] \in Seq(Records)
                      /\ \A r : r \in ToSet(s[k]) <=> IsRecord(r, InOrder[k], d)
  BY <1>1, <1>3, RecordsFacts
<1> HIDE DEF s, n
<1>5. /\ FlattenSeq(s) \in Seq(Records)
      /\ \A r : r \in ToSet(FlattenSeq(s)) <=> \E k \in 1..n : r \in ToSet(s[k])
  BY <1>1, <1>3, <1>4, FlattenSome
<1> QED BY <1>1, <1>2, <1>4, <1>5

\* The two halves of an index are all of it.
LEMMA Halves ==
  ASSUME NEW R, NEW s \in Seq(R), NEW h \in 0..Len(s)
  PROVE  /\ SubSeq(s, 1, h) \in Seq(R) /\ SubSeq(s, h + 1, Len(s)) \in Seq(R)
         /\ \A e : e \in ToSet(s) <=> \/ e \in ToSet(SubSeq(s, 1, h))
                                      \/ e \in ToSet(SubSeq(s, h + 1, Len(s)))
<1> PICK n, a, b : n = Len(s) /\ a = SubSeq(s, 1, h) /\ b = SubSeq(s, h + 1, n)
  OBVIOUS
<1>0. n \in Nat /\ h \in Nat /\ h <= n
  OBVIOUS
<1>1. /\ n \in Nat /\ a \in Seq(R) /\ Len(a) = h /\ b \in Seq(R) /\ Len(b) = n - h
      /\ \A k \in 1..h : a[k] = s[k]
      /\ \A k \in 1..(n - h) : b[k] = s[h + k]
  <2>1. a \in Seq(R) /\ Len(a) = h /\ \A k \in 1..h : a[k] = s[k]
    BY <1>0, SubSeqFacts
  <2>2. b = [k \in 1..(n - h) |-> s[h + k]]
    BY <1>0
  <2>3. \A k \in 1..(n - h) : h + k \in 1..n
    BY <1>0
  <2>4. \A k \in 1..n : s[k] \in R
    BY <1>0, SeqFacts
  <2>5. n - h \in Nat /\ \A k \in 1..(n - h) : b[k] = s[h + k] /\ b[k] \in R
    BY <1>0, <2>2, <2>3, <2>4
  <2>6. b = [k \in 1..(n - h) |-> b[k]]
    BY <2>2
  <2>7. b \in Seq(R) /\ Len(b) = n - h
    BY <2>5, <2>6, IsSeq
  <2> QED BY <1>0, <2>1, <2>5, <2>7
<1>2. /\ \A e : e \in ToSet(s) <=> \E k \in 1..n : e = s[k]
      /\ \A e : e \in ToSet(a) <=> \E k \in 1..h : e = s[k]
      /\ \A e : e \in ToSet(b) <=> \E k \in 1..(n - h) : e = s[h + k]
  <2>0. a \in Seq(R) /\ b \in Seq(R)
    BY <1>1
  <2>1. \A e : e \in ToSet(a) <=> \E k \in 1..Len(a) : e = a[k]
    BY <2>0, Elements
  <2>2. \A e : e \in ToSet(b) <=> \E k \in 1..Len(b) : e = b[k]
    BY <2>0, Elements
  <2>3. \A e : e \in ToSet(s) <=> \E k \in 1..n : e = s[k]
    BY Elements
  <2>4. ASSUME NEW e PROVE e \in ToSet(a) <=> \E k \in 1..h : e = s[k]
    BY <1>1, <2>1
  <2>5. ASSUME NEW e PROVE e \in ToSet(b) <=> \E k \in 1..(n - h) : e = s[h + k]
    <3> PICK m : m = n - h
      OBVIOUS
    <3>1. Len(b) = m /\ \A k \in 1..m : b[k] = s[h + k]
      BY <1>1
    <3>2. e \in ToSet(b) <=> \E k \in 1..m : e = b[k]
      BY <2>2, <3>1
    <3>3. e \in ToSet(b) <=> \E k \in 1..m : e = s[h + k]
      BY <3>1, <3>2
    <3> QED BY <3>3
  <2> QED BY <2>3, <2>4, <2>5
<1>3. \A k \in 1..n : k \in 1..h \/ (k - h \in 1..(n - h) /\ h + (k - h) = k)
  BY <1>1
<1>4. /\ \A k \in 1..h : k \in 1..n
      /\ \A k \in 1..(n - h) : h + k \in 1..n
  BY <1>1
<1>5. ASSUME NEW e, e \in ToSet(s) PROVE e \in ToSet(a) \/ e \in ToSet(b)
  <2>1. PICK k \in 1..n : e = s[k]
    BY <1>2, <1>5
  <2>2. CASE k \in 1..h
    BY <1>2, <2>1, <2>2
  <2>3. CASE k - h \in 1..(n - h) /\ h + (k - h) = k
    <3>1. e = s[h + (k - h)]
      BY <2>1, <2>3
    <3> QED BY <1>2, <2>3, <3>1
  <2> QED BY <1>3, <2>2, <2>3
<1>6. ASSUME NEW e, e \in ToSet(a) \/ e \in ToSet(b) PROVE e \in ToSet(s)
  BY <1>2, <1>4, <1>6
<1> QED BY <1>1, <1>5, <1>6

\* DirNodes leaves out the block that is not in use, and nothing else.
LEMMA NodesFacts ==
  ASSUME NEW d, NEW x, NEW z, Nodes(d) = <<x, StaleNode, z>>, Decodes(x), Decodes(z)
  PROVE  /\ DirNodes(d) \in Seq({x, z})
         /\ \A e : e \in ToSet(DirNodes(d)) <=> e \in {x, z}
<1> DEFINE One(node) == IF Decodes(node) THEN <<node>> ELSE << >>
           s == [k \in 1..3 |-> One(<<x, StaleNode, z>>[k])]
<1>1. DirNodes(d) = FlattenSeq(s)
  BY DEF DirNodes
<1>2. /\ One(x) = <<x>> /\ One(StaleNode) = << >> /\ One(z) = <<z>>
  <2>1. ~ Decodes(StaleNode)
    BY DirectoriesAssumption DEF Decodes
  <2> QED BY <2>1
<1> HIDE DEF One
<1>3. s[1] = <<x>> /\ s[2] = << >> /\ s[3] = <<z>> /\ s = [k \in 1..3 |-> s[k]]
  BY <1>2
<1> HIDE DEF s
<1>4. /\ \A e : e \in ToSet(<<x>>) <=> e = x
      /\ \A e : e \in ToSet(<<z>>) <=> e = z
      /\ ToSet(<< >>) = {}
      /\ <<x>> \in Seq({x, z}) /\ <<z>> \in Seq({x, z}) /\ << >> \in Seq({x, z})
  <2>1. \A e : e \in ToSet(<<x>>) <=> e = x
    BY DEF ToSet
  <2>2. \A e : e \in ToSet(<<z>>) <=> e = z
    BY DEF ToSet
  <2>3. ToSet(<< >>) = {}
    BY DEF ToSet
  <2>4. <<x>> \in Seq({x, z}) /\ <<z>> \in Seq({x, z}) /\ << >> \in Seq({x, z})
    OBVIOUS
  <2> QED BY <2>1, <2>2, <2>3, <2>4
<1>5. \A k \in 1..3 : k = 1 \/ k = 2 \/ k = 3
  OBVIOUS
<1>6. 1 \in 1..3 /\ 2 \in 1..3 /\ 3 \in 1..3 /\ 3 \in Nat
  OBVIOUS
<1>7. \A k \in 1..3 : s[k] \in Seq({x, z})
  BY <1>3, <1>4, <1>5
<1> DEFINE R == {x, z}
<1>8. /\ FlattenSeq(s) \in Seq(R)
      /\ \A e : e \in ToSet(FlattenSeq(s)) <=> \E k \in 1..3 : e \in ToSet(s[k])
  <2>1. \A k \in 1..3 : s[k] \in Seq(R)
    BY <1>7
  <2> HIDE DEF R
  <2> QED BY <1>3, <1>6, <2>1, FlattenSome
<1>9. ASSUME NEW e PROVE e \in ToSet(FlattenSeq(s)) <=> e = x \/ e = z
  <2>1. e \in ToSet(s[1]) <=> e = x
    BY <1>3, <1>4
  <2>2. e \in ToSet(s[3]) <=> e = z
    BY <1>3, <1>4
  <2>3. ~ (e \in ToSet(s[2]))
    BY <1>3, <1>4
  <2> QED BY <1>5, <1>6, <1>8, <2>1, <2>2, <2>3
<1> QED BY <1>1, <1>8, <1>9

\* Dir has the records that the driver wrote.
LEMMA DirFacts ==
  ASSUME IndexInv, NEW d \in Folders
  PROVE  /\ Dir(d) \in Seq(Records)
         /\ \A r : r \in ToSet(Dir(d)) <=> \E id \in Ids : IsRecord(r, id, d)
<1> DEFINE index == IndexOf(d)
           half  == Len(index) \div 2
           a == SubSeq(index, 1, half)
           b == SubSeq(index, half + 1, Len(index))
           x == [magic |-> 1, tails |-> <<1, 1>>, records |-> a]
           z == [magic |-> 1, tails |-> <<1, 1>>, records |-> b]
<1>1. /\ index \in Seq(Records)
      /\ \A r : r \in ToSet(index) <=> \E id \in Ids : IsRecord(r, id, d)
  BY IndexFacts
<1>2. Nodes(d) = <<x, StaleNode, z>>
  BY DEF Nodes
<1> HIDE DEF index
<1>3. half \in 0..Len(index)
  <2>1. Len(index) \in Nat
    BY <1>1, SeqFacts
  <2> HIDE DEF index
  <2> QED BY <2>1
<1> HIDE DEF half
<1>4. /\ a \in Seq(Records) /\ b \in Seq(Records)
      /\ \A e : e \in ToSet(index) <=> e \in ToSet(a) \/ e \in ToSet(b)
  BY <1>1, <1>3, Halves
<1> HIDE DEF a, b
<1>5. Decodes(x) /\ Decodes(z) /\ x.records = a /\ z.records = b
  BY DEF Decodes
<1> HIDE DEF x, z
<1> DEFINE nodes == DirNodes(d)
           n == Len(nodes)
           s == [k \in 1..n |-> nodes[k].records]
           N == {x, z}
<1>6. nodes \in Seq(N) /\ \A e : e \in ToSet(nodes) <=> e \in N
  BY <1>2, <1>5, NodesFacts
<1> HIDE DEF nodes
<1>7. /\ n \in Nat /\ DOMAIN nodes = 1..n /\ \A k \in 1..n : nodes[k] \in N
      /\ \A e : e \in N <=> \E k \in 1..n : e = nodes[k]
  <2> HIDE DEF N
  <2>1. \A e : e \in ToSet(nodes) <=> \E k \in 1..n : e = nodes[k]
    BY <1>6, Elements
  <2>2. n \in Nat /\ DOMAIN nodes = 1..n /\ \A k \in 1..n : nodes[k] \in N
    BY <1>6, SeqFacts
  <2> QED BY <1>6, <2>1, <2>2
<1>8. Dir(d) = FlattenSeq(s)
  BY <1>7 DEF Dir, nodes
<1> HIDE DEF n
<1>9. /\ s = [k \in 1..n |-> s[k]] /\ \A k \in 1..n : s[k] = nodes[k].records
  OBVIOUS
<1>10. \A k \in 1..n : s[k] \in Seq(Records)
  BY <1>4, <1>5, <1>7, <1>9
<1> HIDE DEF s
<1>11. /\ FlattenSeq(s) \in Seq(Records)
       /\ \A e : e \in ToSet(FlattenSeq(s)) <=> \E k \in 1..n : e \in ToSet(s[k])
  BY <1>7, <1>9, <1>10, FlattenSome
<1>12. ASSUME NEW e PROVE e \in ToSet(FlattenSeq(s)) <=> e \in ToSet(a) \/ e \in ToSet(b)
  <2>1. e \in ToSet(FlattenSeq(s)) <=> \E k \in 1..n : e \in ToSet(nodes[k].records)
    BY <1>9, <1>11
  <2>2. (\E k \in 1..n : e \in ToSet(nodes[k].records)) <=> \E y \in N : e \in ToSet(y.records)
    BY <1>7
  <2> QED BY <1>5, <2>1, <2>2
<1> QED BY <1>1, <1>4, <1>8, <1>11, <1>12 DEF index

\* A name is found in its directory, however it is written.
LEMMA NameIsFound ==
  ASSUME IndexInv, NEW id \in Readable, NEW fn \in ToSet(mft[id].names),
         fn.parent \in Folders, IsIn(fn, fn.parent, mft),
         NEW name, Lower[name] = Lower[fn.name]
  PROVE  get_path_in_dir(name, fn.parent) = id
<1> DEFINE d == fn.parent
           records == Dir(d)
           n == Len(records)
           named == {k \in 1..n : Lower[records[k].name] = Lower[name]}
<1>1. id \in Ids /\ fn \in FileNames
  <2>1. mft[id].names \in Seq(FileNames)
    BY DEF IndexInv
  <2>2. \A k \in 1..Len(mft[id].names) : mft[id].names[k] \in FileNames
    BY <2>1, SeqFacts
  <2>3. \E k \in 1..Len(mft[id].names) : fn = mft[id].names[k]
    BY <2>1, Elements
  <2> QED BY <2>2, <2>3 DEF Readable
<1>2. /\ records \in Seq(Records)
      /\ \A r : r \in ToSet(records) <=> \E other \in Ids : IsRecord(r, other, d)
  BY DirFacts
<1> HIDE DEF d
<1> HIDE DEF records
<1>3. /\ n \in Nat /\ DOMAIN records = 1..n /\ \A k \in 1..n : records[k] \in Records
      /\ \A r : r \in ToSet(records) <=> \E k \in 1..n : r = records[k]
  <2>1. n \in Nat /\ DOMAIN records = 1..n /\ \A k \in 1..n : records[k] \in Records
    BY <1>2, SeqFacts
  <2> QED BY <1>2, <2>1, Elements
<1>4. get_path_in_dir(name, d)
        = IF named = {} \/ records[Min(named)].entry \notin Readable THEN None
          ELSE records[Min(named)].entry
  BY <1>3 DEF get_path_in_dir, IsNamed, records
<1> HIDE DEF n
<1>5. named # {}
  <2> PICK r : r = [name |-> fn.name, entry |-> id]
    OBVIOUS
  <2>1. IsRecord(r, id, d)
    BY DEF IsRecord, d
  <2>2. r \in ToSet(records)
    BY <1>1, <1>2, <2>1
  <2>3. PICK k \in 1..n : r = records[k]
    BY <1>3, <2>2
  <2>4. records[k].name = fn.name
    BY <2>3
  <2> QED BY <2>4
<1>6. Min(named) \in named
  <2>1. named \in SUBSET Nat
    BY <1>3
  <2>2. PICK m \in named : \A y \in named : m <= y
    BY <1>5, <2>1, LeastElement
  <2> HIDE DEF named
  <2> QED BY <2>2 DEF Min
<1>7. ASSUME NEW k \in named PROVE records[k].entry = id
  <2> PICK r : r = records[k]
    OBVIOUS
  <2>1. k \in 1..n /\ Lower[r.name] = Lower[fn.name]
    OBVIOUS
  <2>2. PICK other \in Ids : IsRecord(r, other, d)
    BY <1>2, <1>3, <2>1
  <2>3. /\ mft[id] # None /\ WellIndexed(mft)
        /\ other \in Readable <=> mft[other] # None
    BY DEF IndexInv, Readable
  <2>4. r.entry = other
    BY <2>2, RecordIs
  <2> SUFFICES ASSUME other # id PROVE FALSE
    BY <2>4
  <2>5. other \in Ids \ {id}
    OBVIOUS
  <2>6. CASE other \notin Readable
    <3>1. d = Root /\ r.name = other
      BY <2>2, <2>6, RecordIs
    <3>2. Lower[other] # Lower[fn.name]
      BY <1>1, <2>3, <2>5, <2>6, <3>1 DEF WellIndexed, d
    <3> QED BY <2>1, <3>1, <3>2
  <2>7. CASE other \in Readable
    <3>1. PICK x \in ToSet(mft[other].names) : IsIn(x, d, mft) /\ r.name = x.name
      BY <2>2, <2>7, RecordIs
    <3>2. /\ x.parent = fn.parent /\ (x.parent = Root \/ x.seq = fn.seq)
      BY <3>1 DEF IsIn, d
    <3>3. Lower[x.name] # Lower[fn.name]
      BY <1>1, <2>3, <2>5, <2>7, <3>2 DEF WellIndexed
    <3> QED BY <2>1, <3>1, <3>3
  <2> QED BY <2>6, <2>7
<1>8. records[Min(named)].entry = id
  <2> HIDE DEF named
  <2> QED BY <1>6, <1>7
<1> HIDE DEF named
<1> QED BY <1>4, <1>5, <1>8 DEF d

-----------------------------------------------------------------------------
(* Following a path *)

\* What at is in Follow.
Walks(f, path, n) ==
  f = [i \in 0..n |->
         IF i = 0 THEN Root
         ELSE IF f[i - 1] = None THEN None ELSE get_path_in_dir(path[i], f[i - 1])]

LEMMA WalksExist ==
  ASSUME NEW path, NEW n \in Nat
  PROVE  \E f : Walks(f, path, n)
<1> DEFINE S == {m \in Nat : \E f : Walks(f, path, m)}
           Next1(at, i) == IF at = None THEN None ELSE get_path_in_dir(path[i], at)
<1>0. ASSUME NEW f, NEW m
      PROVE  Walks(f, path, m) <=> f = [i \in 0..m |-> IF i = 0 THEN Root ELSE Next1(f[i - 1], i)]
  BY DEF Walks
<1> HIDE DEF Next1
<1>1. 0 \in S
  <2> DEFINE f == [i \in 0..0 |-> Root]
  <2>1. Walks(f, path, 0)
    BY DEF Walks
  <2> QED BY <2>1
<1>2. ASSUME NEW m \in Nat, m \in S PROVE m + 1 \in S
  <2>1. PICK f : Walks(f, path, m)
    BY <1>2
  <2> DEFINE g == [i \in 0..(m + 1) |-> IF i = m + 1 THEN Next1(f[m], i) ELSE f[i]]
             h == [i \in 0..(m + 1) |-> IF i = 0 THEN Root ELSE Next1(g[i - 1], i)]
  <2>2. \A i \in 0..m : f[i] = IF i = 0 THEN Root ELSE Next1(f[i - 1], i)
    BY <1>0, <2>1
  <2>3. ASSUME NEW i \in 0..(m + 1) PROVE g[i] = h[i]
    <3>1. i = 0 \/ (i - 1 \in 0..(m + 1) /\ i - 1 # m + 1)
      OBVIOUS
    <3>2. i # 0 => g[i - 1] = f[i - 1]
      BY <3>1
    <3>3. CASE i = m + 1
      BY <3>2, <3>3
    <3>4. CASE i # m + 1
      BY <2>2, <3>2, <3>4
    <3> QED BY <3>3, <3>4
  <2>4. g = [i \in 0..(m + 1) |-> g[i]] /\ h = [i \in 0..(m + 1) |-> h[i]]
    OBVIOUS
  <2>5. g = h
    <3> HIDE DEF g, h
    <3> QED BY <2>3, <2>4
  <2>6. Walks(g, path, m + 1)
    <3> HIDE DEF g
    <3> QED BY <1>0, <2>5 DEF h
  <2> QED BY <2>6
<1> HIDE DEF S
<1>3. n \in S
  BY <1>1, <1>2, SetInduction DEF S
<1> QED BY <1>3 DEF S

LEMMA FollowIs ==
  ASSUME NEW path, NEW n \in Nat
  PROVE  \E f : Walks(f, path, n) /\ Follow(path, n) = f[n]
<1> DEFINE f == CHOOSE f : Walks(f, path, n)
<1>1. Follow(path, n) = f[n]
  BY DEF Follow, Walks
<1>2. Walks(f, path, n)
  BY WalksExist
<1> QED BY <1>1, <1>2

\* Two walks agree as far as the paths do.
LEMMA WalksSame ==
  ASSUME NEW n \in Nat, NEW m \in Nat, n <= m, NEW p, NEW q, NEW f, NEW g,
         \A k \in 1..n : p[k] = q[k], Walks(f, p, n), Walks(g, q, m)
  PROVE  f[n] = g[n]
<1> DEFINE S == {k \in Nat : k <= n => f[k] = g[k]}
           Next1(e, at) == IF at = None THEN None ELSE get_path_in_dir(e, at)
<1>0. \A i \in 0..n : /\ f[i] = IF i = 0 THEN Root ELSE Next1(p[i], f[i - 1])
                      /\ g[i] = IF i = 0 THEN Root ELSE Next1(q[i], g[i - 1])
  <2>1. \A i \in 0..n : i \in 0..m
    OBVIOUS
  <2> QED BY <2>1 DEF Walks
<1> HIDE DEF Next1
<1>1. 0 \in S
  BY <1>0
<1>2. ASSUME NEW k \in Nat, k \in S PROVE k + 1 \in S
  <2> SUFFICES ASSUME k + 1 <= n PROVE f[k + 1] = g[k + 1]
    OBVIOUS
  <2>1. k + 1 \in 0..n /\ (k + 1) - 1 = k /\ k + 1 # 0 /\ k + 1 \in 1..n
    OBVIOUS
  <2>2. f[k] = g[k]
    BY <1>2, <2>1
  <2>3. p[k + 1] = q[k + 1]
    BY <2>1
  <2> QED BY <1>0, <2>1, <2>2, <2>3
<1>3. S = Nat
  <2> HIDE DEF S
  <2> QED BY <1>1, <1>2, SetInduction DEF S
<1>4. n \in S
  BY <1>3
<1> QED BY <1>4

LEMMA FollowNone ==
  ASSUME NEW path
  PROVE  Follow(path, 0) = Root
<1>1. PICK f : Walks(f, path, 0) /\ Follow(path, 0) = f[0]
  BY FollowIs
<1> QED BY <1>1 DEF Walks

\* One component more.
LEMMA FollowNext ==
  ASSUME NEW p, NEW q, NEW n \in Nat, \A k \in 1..n : p[k] = q[k]
  PROVE  Follow(q, n + 1) = IF Follow(p, n) = None THEN None
                            ELSE get_path_in_dir(q[n + 1], Follow(p, n))
<1>1. PICK f : Walks(f, p, n) /\ Follow(p, n) = f[n]
  BY FollowIs
<1>2. PICK g : Walks(g, q, n + 1) /\ Follow(q, n + 1) = g[n + 1]
  <2>1. n + 1 \in Nat
    OBVIOUS
  <2> QED BY <2>1, FollowIs
<1>3. f[n] = g[n]
  <2>1. n + 1 \in Nat /\ n <= n + 1
    OBVIOUS
  <2> QED BY <1>1, <1>2, <2>1, WalksSame
<1>4. g[n + 1] = IF g[n] = None THEN None ELSE get_path_in_dir(q[n + 1], g[n])
  <2>1. n + 1 \in 0..(n + 1) /\ n + 1 # 0 /\ (n + 1) - 1 = n
    OBVIOUS
  <2> QED BY <1>2, <2>1 DEF Walks
<1> QED BY <1>1, <1>2, <1>3, <1>4

\* A path that is spelled in another case, or as it is.
Spelled(q, p) == \A k \in 1..Len(p) : Lower[q[k]] = Lower[p[k]]

\* The path leads to an entry, however it is spelled.
Leads(p, id) ==
  /\ \A k \in 1..Len(p) : p[k] \in DOMAIN Lower
  /\ \A q : Spelled(q, p) => Follow(q, Len(p)) = id

LEMMA ErrorKept ==
  ASSUME NEW s \in Seq(Words), NEW e \in Words, IsError(s)
  PROVE  IsError(Append(s, e))
<1> PICK t, n, err : t = Append(s, e) /\ n = Len(s) /\ err = "<Err>"
  OBVIOUS
<1>1. t \in Seq(Words) /\ n \in Nat /\ Len(t) = n + 1 /\ \A k \in 1..n : t[k] = s[k]
  OBVIOUS
<1>2. err \in ToSet(s)
  BY DEF IsError
<1>3. PICK k \in 1..n : err = s[k]
  BY <1>2, Elements
<1>4. k \in 1..(n + 1) /\ err = t[k]
  BY <1>1, <1>3
<1>5. \A x : x \in ToSet(t) <=> \E i \in 1..Len(t) : x = t[i]
  <2>1. t \in Seq(Words)
    BY <1>1
  <2> QED BY ONLY <2>1, Elements
<1>6. err \in ToSet(t)
  BY <1>1, <1>4, <1>5
<1> QED BY <1>6 DEF IsError

LEMMA Marked ==
  ASSUME NEW marker
  PROVE  IsError(<<"<Err>", marker>>)
<1> PICK t, err : t = <<err, marker>> /\ err = "<Err>"
  OBVIOUS
<1>1. 1 \in DOMAIN t /\ t[1] = err
  OBVIOUS
<1>2. err \in ToSet(t)
  BY <1>1 DEF ToSet
<1> QED BY <1>2 DEF IsError

\* The path of a directory and a name in it lead to the entry.
LEMMA AppendLeads ==
  ASSUME IndexInv, NEW id \in Readable, NEW fn \in ToSet(mft[id].names),
         fn.parent \in Folders, IsIn(fn, fn.parent, mft),
         NEW r \in Seq(Words), Leads(r, fn.parent), fn \in FileNames
  PROVE  Leads(Append(r, fn.name), id)
<1> PICK p, n, name : p = Append(r, name) /\ n = Len(r) /\ name = fn.name
  OBVIOUS
<1>1. name \in Words
  BY Types
<1>2. /\ n \in Nat /\ Len(p) = n + 1 /\ p[n + 1] = name
      /\ \A k \in 1..n : p[k] = r[k]
  BY <1>1
<1>3. name \in DOMAIN Lower
  <2>1. id \in {x \in Ids : mft[x] # None}
    BY DEF Readable
  <2> QED BY <2>1 DEF IndexInv, WellIndexed
<1>4. \A k \in 1..(n + 1) : k \in 1..n \/ k = n + 1
  BY <1>2
<1>5. ASSUME NEW k \in 1..Len(p) PROVE p[k] \in DOMAIN Lower
  BY <1>2, <1>3, <1>4 DEF Leads
<1>6. ASSUME NEW q, Spelled(q, p) PROVE Follow(q, n + 1) = id
  <2>1. /\ \A k \in 1..n : k \in 1..(n + 1)
        /\ n + 1 \in 1..(n + 1)
    BY <1>2
  <2>2. Spelled(q, r) /\ Lower[q[n + 1]] = Lower[name]
    BY <1>2, <1>6, <2>1 DEF Spelled
  <2>3. Follow(q, n) = fn.parent
    BY <2>2 DEF Leads
  <2>4. fn.parent # None
    BY DirectoriesAssumption DEF Folders, Readable
  <2>5. Follow(q, n + 1) = IF Follow(q, n) = None THEN None
                           ELSE get_path_in_dir(q[n + 1], Follow(q, n))
    <3>1. \A k \in 1..n : q[k] = q[k]
      OBVIOUS
    <3> QED BY <1>2, <3>1, FollowNext
  <2>6. get_path_in_dir(q[n + 1], fn.parent) = id
    BY <2>2, NameIsFound
  <2> QED BY <2>3, <2>4, <2>5, <2>6
<1>7. Leads(p, id)
  BY <1>2, <1>5, <1>6 DEF Leads
<1> QED BY <1>7

\* A path above a name leads to a directory that has the name.
LEMMA AboveLeads ==
  ASSUME VolumeInv, IndexInv, preloaded = << >>, NEW n \in Nat,
         \A ref \in Refs : \A p \in PathsAbove[n][ref] : IsError(p) \/ Leads(p, ref.id),
         NEW id \in Readable, NEW fn \in ToSet(mft[id].names), fn \in FileNames,
         NEW r \in Above(fn, n)
  PROVE  IsError(r) \/ /\ Leads(r, fn.parent)
                       /\ fn.parent \in Folders /\ IsIn(fn, fn.parent, mft)
<1>1. CASE fn.parent = Root
  <2>1. r = << >>
    BY <1>1 DEF Above
  <2>2. Leads(r, Root)
    <3>1. Len(r) = 0 /\ \A k : k \notin 1..0
      BY <2>1
    <3> QED BY <3>1, FollowNone DEF Leads
  <2> QED BY <1>1, <2>2 DEF Folders, IsIn
<1>2. CASE fn.parent # Root
  <2> PICK up : up = GetSummary(fn.parent, fn.seq)
    OBVIOUS
  <2>1. fn.parent \in Ids
    BY <1>2, Types
  <2>2. CASE up = None
    <3>1. r = <<"<Err>", "<NoEntry>">>
      BY <1>2, <2>2 DEF Above
    <3> QED BY <3>1, Marked
  <2>3. CASE up # None /\ Deref(up).seq # fn.seq
    <3>1. r = <<"<Err>", "<WrongSequence>">>
      BY <1>2, <2>3 DEF Above
    <3> QED BY <3>1, Marked
  <2>4. CASE up # None /\ Deref(up).seq = fn.seq
    <3>1. r \in PathsAbove[n][up]
      BY <1>2, <2>4 DEF Above
    <3>2. up \in Refs
      BY <2>1, <2>4, GetSummaryIn
    <3>3. mft[fn.parent] # None /\ up = InMft(fn.parent)
      <4>1. DOMAIN preloaded = {}
        OBVIOUS
      <4> QED BY <2>4, <4>1 DEF GetSummary
    <3>4. up.id = fn.parent /\ Deref(up) = mft[fn.parent]
      BY <3>3 DEF InMft, Deref
    <3>5. mft[fn.parent].seq = fn.seq
      BY <2>4, <3>4
    <3>6. mft[fn.parent].index # None
      <4>1. id \in {x \in Ids : mft[x] # None}
        BY DEF Readable
      <4> QED BY <1>2, <3>3, <3>5, <4>1 DEF IndexInv, WellIndexed
    <3>7. fn.parent \in Folders /\ IsIn(fn, fn.parent, mft)
      BY <2>1, <3>3, <3>5, <3>6 DEF Folders, Readable, IsIn
    <3> QED BY <3>1, <3>2, <3>4, <3>7
  <2> QED BY <2>2, <2>3, <2>4
<1> QED BY <1>1, <1>2

\* Each path of an entry leads to it, unless it ends in an error.
LEMMA PathsLead ==
  ASSUME VolumeInv, IndexInv, preloaded = << >>,
         NEW n \in 0..(MaxDirectoryDepth + 1), NEW ref \in Refs, NEW p \in PathsAbove[n][ref]
  PROVE  IsError(p) \/ Leads(p, ref.id)
<1> DEFINE Right(m) == \A x \in Refs : \A y \in PathsAbove[m][x] : IsError(y) \/ Leads(y, x.id)
           S == {m \in Nat : m <= MaxDirectoryDepth + 1 => Right(m)}
<1>0. MaxDirectoryDepth \in Nat
  BY OptionsAssumption
<1>1. 0 \in S
  <2>1. 0 \in 0..(MaxDirectoryDepth + 1)
    BY <1>0
  <2>2. ASSUME NEW x \in Refs, NEW y \in PathsAbove[0][x] PROVE IsError(y)
    <3>1. y = <<"<Err>", "<DirTooDeep>">>
      BY <2>1, PathsAboveFacts
    <3> QED BY <3>1, Marked
  <2> QED BY <2>2
<1>2. ASSUME NEW m \in Nat, m \in S PROVE m + 1 \in S
  <2> SUFFICES ASSUME m + 1 <= MaxDirectoryDepth + 1 PROVE Right(m + 1)
    OBVIOUS
  <2>1. /\ m \in 0..(MaxDirectoryDepth + 1) /\ m + 1 \in 0..(MaxDirectoryDepth + 1)
        /\ m + 1 # 0 /\ (m + 1) - 1 = m
    BY <1>0
  <2>2. Right(m)
    BY <1>2, <2>1
  <2>3. ASSUME NEW x \in Refs, NEW y \in PathsAbove[m + 1][x]
        PROVE  IsError(y) \/ Leads(y, x.id)
    <3>1. CASE Usable(x) = {}
      <4>1. y = <<"<Err>", "<UnknownEntry>">>
        BY <2>1, <3>1, PathsAboveFacts
      <4> QED BY <4>1, Marked
    <3>2. CASE Usable(x) # {}
      <4>1. PathsAbove[m + 1][x] = UNION {Through(f, m) : f \in Usable(x)}
        <5>1. PathsAbove[m + 1][x] = UNION {Through(f, (m + 1) - 1) : f \in Usable(x)}
          BY <2>1, <3>2, PathsAboveFacts
        <5> QED BY <2>1, <5>1
      <4>2. PICK fn \in Usable(x) : y \in Through(fn, m)
        BY <4>1
      <4>3. PICK r \in Above(fn, m) : y = Append(r, fn.name)
        BY <4>2 DEF Through
      <4>4. fn \in FileNames
        BY UsableFacts
      <4>5. r \in Seq(Words)
        BY <2>1, <4>4, PathsTyped
      <4>6. x.id \in Readable /\ Deref(x) = mft[x.id]
        <5>1. DOMAIN preloaded = {}
          OBVIOUS
        <5>2. x.from = "mft" /\ x.id \in Ids /\ mft[x.id] # None
          BY <5>1, RefFacts
        <5> QED BY <5>2 DEF Readable, Deref
      <4>7. fn \in ToSet(mft[x.id].names)
        BY <4>6 DEF Usable, LongNames
      <4>8. IsError(r) \/ /\ Leads(r, fn.parent)
                          /\ fn.parent \in Folders /\ IsIn(fn, fn.parent, mft)
        BY <2>2, <4>4, <4>6, <4>7, AboveLeads
      <4>9. CASE IsError(r)
        BY <4>3, <4>4, <4>5, <4>9, ErrorKept, Types
      <4>10. CASE Leads(r, fn.parent) /\ fn.parent \in Folders /\ IsIn(fn, fn.parent, mft)
        BY <4>3, <4>4, <4>5, <4>6, <4>7, <4>10, AppendLeads
      <4> QED BY <4>8, <4>9, <4>10
    <3> QED BY <3>1, <3>2
  <2> QED BY <2>3
<1> HIDE DEF Right
<1>3. n \in S
  <2>1. S = Nat
    <3> HIDE DEF S
    <3> QED BY <1>1, <1>2, SetInduction DEF S
  <2> QED BY <1>0, <2>1
<1>4. Right(n)
  BY <1>0, <1>3
<1> QED BY <1>4 DEF Right

-----------------------------------------------------------------------------
(* The index of a volume, under calls that reorder its names *)

\* The order of the names is nothing to an index.
LEMMA StillIndexed ==
  ASSUME NEW m, NEW m2, WellIndexed(m),
         \A x \in Ids : m2[x] = None <=> m[x] = None,
         \A x \in Ids : m[x] # None =>
            /\ \A fn \in ToSet(m[x].names) : fn.parent \in Ids \cup {Root}
            /\ "index" \in DOMAIN m[x] => "index" \in DOMAIN m2[x] /\ m2[x].index = m[x].index
            /\ m2[x].seq = m[x].seq
            /\ ToSet(m2[x].names) = ToSet(m[x].names)
  PROVE  WellIndexed(m2)
<1> SUFFICES ASSUME NEW id \in Ids, m2[id] # None
             PROVE  /\ "index" \in DOMAIN m2[id]
                    /\ \A fn \in ToSet(m2[id].names) :
                         /\ fn.name \in DOMAIN Lower
                         /\ fn.parent # Root /\ m2[fn.parent] # None /\ m2[fn.parent].seq = fn.seq
                              => m2[fn.parent].index # None
                         /\ \A other \in Ids \ {id} :
                              IF m2[other] = None THEN fn.parent = Root => Lower[other] # Lower[fn.name]
                              ELSE \A x \in ToSet(m2[other].names) :
                                     x.parent = fn.parent /\ (x.parent = Root \/ x.seq = fn.seq)
                                       => Lower[x.name] # Lower[fn.name]
  BY DEF WellIndexed
<1>1. id \in {x \in Ids : m[x] # None}
  OBVIOUS
<1>2. "index" \in DOMAIN m[id] /\ "index" \in DOMAIN m2[id] /\ ToSet(m2[id].names) = ToSet(m[id].names)
  BY <1>1 DEF WellIndexed
<1>3. ASSUME NEW fn \in ToSet(m[id].names)
      PROVE  /\ fn.name \in DOMAIN Lower
             /\ fn.parent # Root /\ m[fn.parent] # None /\ m[fn.parent].seq = fn.seq
                  => m[fn.parent].index # None
             /\ \A other \in Ids \ {id} :
                  IF m[other] = None THEN fn.parent = Root => Lower[other] # Lower[fn.name]
                  ELSE \A x \in ToSet(m[other].names) :
                         x.parent = fn.parent /\ (x.parent = Root \/ x.seq = fn.seq)
                           => Lower[x.name] # Lower[fn.name]
  BY <1>1 DEF WellIndexed
<1>4. ASSUME NEW fn \in ToSet(m[id].names), fn.parent # Root,
             m2[fn.parent] # None, m2[fn.parent].seq = fn.seq
      PROVE  m2[fn.parent].index # None
  <2>1. fn.parent \in Ids
    BY <1>1, <1>4
  <2>2. m[fn.parent] # None /\ m[fn.parent].seq = fn.seq
    BY <1>4, <2>1
  <2>3. m[fn.parent].index # None
    BY <1>3, <1>4, <2>2
  <2>4. "index" \in DOMAIN m[fn.parent]
    BY <2>1, <2>2 DEF WellIndexed
  <2> QED BY <2>1, <2>2, <2>3, <2>4
<1>5. ASSUME NEW fn \in ToSet(m[id].names), NEW other \in Ids \ {id}
      PROVE  IF m2[other] = None THEN fn.parent = Root => Lower[other] # Lower[fn.name]
             ELSE \A x \in ToSet(m2[other].names) :
                    x.parent = fn.parent /\ (x.parent = Root \/ x.seq = fn.seq)
                      => Lower[x.name] # Lower[fn.name]
  <2>1. CASE m2[other] = None
    BY <1>3, <2>1
  <2>2. CASE m2[other] # None
    <3>1. m[other] # None /\ ToSet(m2[other].names) = ToSet(m[other].names)
      BY <2>2
    <3> QED BY <1>3, <2>2, <3>1
  <2> QED BY <2>1, <2>2
<1> QED BY <1>2, <1>3, <1>4, <1>5

\* What a step may do to the summaries.
Reorders ==
  \/ UNCHANGED <<mft, preloaded>>
  \/ \E ref \in Refs : SetNames(ref, LongFirst(Deref(ref).names))

LEMMA NamesTyped ==
  ASSUME VolumeInv, NEW id \in Readable
  PROVE  /\ IsSummary(mft[id]) /\ mft[id].names \in Seq(FileNames)
         /\ InMft(id) \in Refs /\ Deref(InMft(id)) = mft[id]
<1>1. InMft(id) \in Refs
  BY DEF Readable, Refs
<1>2. Deref(InMft(id)) = mft[id]
  BY DEF Deref, InMft
<1>3. IsSummary(Deref(InMft(id))) /\ Deref(InMft(id)).names \in Seq(FileNames)
  BY <1>1, RefFacts
<1> QED BY <1>1, <1>2, <1>3

LEMMA IndexStep ==
  ASSUME VolumeInv, WellIndexed(mft), Reorders, UNCHANGED includeShortNames
  PROVE  /\ VolumeInv' /\ SameVolume
         /\ WellIndexed(mft')
<1>1. CASE UNCHANGED <<mft, preloaded>>
  BY <1>1, Unordered
<1>2. CASE \E ref \in Refs : SetNames(ref, LongFirst(Deref(ref).names))
  <2>1. PICK ref \in Refs : SetNames(ref, LongFirst(Deref(ref).names))
    BY <1>2
  <2>2. VolumeInv' /\ SameVolume
    BY <2>1, Reorder
  <2>3. CASE ref.from # "mft"
    <3>1. mft' = mft
      BY <2>1, <2>3 DEF SetNames
    <3> QED BY <2>2, <3>1
  <2>4. CASE ref.from = "mft"
    <3> PICK m, m2, id : m = mft /\ m2 = mft' /\ id = ref.id
      OBVIOUS
    <3>1. id \in Ids /\ ref = InMft(id) /\ m[id] # None
      BY <2>4, RefFacts
    <3> PICK old, new : old = m[id] /\ new = LongFirst(old.names)
      OBVIOUS
    <3>2. Deref(ref) = old
      BY <2>4 DEF Deref
    <3>3. m2 = [m EXCEPT ![id].names = new] /\ m = [x \in Ids |-> m[x]]
      BY <2>1, <2>4, <3>2 DEF SetNames, VolumeInv
    <3> PICK upd : upd = [old EXCEPT !.names = new]
      OBVIOUS
    <3>4. m2[id] = upd /\ \A x \in Ids : x # id => m2[x] = m[x]
      BY <3>1, <3>3
    <3>5. IsSummary(old) /\ old.names \in Seq(FileNames)
      BY <3>2, RefFacts
    <3>6. new \in Seq(FileNames) /\ ToSet(new) = ToSet(old.names)
      BY <3>5, LongFirstFacts
    <3>7. /\ upd.names = new /\ upd.seq = old.seq /\ DOMAIN upd = DOMAIN old
          /\ "index" \in DOMAIN old => upd.index = old.index
      <4>1. upd.names = new /\ upd.seq = old.seq /\ DOMAIN upd = DOMAIN old
        BY <3>5, <3>6, UpdateFacts
      <4>2. "index" \in DOMAIN old => upd.index = old.index
        BY <3>5 DEF IsSummary
      <4> QED BY <4>1, <4>2
    <3>8. upd # None
      BY <2>4, <3>2 DEF VolumeInv
    <3>9. ASSUME NEW x \in Ids PROVE m2[x] = None <=> m[x] = None
      BY <3>1, <3>4, <3>8
    <3>10. ASSUME NEW x \in Ids, m[x] # None
           PROVE  /\ \A fn \in ToSet(m[x].names) : fn.parent \in Ids \cup {Root}
                  /\ "index" \in DOMAIN m[x] => "index" \in DOMAIN m2[x] /\ m2[x].index = m[x].index
                  /\ m2[x].seq = m[x].seq
                  /\ ToSet(m2[x].names) = ToSet(m[x].names)
      <4>1. m[x].names \in Seq(FileNames)
        BY <3>10, NamesTyped DEF Readable
      <4>2. ASSUME NEW fn \in ToSet(m[x].names) PROVE fn.parent \in Ids \cup {Root}
        <5>1. fn \in FileNames
          <6>1. \A k \in 1..Len(m[x].names) : m[x].names[k] \in FileNames
            BY <4>1, SeqFacts
          <6>2. \E k \in 1..Len(m[x].names) : fn = m[x].names[k]
            BY <4>1, Elements
          <6> QED BY <6>1, <6>2
        <5> QED BY <5>1, Types
      <4>3. CASE x = id
        BY <3>4, <3>6, <3>7, <4>2, <4>3
      <4>4. CASE x # id
        BY <3>4, <4>2, <4>4
      <4> QED BY <4>3, <4>4
    <3>11. WellIndexed(m)
      OBVIOUS
    <3>12. WellIndexed(m2)
      BY <3>9, <3>10, <3>11, StillIndexed
    <3> QED BY <2>2, <3>12
  <2> QED BY <2>3, <2>4
<1> QED BY <1>1, <1>2 DEF Reorders

LEMMA VisitOrders ==
  ASSUME NEW ref \in Refs, NEW depth, NEW ps, NEW idx, NEW below,
         Visit(ref, idx, depth, ps, below)
  PROVE  Reorders
BY DEF Visit, Reorders

\* What is known of the call besides IInv: the entry of it is there.
IsThere == call.pc = "done" => call.id \in Refs

DirInv == IInv /\ WellIndexed(mft) /\ IsThere

LEMMA IndexInvHolds ==
  ASSUME VolumeInv, WellIndexed(mft)
  PROVE  IndexInv
BY NamesTyped DEF IndexInv

LEMMA DirStep ==
  ASSUME DirInv, Reverse(Prefix) = Prefix, [Next]_vars
  PROVE  DirInv'
<1>0. IInv /\ VolumeInv /\ WalkInv /\ PathsInv /\ WellIndexed(mft) /\ IsThere
  BY DEF DirInv, IInv
<1>1. IInv'
  BY <1>0, NextStep
<1> SUFFICES WellIndexed(mft') /\ IsThere'
  BY <1>1 DEF DirInv
<1>2. ASSUME Reorders, UNCHANGED includeShortNames
      PROVE  WellIndexed(mft') /\ SameVolume
  BY <1>0, <1>2, IndexStep
<1>3. CASE UNCHANGED vars
  <2>1. UNCHANGED <<mft, preloaded, includeShortNames, call>>
    BY <1>3 DEF vars
  <2>2. Reorders /\ Refs' = Refs
    BY <2>1 DEF Reorders, Refs
  <2> QED BY <1>0, <1>2, <2>1, <2>2 DEF IsThere
<1>4. CASE NextName /\ UNCHANGED includeShortNames
  <2> PICK up, depth : up = GetSummary(FileName.parent, FileName.seq) /\ depth = Top.depth + 1
    OBVIOUS
  <2>1. Ready /\ UNCHANGED call /\ stack # << >>
    BY <1>4, NextNameCases DEF Ready
  <2>2. call.pc # "done"
    BY <1>0, <2>1 DEF WalkInv
  <2>3. CASE UNCHANGED <<mft, preloaded>>
    BY <1>2, <1>4, <2>1, <2>2, <2>3 DEF Reorders, IsThere
  <2>4. CASE /\ FileName.parent # Root /\ up # None
             /\ Visit(up, Current, depth, Visited, Advanced)
    <3>1. FileName \in FileNames /\ (FileName.parent # Root => FileName.parent \in Ids)
      BY <1>0, <2>1, StartedFacts, Types
    <3>2. up \in Refs
      BY <1>0, <2>4, <3>1, GetSummaryIn
    <3>3. Reorders
      BY <2>4, <3>2, VisitOrders
    <3> QED BY <1>2, <1>4, <2>1, <2>2, <3>3 DEF IsThere
  <2> QED BY <1>4, <2>3, <2>4, NextNameCases
<1>5. CASE Leave /\ UNCHANGED includeShortNames
  <2>1. UNCHANGED <<mft, preloaded, call>> /\ call.pc # "done"
    BY <1>0, <1>5 DEF Leave, WalkInv
  <2> QED BY <1>2, <1>5, <2>1 DEF Reorders, IsThere
<1>6. CASE Return /\ UNCHANGED includeShortNames
  <2>1. /\ UNCHANGED <<mft, preloaded>> /\ call.pc = "busy"
        /\ call' = [call EXCEPT !.pc = "done", !.result = Components(paths)]
    BY <1>6 DEF Return
  <2>2. call.id \in Refs
    BY <1>0, <2>1 DEF PathsInv
  <2>3. call'.id = call.id
    BY <2>1
  <2>4. Refs' = Refs
    BY <2>1 DEF Refs
  <2> QED BY <1>2, <1>6, <2>1, <2>2, <2>3, <2>4 DEF Reorders, IsThere
<1>7. ASSUME NEW id \in Ids, NEW seq \in Seqs, Begin(id, seq), UNCHANGED includeShortNames
      PROVE  WellIndexed(mft') /\ IsThere'
  <2> PICK ref, ps, below : ref = GetSummary(id, seq) /\ ps = << << >> >> /\ below = << >>
    OBVIOUS
  <2>1. CASE ref = None
    <3>1. UNCHANGED <<mft, preloaded>> /\ call' = [pc |-> "failed", id |-> id, result |-> << >>]
      BY <1>7, <2>1 DEF Begin
    <3> QED BY <1>2, <1>7, <3>1 DEF Reorders, IsThere
  <2>2. CASE ref # None
    <3>1. /\ call' = [pc |-> "busy", id |-> ref, result |-> << >>]
          /\ Visit(ref, 1, 0, ps, below)
      BY <1>7, <2>2 DEF Begin
    <3>2. ref \in Refs
      BY <1>0, <2>2, GetSummaryIn
    <3>3. Reorders
      BY <3>1, <3>2, VisitOrders
    <3> QED BY <1>2, <1>7, <3>1, <3>3 DEF IsThere
  <2> QED BY <2>1, <2>2
<1> QED BY <1>3, <1>4, <1>5, <1>6, <1>7 DEF Next, Step

LEMMA DirInvariant ==
  ASSUME OneShortName, Reverse(Prefix) = Prefix
  PROVE  Spec => []DirInv
<1>1. Init => DirInv
  <2> SUFFICES ASSUME Init PROVE DirInv
    OBVIOUS
  <2>1. IInv
    BY InitStep
  <2>2. PICK v \in Volumes : mft = v.mft
    BY DEF Init
  <2>3. WellIndexed(mft)
    BY <2>2, DirectoriesAssumption
  <2> QED BY <2>1, <2>3 DEF DirInv, IsThere, Init
<1>2. DirInv /\ [Next]_vars => DirInv'
  BY DirStep
<1> QED BY <1>1, <1>2, PTL DEF Spec

\* The way up and the way down agree: on a volume without preloaded summaries,
\* whatever it holds otherwise, what GetHardLinks returns without an error
\* (hardlinks.go:72) is opened by MFT_ENTRY.Open (mft.go:103) and leads to the
\* entry, in any case, and whatever the calls before have reordered.
THEOREM PathsLeadBack ==
  ASSUME OneShortName, Reverse(Prefix) = Prefix
  PROVE  Spec => []PathsOpen
<1>1. DirInv => PathsOpen
  <2> SUFFICES ASSUME DirInv, call.pc = "done", call.id.from = "mft", preloaded = << >>,
                      ~ Overflowed, NEW path \in Found, ~ IsError(path)
               PROVE  LET down == SubSeq(path, Len(Prefix) + 1, Len(path))
                      IN /\ Open(down) = call.id.id
                         /\ Open([k \in DOMAIN down |-> Lower[down[k]]]) = call.id.id
    BY DEF PathsOpen
  <2> PICK n, id, pre : n = MaxDirectoryDepth + 1 /\ id = call.id /\ pre = Prefix
    OBVIOUS
  <2>1. /\ VolumeInv /\ IndexInv /\ id \in Refs
        /\ n \in 0..(MaxDirectoryDepth + 1)
    BY OptionsAssumption, IndexInvHolds DEF DirInv, IInv, IsThere
  <2>2. PICK p \in PathsAbove[n][id] : path = pre \o p
    BY DEF DirInv, IInv, CallInv, AllPaths
  <2>3. p \in Seq(Words) /\ pre \in Seq(Words)
    BY <2>1, PathsTyped, OptionsAssumption DEF Words
  <2>4. SubSeq(path, Len(pre) + 1, Len(path)) = p
    BY <2>2, <2>3
  <2>5. Leads(p, id.id)
    <3>1. ToSet(path) = ToSet(pre) \cup ToSet(p)
      BY <2>2, <2>3, ElementsOfBoth
    <3>2. ~ IsError(p)
      BY <3>1 DEF IsError
    <3> QED BY <2>1, <3>2, PathsLead
  <2> DEFINE low == [k \in DOMAIN p |-> Lower[p[k]]]
  <2>6. /\ Len(p) \in Nat /\ DOMAIN p = 1..Len(p) /\ Len(low) = Len(p)
        /\ \A k \in 1..Len(p) : low[k] = Lower[p[k]]
    BY <2>3
  <2> HIDE DEF low
  <2>7. Spelled(p, p)
    BY DEF Spelled
  <2>8. Spelled(low, p)
    BY <2>5, <2>6, DirectoriesAssumption DEF Spelled, Leads
  <2>9. Open(p) = id.id /\ Open(low) = id.id
    BY <2>5, <2>6, <2>7, <2>8 DEF Leads, Open
  <2> QED BY <2>4, <2>9 DEF low
<1> QED BY <1>1, DirInvariant, PTL

-----------------------------------------------------------------------------
(* The streams of a file, as they are listed and selected *)

LEMMA MinIs ==
  ASSUME NEW S \in SUBSET Nat, NEW k \in S, \A j \in S : k <= j
  PROVE  Min(S) = k
<1>1. Min(S) \in S /\ \A j \in S : Min(S) <= j
  BY DEF Min
<1> PICK m : m = Min(S)
  OBVIOUS
<1>2. m \in Nat /\ k \in Nat /\ m <= k /\ k <= m
  BY <1>1
<1> QED BY <1>2

LEMMA MaxIn ==
  ASSUME NEW n \in Nat, NEW S \in SUBSET (1..n), S # {}
  PROVE  Max(S) \in S
<1>1. S \in SUBSET Nat /\ \A x \in S : x <= n
  OBVIOUS
<1>2. PICK x \in S : \A y \in S : y <= x
  BY <1>1, GreatestElement
<1>3. \A y \in S : x >= y
  BY <1>1, <1>2
<1> QED BY <1>2, <1>3 DEF Max

LEMMA FirstOf ==
  ASSUME NEW b \in BOOLEAN, NEW c \in BOOLEAN
  PROVE  /\ 1 \in DOMAIN <<b>> /\ <<b>>[1] = b
         /\ 1 \in DOMAIN <<b, c>> /\ <<b, c>>[1] = b
OBVIOUS

\* What a stream that begins knows of itself and of those before it.
LEMMA StreamFacts ==
  ASSUME NEW attrs, StreamsNamed(attrs)
  PROVE  /\ Len(attrs) \in Nat /\ DOMAIN attrs = 1..Len(attrs)
         /\ \A k \in 1..Len(attrs) :
              /\ attrs[k] # None /\ attrs[k].type = "DATA" /\ attrs[k].id # Wildcard
              /\ attrs[k].name # Wildcard /\ attrs[k].name # None /\ attrs[k].name # "$I30"
         /\ \A k \in 1..Len(attrs) : \A j \in 1..Len(attrs) :
              CanBegin(attrs[k]) /\ CanBegin(attrs[j]) /\ j < k =>
                /\ attrs[j].name # attrs[k].name
                /\ attrs[j].id = attrs[k].id => attrs[k].name # NoName
<1> PICK S, n : S = ToSet(attrs) /\ n = Len(attrs)
  OBVIOUS
<1>1. attrs \in Seq(S)
  BY DEF StreamsNamed
<1>2. n \in Nat /\ DOMAIN attrs = 1..n /\ \A k \in 1..n : attrs[k] \in S
  BY <1>1, SeqFacts
<1>3. /\ None \notin S
      /\ \A attr \in S : /\ attr.type = "DATA" /\ attr.id # Wildcard
                         /\ attr.name \notin {Wildcard, None, "$I30"}
  BY DEF StreamsNamed
<1>4. \A k \in 1..n : \A j \in 1..n :
        CanBegin(attrs[k]) /\ CanBegin(attrs[j]) /\ j < k =>
          /\ attrs[j].name # attrs[k].name
          /\ attrs[j].id = attrs[k].id => attrs[k].name # NoName
  BY <1>2 DEF StreamsNamed
<1> QED BY <1>2, <1>3, <1>4

\* The first that is most wanted is selected.
LEMMA Selects ==
  ASSUME NEW attrs, StreamsNamed(attrs), NEW q, q.type = "DATA",
         NEW k \in 1..Len(attrs), CanBegin(attrs[k]),
         \A attr : 1 \in DOMAIN Wanted(attr, q),
         Wanted(attrs[k], q)[1],
         \A j \in 1..Len(attrs) : CanBegin(attrs[j]) /\ Wanted(attrs[j], q)[1] => k <= j
  PROVE  selectAttribute(attrs, q) = attrs[k]
<1> DEFINE C == {j \in DOMAIN attrs : /\ attrs[j].type = q.type /\ CanBegin(attrs[j])
                                      /\ 1 \in DOMAIN Wanted(attrs[j], q)
                                      /\ Wanted(attrs[j], q)[1]}
<1>1. /\ Len(attrs) \in Nat /\ DOMAIN attrs = 1..Len(attrs)
      /\ \A j \in 1..Len(attrs) : attrs[j].type = "DATA"
  BY StreamFacts
<1>2. C \in SUBSET Nat /\ k \in C /\ \A j \in C : k <= j
  BY <1>1
<1>3. selectAttribute(attrs, q) = attrs[Min(C)]
  <2>1. C # {}
    BY <1>2
  <2> QED BY <2>1 DEF selectAttribute
<1> HIDE DEF C
<1>4. Min(C) = k
  BY <1>2, MinIs
<1> QED BY <1>3, <1>4

\* The inode of a stream selects it, however many have its id.
LEMMA InodeReopens ==
  ASSUME NEW attrs, StreamsNamed(attrs), NEW k \in 1..Len(attrs), CanBegin(attrs[k]), NEW id
  PROVE  /\ ParseMFTId(Inode(id, attrs, k)).entry = id
         /\ selectAttribute(attrs, ParseMFTId(Inode(id, attrs, k))) = attrs[k]
<1> PICK attr, name, inode, q, w, none :
      /\ attr = attrs[k] /\ inode = Inode(id, attrs, k) /\ q = ParseMFTId(inode)
      /\ name = IF Formatted(attrs, k) /\ attrs[k].name # NoName THEN attrs[k].name ELSE None
      /\ w = Wildcard /\ none = NoName
  OBVIOUS
<1>1. /\ Len(attrs) \in Nat /\ DOMAIN attrs = 1..Len(attrs)
      /\ \A j \in 1..Len(attrs) :
           attrs[j].type = "DATA" /\ attrs[j].id # w /\ attrs[j].name # w /\ attrs[j].name # None
      /\ \A i \in 1..Len(attrs) : \A j \in 1..Len(attrs) :
           CanBegin(attrs[i]) /\ CanBegin(attrs[j]) /\ j < i =>
             /\ attrs[j].name # attrs[i].name
             /\ attrs[j].id = attrs[i].id => attrs[i].name # none
  BY StreamFacts
<1>2. /\ inode.components = <<id, attr.type, attr.id>> /\ inode.name = name
      /\ DOMAIN inode.components = 1..3
  BY DEF Inode
<1>3. /\ q.entry = id /\ q.type = "DATA" /\ q.id = attr.id
      /\ q.name = IF name = None THEN w ELSE name
  <2>1. q = [entry |-> id, type |-> attr.type, id |-> attr.id,
             name |-> IF name = None THEN w ELSE name]
    BY <1>2 DEF ParseMFTId, Component
  <2> QED BY <1>1, <2>1
<1>4. ASSUME NEW x
      PROVE  Wanted(x, q) = <<x.id = q.id /\ q.name \in {w, x.name}>>
  BY <1>1, <1>3 DEF Wanted
<1>5. ASSUME NEW x
      PROVE  /\ 1 \in DOMAIN Wanted(x, q)
             /\ Wanted(x, q)[1] <=> x.id = q.id /\ q.name \in {w, x.name}
  <2> PICK b \in BOOLEAN : b = (x.id = q.id /\ q.name \in {w, x.name})
    OBVIOUS
  <2>1. Wanted(x, q) = <<b>>
    BY <1>4
  <2>2. 1 \in DOMAIN Wanted(x, q) /\ Wanted(x, q)[1] = b
    BY <2>1, FirstOf
  <2> QED BY <2>2
<1>6. q.name \in {w, attr.name}
  BY <1>3
<1>7. ASSUME NEW j \in 1..Len(attrs), CanBegin(attrs[j]),
             attrs[j].id = q.id, q.name \in {w, attrs[j].name}
      PROVE  k <= j
  <2> SUFFICES ASSUME j < k PROVE FALSE
    BY <1>1
  <2>1. attrs[j].id = attr.id /\ attrs[j].name # attr.name /\ attr.name # none
    BY <1>1, <1>3, <1>7
  <2>2. Formatted(attrs, k)
    <3>1. j \in 1..(k - 1)
      BY <1>1
    <3> QED BY <1>1, <1>7, <2>1, <3>1 DEF Formatted
  <2>3. q.name = attr.name
    BY <1>1, <1>3, <2>1, <2>2
  <2> QED BY <1>1, <1>7, <2>1, <2>3
<1>8. selectAttribute(attrs, q) = attrs[k]
  <2>1. \A x : 1 \in DOMAIN Wanted(x, q)
    BY <1>5
  <2>2. Wanted(attrs[k], q)[1]
    BY <1>3, <1>5, <1>6
  <2>3. \A j \in 1..Len(attrs) : CanBegin(attrs[j]) /\ Wanted(attrs[j], q)[1] => k <= j
    BY <1>5, <1>7
  <2> QED BY <1>3, <2>1, <2>2, <2>3, Selects
<1> QED BY <1>3, <1>8

\* No two streams have the same inode.
LEMMA InodesDiffer ==
  ASSUME NEW attrs, StreamsNamed(attrs), NEW k \in 1..Len(attrs), CanBegin(attrs[k]),
         NEW j \in 1..Len(attrs), CanBegin(attrs[j]), NEW id,
         Inode(id, attrs, j) = Inode(id, attrs, k)
  PROVE  j = k
<1>1. selectAttribute(attrs, ParseMFTId(Inode(id, attrs, j))) = attrs[j]
  BY InodeReopens
<1>2. selectAttribute(attrs, ParseMFTId(Inode(id, attrs, k))) = attrs[k]
  BY InodeReopens
<1>3. attrs[j].name = attrs[k].name
  BY <1>1, <1>2
<1>4. Len(attrs) \in Nat /\ ~ (j < k) /\ ~ (k < j)
  BY <1>3, StreamFacts
<1> QED BY <1>4

\* The name of a stream selects it, too.
LEMMA NameReopens ==
  ASSUME NEW attrs, StreamsNamed(attrs), NEW k \in 1..Len(attrs), CanBegin(attrs[k]),
         NEW q, q.type = "DATA", q.id = Wildcard,
         q.name = IF Ads(attrs[k]) = << >> THEN Wildcard ELSE Ads(attrs[k])[1]
  PROVE  selectAttribute(attrs, q) = attrs[k]
<1> PICK attr, w, none : attr = attrs[k] /\ w = Wildcard /\ none = NoName
  OBVIOUS
<1>1. /\ Len(attrs) \in Nat /\ attr.name # w /\ attr.name # "$I30"
      /\ \A i \in 1..Len(attrs) : \A j \in 1..Len(attrs) :
           CanBegin(attrs[i]) /\ CanBegin(attrs[j]) /\ j < i => attrs[j].name # attrs[i].name
  BY StreamFacts
<1>2. q.name = IF attr.name = none THEN w ELSE attr.name
  <2>1. CASE attr.name = none
    <3>1. Ads(attr) = << >>
      BY <2>1 DEF Ads
    <3> QED BY <2>1, <3>1
  <2>2. CASE attr.name # none
    <3>1. Ads(attr) = <<attr.name>>
      BY <1>1, <2>2 DEF Ads
    <3> QED BY <2>2, <3>1
  <2> QED BY <2>1, <2>2
<1>3. ASSUME NEW x
      PROVE  1 \in DOMAIN Wanted(x, q) /\ (Wanted(x, q)[1] <=> x.name = attr.name)
  <2>1. CASE attr.name = none
    <3> PICK b \in BOOLEAN : b = (x.name = none)
      OBVIOUS
    <3>1. Wanted(x, q) = <<b, TRUE>>
      BY <1>2, <2>1 DEF Wanted
    <3>2. 1 \in DOMAIN Wanted(x, q) /\ Wanted(x, q)[1] = b
      BY <3>1, FirstOf
    <3> QED BY <2>1, <3>2
  <2>2. CASE attr.name # none
    <3> PICK b \in BOOLEAN : b = (x.name = attr.name)
      OBVIOUS
    <3>1. Wanted(x, q) = <<b>>
      BY <1>1, <1>2, <2>2 DEF Wanted
    <3>2. 1 \in DOMAIN Wanted(x, q) /\ Wanted(x, q)[1] = b
      BY <3>1, FirstOf
    <3> QED BY <3>2
  <2> QED BY <2>1, <2>2
<1>4. ASSUME NEW j \in 1..Len(attrs), CanBegin(attrs[j]), attrs[j].name = attr.name
      PROVE  k <= j
  BY <1>1, <1>4
<1>5. \A x : 1 \in DOMAIN Wanted(x, q)
  BY <1>3
<1>6. Wanted(attrs[k], q)[1]
  BY <1>3
<1>7. \A j \in 1..Len(attrs) : CanBegin(attrs[j]) /\ Wanted(attrs[j], q)[1] => k <= j
  BY <1>3, <1>4
<1> QED BY <1>5, <1>6, <1>7, Selects

-----------------------------------------------------------------------------
(* What is listed *)

\* Each stream that begins is listed with its inode, once.
LEMMA ListedFacts ==
  ASSUME NEW attrs, StreamsNamed(attrs), NEW id
  PROVE  /\ Distinct(Listed(id, attrs))
         /\ \A e : e \in ToSet(Listed(id, attrs)) <=>
              \E k \in 1..Len(attrs) :
                CanBegin(attrs[k]) /\ e = [attr |-> attrs[k], inode |-> Inode(id, attrs, k)]
<1> DEFINE n == Len(attrs)
           Piece(k) == [attr |-> attrs[k], inode |-> Inode(id, attrs, k)]
           s == [k \in 1..n |-> IF CanBegin(attrs[k]) THEN <<Piece(k)>> ELSE << >>]
<1>1. n \in Nat /\ DOMAIN attrs = 1..n
  BY StreamFacts
<1>2. Listed(id, attrs) = FlattenSeq(s)
  BY <1>1 DEF Listed
<1>3. \A k : Piece(k).inode = Inode(id, attrs, k)
  OBVIOUS
<1> HIDE DEF Piece
<1>4. /\ s = [k \in 1..n |-> s[k]]
      /\ \A k \in 1..n : s[k] = IF CanBegin(attrs[k]) THEN <<Piece(k)>> ELSE << >>
  OBVIOUS
<1> HIDE DEF s
<1>5. \A k \in 1..n : /\ Distinct(s[k])
                      /\ \A e : e \in ToSet(s[k]) <=> CanBegin(attrs[k]) /\ e = Piece(k)
  BY <1>4, DistinctFew
<1>6. ASSUME NEW j \in 1..n, NEW k \in 1..n, NEW e \in ToSet(s[j]), e \in ToSet(s[k])
      PROVE  j = k
  <2>1. CanBegin(attrs[j]) /\ CanBegin(attrs[k]) /\ Piece(j) = Piece(k)
    BY <1>5, <1>6
  <2>2. Inode(id, attrs, j) = Inode(id, attrs, k)
    BY <1>3, <2>1
  <2> QED BY <2>1, <2>2, InodesDiffer
<1>7. /\ Distinct(FlattenSeq(s))
      /\ \A e : e \in ToSet(FlattenSeq(s)) <=> \E k \in 1..n : e \in ToSet(s[k])
  <2>1. \A k \in 1..n : Distinct(s[k])
    BY <1>5
  <2> HIDE DEF n
  <2> QED BY <1>1, <1>4, <1>6, <2>1, DistinctAll
<1>8. ASSUME NEW e
      PROVE  e \in ToSet(FlattenSeq(s)) <=> \E k \in 1..n : CanBegin(attrs[k]) /\ e = Piece(k)
  BY <1>5, <1>7
<1> QED BY <1>2, <1>7, <1>8 DEF Piece

\* A line of Stat.
Shown(id, inode, ads, name) == [entry |-> id, inode |-> inode, ads |-> ads, name |-> name]

LEMMA ShownFacts ==
  ASSUME NEW id, NEW inode, NEW ads, NEW name, NEW e, e = Shown(id, inode, ads, name)
  PROVE  /\ e.entry = id /\ e.inode = inode /\ e.ads = ads /\ e.name = name
         /\ \A other : [e EXCEPT !.name = other] = Shown(id, inode, ads, other)
BY DEF Shown

IsLongOf(name, names) ==
  \E m \in DOMAIN names : IsLongName(names[m]) /\ name = names[m].name

\* Lines that differ in their names, only.
ShowsNames(lines, names, id, inode, ads) ==
  /\ Distinct(lines)
  /\ \A e \in ToSet(lines) : \E fn \in ToSet(names) : e = Shown(id, inode, ads, fn.name)

LEMMA NamesListed ==
  ASSUME NEW names, names \in Seq(FileNames), NamesDiffer(names),
         NEW long, IsLongOf(long, names),
         NEW id, NEW inode, NEW ads, NEW info, info = Shown(id, inode, ads, long)
  PROVE  ShowsNames(WithExtraNames(info, names), names, id, inode, ads)
<1> DEFINE n == Len(names)
           Extra(k) == ~ (IsLongName(names[k]) \/ names[k].name \in Tilded)
           Piece(k) == [info EXCEPT !.name = names[k].name]
           s == [k \in 1..n |-> IF IsLongName(names[k]) \/ names[k].name \in Tilded THEN << >>
                                ELSE <<Piece(k)>>]
<1>1. n \in Nat /\ DOMAIN names = 1..n /\ \A k \in 1..n : names[k] \in ToSet(names)
  <2>1. n \in Nat /\ DOMAIN names = 1..n
    BY SeqFacts
  <2> QED BY <2>1 DEF ToSet
<1>0. PICK m \in 1..n : IsLongName(names[m]) /\ long = names[m].name
  BY <1>1 DEF IsLongOf
<1>2. WithExtraNames(info, names) = Append(FlattenSeq(s), info)
  BY <1>1 DEF WithExtraNames
<1>3. \A k : Piece(k) = Shown(id, inode, ads, names[k].name)
  BY ShownFacts
<1>4. \A k : Piece(k).name = names[k].name
  <2> TAKE k
  <2> PICK x, p : x = names[k].name /\ p = Piece(k)
    OBVIOUS
  <2>1. p = Shown(id, inode, ads, x)
    BY <1>3
  <2> QED BY <2>1, ShownFacts
<1> HIDE DEF Piece
<1>5. /\ s = [k \in 1..n |-> s[k]]
      /\ \A k \in 1..n : s[k] = IF Extra(k) THEN <<Piece(k)>> ELSE << >>
  OBVIOUS
<1>6. \A k \in 1..n : Extra(k) => ~ IsLongName(names[k])
  OBVIOUS
<1> HIDE DEF s, Extra
<1>7. \A k \in 1..n : /\ Distinct(s[k])
                      /\ \A e : e \in ToSet(s[k]) <=> Extra(k) /\ e = Piece(k)
  BY <1>5, DistinctFew
<1>8. ASSUME NEW k \in 1..n, ~ IsLongName(names[k]), NEW j \in 1..n, j # k
      PROVE  names[j].name # names[k].name
  <2>1. (\E i \in DOMAIN names : IsLongName(names[i])) /\ j \in DOMAIN names \ {k}
    BY <1>0, <1>1, <1>8
  <2> QED BY <1>1, <1>8, <2>1 DEF NamesDiffer
<1>9. ASSUME NEW j \in 1..n, NEW k \in 1..n, NEW e \in ToSet(s[j]), e \in ToSet(s[k])
      PROVE  j = k
  <2>1. Extra(j) /\ Extra(k) /\ Piece(j) = Piece(k)
    BY <1>7, <1>9
  <2>2. names[j].name = names[k].name
    BY <1>4, <2>1
  <2> QED BY <1>6, <1>8, <2>1, <2>2
<1> PICK t : t = FlattenSeq(s)
  OBVIOUS
<1>10. /\ Distinct(t)
       /\ \A e : e \in ToSet(t) <=> \E k \in 1..n : e \in ToSet(s[k])
  <2>1. \A k \in 1..n : Distinct(s[k])
    BY <1>7
  <2> HIDE DEF n
  <2> QED BY <1>1, <1>5, <1>9, <2>1, DistinctAll
<1>11. info \notin ToSet(t)
  <2> SUFFICES ASSUME info \in ToSet(t) PROVE FALSE
    OBVIOUS
  <2>1. PICK k \in 1..n : Extra(k) /\ info = Piece(k)
    BY <1>7, <1>10
  <2>2. info.name = names[m].name
    BY <1>0, ShownFacts
  <2>3. names[k].name = names[m].name
    BY <1>4, <2>1, <2>2
  <2>4. k # m
    BY <1>0, <1>6, <2>1
  <2> QED BY <1>6, <1>8, <2>1, <2>3, <2>4
<1>12. Append(t, info) = t \o <<info>>
  <2> PICK R : R = ToSet(t) \cup {info}
    OBVIOUS
  <2>1. t \in Seq(R) /\ info \in R
    BY <1>10 DEF Distinct
  <2> QED BY <2>1
<1>13. /\ Distinct(t \o <<info>>)
       /\ \A e : e \in ToSet(t \o <<info>>) <=> e \in ToSet(t) \/ e = info
  <2> PICK u : u = <<info>>
    OBVIOUS
  <2>1. Distinct(u) /\ \A e : e \in ToSet(u) <=> e = info
    BY DistinctFew
  <2>2. \A e \in ToSet(t) : e \notin ToSet(u)
    BY <1>11, <2>1
  <2>3. /\ Distinct(t \o u)
        /\ \A e : e \in ToSet(t \o u) <=> e \in ToSet(t) \/ e \in ToSet(u)
    BY <1>10, <2>1, <2>2, DistinctBoth
  <2> QED BY <2>1, <2>3
<1>14. ASSUME NEW e, e \in ToSet(t) \/ e = info
       PROVE  \E fn \in ToSet(names) : e = Shown(id, inode, ads, fn.name)
  <2>1. CASE e = info
    BY <1>0, <1>1, <2>1
  <2>2. CASE e \in ToSet(t)
    <3>1. PICK k \in 1..n : e = Piece(k)
      BY <1>7, <1>10, <2>2
    <3> QED BY <1>1, <1>3, <3>1
  <2> QED BY <1>14, <2>1, <2>2
<1> QED BY <1>2, <1>12, <1>13, <1>14 DEF ShowsNames

\* What the proofs need of a volume whose directories are listed.
ListInv == IndexInv /\ WellNamed(mft)

\* What Stat has of entry id: its own lines, each once, with one of its names,
\* and with the inode and the name of a stream if it is one of data.
LEMMA StatFacts ==
  ASSUME ListInv, NEW id \in Readable
  PROVE  /\ Distinct(Stat(id))
         /\ \A e \in ToSet(Stat(id)) :
              /\ e.entry = id
              /\ \E fn \in ToSet(mft[id].names) : e.name = fn.name
              /\ e.inode.components[2] = "DATA" =>
                   \E k \in 1..Len(mft[id].attrs) :
                     /\ CanBegin(mft[id].attrs[k])
                     /\ e.inode = Inode(id, mft[id].attrs, k) /\ e.ads = Ads(mft[id].attrs[k])
<1> PICK entry, names, attrs : entry = mft[id] /\ names = entry.names /\ attrs = entry.attrs
  OBVIOUS
<1> DEFINE long == {k \in DOMAIN names : IsLongName(names[k])}
<1> PICK m : m = Max(long)
  OBVIOUS
<1> DEFINE data == Listed(id, attrs)
           n == Len(data)
           root == [components |-> <<id, "INDEX", entry.index>>, name |-> None]
           Line(inode, ads) == WithExtraNames(Shown(id, inode, ads, names[m].name), names)
           a == IF entry.index = None THEN << >> ELSE Line(root, << >>)
           s == [k \in 1..n |-> Line(data[k].inode, Ads(data[k].attr))]
<1>1. names \in Seq(FileNames) /\ StreamsNamed(attrs) /\ NamesDiffer(names)
  BY DEF ListInv, IndexInv, WellNamed, Readable
<1>2. CASE ~ entry.si \/ long = {}
  <2>1. Stat(id) = << >>
    BY <1>2 DEF Stat
  <2> QED BY <2>1, DistinctFew
<1>3. CASE ~ (~ entry.si \/ long = {})
  <2>1. /\ Distinct(data)
        /\ \A e : e \in ToSet(data) <=>
             \E k \in 1..Len(attrs) :
               CanBegin(attrs[k]) /\ e = [attr |-> attrs[k], inode |-> Inode(id, attrs, k)]
    <3>1. StreamsNamed(attrs)
      BY <1>1
    <3> QED BY ONLY <3>1, ListedFacts
  <2>2. Stat(id) = a \o FlattenSeq(s)
    <3>1. DOMAIN data = 1..n
      BY <2>1, DistinctFacts
    <3> HIDE DEF data
    <3> QED BY <1>3, <3>1 DEF Stat, Shown, data
  <2>3. m \in 1..Len(names) /\ IsLongName(names[m])
    <3>1. Len(names) \in Nat /\ DOMAIN names = 1..Len(names)
      BY <1>1, SeqFacts
    <3>2. long \in SUBSET (1..Len(names)) /\ long # {}
      BY <1>3, <3>1
    <3>3. m \in long
      BY <3>1, <3>2, MaxIn
    <3> QED BY <3>1, <3>3
  <2>4. ASSUME NEW inode, NEW ads
        PROVE  /\ Distinct(Line(inode, ads))
               /\ \A e \in ToSet(Line(inode, ads)) :
                    \E fn \in ToSet(names) : e = Shown(id, inode, ads, fn.name)
    <3> PICK info, lines, name :
          /\ name = names[m].name /\ info = Shown(id, inode, ads, name)
          /\ lines = WithExtraNames(info, names)
      OBVIOUS
    <3>1. /\ Distinct(lines)
          /\ \A e \in ToSet(lines) : \E fn \in ToSet(names) : e = Shown(id, inode, ads, fn.name)
      <4>1. names \in Seq(FileNames) /\ NamesDiffer(names)
        BY <1>1
      <4>2. IsLongOf(name, names)
        <5>1. m \in DOMAIN names
          BY <2>3, <4>1, SeqFacts
        <5> QED BY <2>3, <5>1 DEF IsLongOf
      <4>3. info = Shown(id, inode, ads, name)
        OBVIOUS
      <4> HIDE DEF Line
      <4>4. ShowsNames(WithExtraNames(info, names), names, id, inode, ads)
        BY <4>1, <4>2, <4>3, NamesListed
      <4> QED BY <4>4 DEF ShowsNames
    <3>2. Line(inode, ads) = lines
      OBVIOUS
    <3> HIDE DEF Line
    <3> QED BY <3>1, <3>2
  <2>5. ASSUME NEW inode, NEW ads, NEW e \in ToSet(Line(inode, ads))
        PROVE  /\ e.entry = id /\ e.inode = inode /\ e.ads = ads
               /\ \E fn \in ToSet(names) : e.name = fn.name
    <3> HIDE DEF Line
    <3>1. PICK fn \in ToSet(names) : e = Shown(id, inode, ads, fn.name)
      BY <2>4
    <3> PICK name : name = fn.name
      OBVIOUS
    <3>2. e = Shown(id, inode, ads, name)
      BY <3>1
    <3> QED BY <3>2, ShownFacts
  <2> HIDE DEF Line
  <2>6. /\ n \in Nat
        /\ \A k \in 1..n : data[k] \in ToSet(data)
        /\ \A j \in 1..n : \A k \in 1..n : data[j] = data[k] => j = k
    BY <2>1, DistinctFacts
  <2>7. /\ s = [k \in 1..n |-> s[k]]
        /\ \A k \in 1..n : s[k] = Line(data[k].inode, Ads(data[k].attr))
    OBVIOUS
  <2> HIDE DEF s
  <2>8. ASSUME NEW k \in 1..n
        PROVE  \E i \in 1..Len(attrs) :
                 /\ CanBegin(attrs[i])
                 /\ data[k] = [attr |-> attrs[i], inode |-> Inode(id, attrs, i)]
                 /\ data[k].inode = Inode(id, attrs, i) /\ data[k].attr = attrs[i]
                 /\ data[k].inode.components[2] = "DATA"
    <3> PICK x : x = data[k]
      OBVIOUS
    <3>1. PICK i \in 1..Len(attrs) :
            CanBegin(attrs[i]) /\ x = [attr |-> attrs[i], inode |-> Inode(id, attrs, i)]
      BY <2>1, <2>6
    <3>2. x.inode = Inode(id, attrs, i) /\ x.attr = attrs[i]
      BY <3>1
    <3>3. Inode(id, attrs, i).components[2] = "DATA"
      <4>1. attrs[i].type = "DATA"
        BY <1>1, StreamFacts
      <4> QED BY <4>1 DEF Inode
    <3> QED BY <3>1, <3>2, <3>3
  <2> HIDE DEF data
  <2>9. ASSUME NEW k \in 1..n
        PROVE  /\ Distinct(s[k])
               /\ \A e \in ToSet(s[k]) :
                    /\ e.entry = id /\ \E fn \in ToSet(names) : e.name = fn.name
                    /\ e.inode = data[k].inode /\ e.ads = Ads(data[k].attr)
    <3> PICK inode, ads : inode = data[k].inode /\ ads = Ads(data[k].attr)
      OBVIOUS
    <3>1. s[k] = Line(inode, ads)
      BY <2>7
    <3> QED BY <2>4, <2>5, <3>1
  <2>10. ASSUME NEW j \in 1..n, NEW k \in 1..n, NEW e \in ToSet(s[j]), e \in ToSet(s[k])
         PROVE  j = k
    <3>1. data[j].inode = data[k].inode
      BY <2>9, <2>10
    <3>2. PICK i \in 1..Len(attrs) :
            /\ CanBegin(attrs[i]) /\ data[j].inode = Inode(id, attrs, i)
            /\ data[j] = [attr |-> attrs[i], inode |-> Inode(id, attrs, i)]
      BY <2>8
    <3>3. PICK h \in 1..Len(attrs) :
            /\ CanBegin(attrs[h]) /\ data[k].inode = Inode(id, attrs, h)
            /\ data[k] = [attr |-> attrs[h], inode |-> Inode(id, attrs, h)]
      BY <2>8
    <3>4. Inode(id, attrs, i) = Inode(id, attrs, h)
      BY <3>1, <3>2, <3>3
    <3>5. i = h
      BY <1>1, <3>2, <3>3, <3>4, InodesDiffer
    <3> QED BY <2>6, <3>2, <3>3, <3>5
  <2> PICK t : t = FlattenSeq(s)
    OBVIOUS
  <2>11. /\ Distinct(t)
         /\ \A e : e \in ToSet(t) <=> \E k \in 1..n : e \in ToSet(s[k])
    <3>1. \A k \in 1..n : Distinct(s[k])
      BY <2>9
    <3> HIDE DEF n
    <3> QED BY <2>6, <2>7, <2>10, <3>1, DistinctAll
  <2>12. /\ Distinct(a)
         /\ \A e \in ToSet(a) : /\ e.entry = id /\ \E fn \in ToSet(names) : e.name = fn.name
                                /\ e.inode.components[2] # "DATA"
    <3>1. CASE entry.index = None
      <4>1. a = << >>
        BY <3>1
      <4> QED BY <4>1, DistinctFew
    <3>2. CASE entry.index # None
      <4> PICK inode : inode = root
        OBVIOUS
      <4>1. a = Line(inode, << >>)
        BY <3>2
      <4>2. inode.components[2] # "DATA"
        OBVIOUS
      <4> HIDE DEF a
      <4> QED BY <2>4, <2>5, <4>1, <4>2
    <3> QED BY <3>1, <3>2
  <2> HIDE DEF a
  <2>13. \A e \in ToSet(a) : e \notin ToSet(t)
    <3> SUFFICES ASSUME NEW e \in ToSet(a), e \in ToSet(t) PROVE FALSE
      OBVIOUS
    <3>1. PICK k \in 1..n : e \in ToSet(s[k])
      BY <2>11
    <3>2. e.inode = data[k].inode
      BY <2>9, <3>1
    <3>3. e.inode.components[2] = "DATA"
      BY <2>8, <3>2
    <3> QED BY <2>12, <3>3
  <2>14. /\ Distinct(a \o t)
         /\ \A e : e \in ToSet(a \o t) <=> e \in ToSet(a) \/ e \in ToSet(t)
    BY <2>11, <2>12, <2>13, DistinctBoth
  <2>15. ASSUME NEW e \in ToSet(t)
         PROVE  /\ e.entry = id
                /\ \E fn \in ToSet(names) : e.name = fn.name
                /\ \E k \in 1..Len(attrs) :
                     /\ CanBegin(attrs[k])
                     /\ e.inode = Inode(id, attrs, k) /\ e.ads = Ads(attrs[k])
    <3>1. PICK j \in 1..n : e \in ToSet(s[j])
      BY <2>11
    <3>2. PICK k \in 1..Len(attrs) :
            /\ CanBegin(attrs[k])
            /\ data[j].inode = Inode(id, attrs, k) /\ data[j].attr = attrs[k]
      BY <2>8
    <3> QED BY <2>9, <3>1, <3>2
  <2> QED BY <2>2, <2>12, <2>14, <2>15
<1> QED BY <1>2, <1>3

\* The files of some records, each once.
LEMMA EachFileFacts ==
  ASSUME NEW records \in Seq(Records)
  PROVE  /\ Distinct(EachFile(records))
         /\ \A f : f \in ToSet(EachFile(records)) <=>
              \E k \in 1..Len(records) : f = records[k].entry
<1> DEFINE n == Len(records)
           File(k) == records[k].entry
           Seen(k) == \E j \in 1..(k - 1) : File(j) = File(k)
           s == [k \in 1..n |-> IF Seen(k) THEN << >> ELSE <<File(k)>>]
<1>1. n \in Nat /\ DOMAIN records = 1..n
  BY SeqFacts
<1>2. EachFile(records) = FlattenSeq(s)
  BY <1>1 DEF EachFile
<1> HIDE DEF n, File
<1>3. /\ s = [k \in 1..n |-> s[k]]
      /\ \A k \in 1..n : s[k] = IF Seen(k) THEN << >> ELSE <<File(k)>>
  OBVIOUS
<1> HIDE DEF s
<1>4. \A k \in 1..n : /\ Distinct(s[k])
                      /\ \A f : f \in ToSet(s[k]) <=> ~ Seen(k) /\ f = File(k)
  <2> HIDE DEF Seen
  <2> QED BY <1>3, DistinctFew
<1>5. ASSUME NEW j \in 1..n, NEW k \in 1..n, NEW f \in ToSet(s[j]), f \in ToSet(s[k])
      PROVE  j = k
  <2>1. ~ Seen(j) /\ ~ Seen(k) /\ File(j) = File(k)
    BY <1>4, <1>5
  <2>2. ~ (j \in 1..(k - 1)) /\ ~ (k \in 1..(j - 1))
    BY <2>1
  <2> QED BY <1>1, <2>2
<1>6. /\ Distinct(FlattenSeq(s))
      /\ \A f : f \in ToSet(FlattenSeq(s)) <=> \E k \in 1..n : f \in ToSet(s[k])
  <2>1. \A k \in 1..n : Distinct(s[k])
    BY <1>4
  <2> QED BY <1>1, <1>3, <1>5, <2>1, DistinctAll
<1>7. ASSUME NEW k \in 1..n
      PROVE  \E j \in 1..n : ~ Seen(j) /\ File(j) = File(k)
  <2> DEFINE S == {j \in 1..n : File(j) = File(k)}
  <2>1. S \in SUBSET Nat /\ S # {}
    OBVIOUS
  <2>2. PICK j \in S : \A i \in S : j <= i
    <3> HIDE DEF S
    <3> QED BY <2>1, LeastElement
  <2>3. ASSUME Seen(j) PROVE FALSE
    <3>1. PICK i \in 1..(j - 1) : File(i) = File(j)
      BY <2>3
    <3>2. i \in 1..n /\ ~ (j <= i)
      BY <1>1
    <3> QED BY <2>2, <3>1, <3>2
  <2> QED BY <2>3
<1>8. ASSUME NEW f
      PROVE  f \in ToSet(FlattenSeq(s)) <=> \E k \in 1..n : f = File(k)
  <2> HIDE DEF Seen
  <2> QED BY <1>4, <1>6, <1>7
<1> QED BY <1>2, <1>6, <1>8 DEF n, File

\* ListDir has what Stat has of each file in the directory.
LEMMA ListDirFacts ==
  ASSUME ListInv, NEW d \in Folders
  PROVE  /\ Distinct(ListDir(d))
         /\ \A e : e \in ToSet(ListDir(d)) <=>
              \E r \in ToSet(Dir(d)) : r.entry \in Readable /\ e \in ToSet(Stat(r.entry))
<1> PICK records : records = Dir(d)
  OBVIOUS
<1>1. records \in Seq(Records)
  BY DirFacts DEF ListInv
<1> DEFINE files == EachFile(records)
           n == Len(files)
           s == [k \in 1..n |-> IF files[k] \in Readable THEN Stat(files[k]) ELSE << >>]
<1>2. /\ Distinct(files)
      /\ \A f : f \in ToSet(files) <=> \E k \in 1..Len(records) : f = records[k].entry
  BY <1>1, EachFileFacts
<1>3. ListDir(d) = FlattenSeq(s)
  <2>1. DOMAIN files = 1..n
    BY <1>2, DistinctFacts
  <2> HIDE DEF files
  <2> QED BY <2>1 DEF ListDir, files
<1> HIDE DEF files
<1>4. /\ n \in Nat
      /\ \A f : f \in ToSet(files) <=> \E k \in 1..n : f = files[k]
      /\ \A j, k \in 1..n : files[j] = files[k] => j = k
  BY <1>2, DistinctFacts
<1> HIDE DEF n
<1>5. /\ s = [k \in 1..n |-> s[k]]
      /\ \A k \in 1..n : s[k] = IF files[k] \in Readable THEN Stat(files[k]) ELSE << >>
  OBVIOUS
<1> HIDE DEF s
<1>6. \A k \in 1..n :
        /\ Distinct(s[k])
        /\ \A e : e \in ToSet(s[k]) <=> files[k] \in Readable /\ e \in ToSet(Stat(files[k]))
        /\ \A e \in ToSet(s[k]) : e.entry = files[k]
  <2> SUFFICES ASSUME NEW k \in 1..n
               PROVE  /\ Distinct(s[k])
                      /\ \A e : e \in ToSet(s[k]) <=>
                           files[k] \in Readable /\ e \in ToSet(Stat(files[k]))
                      /\ \A e \in ToSet(s[k]) : e.entry = files[k]
    OBVIOUS
  <2>1. CASE files[k] \in Readable
    <3>1. s[k] = Stat(files[k])
      BY <1>5, <2>1
    <3>2. Distinct(Stat(files[k])) /\ \A e \in ToSet(Stat(files[k])) : e.entry = files[k]
      BY <2>1, StatFacts
    <3> QED BY <2>1, <3>1, <3>2
  <2>2. CASE files[k] \notin Readable
    <3>1. s[k] = << >>
      BY <1>5, <2>2
    <3> QED BY <2>2, <3>1, DistinctFew
  <2> QED BY <2>1, <2>2
<1>7. ASSUME NEW j \in 1..n, NEW k \in 1..n, NEW e \in ToSet(s[j]), e \in ToSet(s[k])
      PROVE  j = k
  BY <1>4, <1>6, <1>7
<1>8. /\ Distinct(FlattenSeq(s))
      /\ \A e : e \in ToSet(FlattenSeq(s)) <=> \E k \in 1..n : e \in ToSet(s[k])
  <2>1. \A k \in 1..n : Distinct(s[k])
    BY <1>6
  <2> QED BY <1>4, <1>5, <1>7, <2>1, DistinctAll
<1>9. \A r : r \in ToSet(records) <=> \E k \in 1..Len(records) : r = records[k]
  BY <1>1, Elements
<1>10. \A f : (\E k \in 1..n : f = files[k]) <=> \E r \in ToSet(records) : f = r.entry
  <2>1. \A f : (\E k \in 1..n : f = files[k]) <=> \E k \in 1..Len(records) : f = records[k].entry
    BY <1>2, <1>4
  <2>2. ASSUME NEW f
        PROVE  (\E k \in 1..Len(records) : f = records[k].entry)
                 <=> \E r \in ToSet(records) : f = r.entry
    BY <1>9
  <2> QED BY ONLY <2>1, <2>2
<1>11. ASSUME NEW e
       PROVE  e \in ToSet(FlattenSeq(s)) <=>
                \E r \in ToSet(records) : r.entry \in Readable /\ e \in ToSet(Stat(r.entry))
  <2> DEFINE Has(f) == f \in Readable /\ e \in ToSet(Stat(f))
  <2>1. \A k \in 1..n : e \in ToSet(s[k]) <=> Has(files[k])
    BY <1>6
  <2> HIDE DEF Has
  <2>2. e \in ToSet(FlattenSeq(s)) <=> \E k \in 1..n : Has(files[k])
    BY <1>8, <2>1
  <2>3. (\E k \in 1..n : Has(files[k])) <=> \E r \in ToSet(records) : Has(r.entry)
    BY ONLY <1>10
  <2> QED BY <2>2, <2>3 DEF Has
<1> QED BY <1>3, <1>8, <1>11

\* A line whose file has all its names in the directory leads back to it.
LEMMA LineLeadsBack ==
  ASSUME ListInv, NEW d \in Folders, NEW id \in Readable, NEW line \in ToSet(Stat(id)),
         OnlyIn(id, d)
  PROVE  /\ get_path_in_dir(line.name, d) = id
         /\ line.inode.components[2] = "DATA" =>
              /\ DataForInode(line.inode) # None
              /\ DataForInode(line.inode) = DataForPath(d, line.name, line.ads)
<1> PICK attrs, inode, ads : attrs = mft[id].attrs /\ inode = line.inode /\ ads = line.ads
  OBVIOUS
<1>1. /\ IndexInv /\ StreamsNamed(attrs) /\ id # None
  <2>1. id \in {x \in Ids : mft[x] # None}
    BY DEF Readable
  <2> QED BY <2>1, DirectoriesAssumption DEF ListInv, WellNamed
<1>2. PICK fn \in ToSet(mft[id].names) : line.name = fn.name
  BY StatFacts
<1>3. IsIn(fn, d, mft) /\ fn.parent = d
  BY DEF OnlyIn, IsIn
<1>4. get_path_in_dir(line.name, d) = id
  <2>1. IsIn(fn, fn.parent, mft) /\ fn.parent \in Folders /\ Lower[line.name] = Lower[fn.name]
    BY <1>2, <1>3
  <2>2. get_path_in_dir(line.name, fn.parent) = id
    BY <1>1, <2>1, NameIsFound
  <2> QED BY <1>3, <2>2
<1>5. ASSUME inode.components[2] = "DATA"
      PROVE  /\ DataForInode(inode) # None
             /\ DataForInode(inode) = DataForPath(d, line.name, ads)
  <2>1. PICK k \in 1..Len(attrs) :
          CanBegin(attrs[k]) /\ inode = Inode(id, attrs, k) /\ ads = Ads(attrs[k])
    BY <1>5, StatFacts
  <2>2. DataForInode(inode) = attrs[k]
    <3>1. /\ ParseMFTId(inode).entry = id
          /\ selectAttribute(attrs, ParseMFTId(inode)) = attrs[k]
      BY <1>1, <2>1, InodeReopens
    <3> QED BY <3>1 DEF DataForInode
  <2>3. attrs[k] # None
    BY <1>1, StreamFacts
  <2>4. DataForPath(d, line.name, ads) = attrs[k]
    <3> PICK q : q = [type |-> "DATA", id |-> Wildcard,
                      name |-> IF ads = << >> THEN Wildcard ELSE ads[1]]
      OBVIOUS
    <3>1. /\ q.type = "DATA" /\ q.id = Wildcard
          /\ q.name = IF Ads(attrs[k]) = << >> THEN Wildcard ELSE Ads(attrs[k])[1]
      BY <2>1
    <3>2. selectAttribute(attrs, q) = attrs[k]
      BY <1>1, <2>1, <3>1, NameReopens
    <3> QED BY <1>1, <1>4, <3>2 DEF DataForPath
  <2> QED BY <2>2, <2>3, <2>4
<1> QED BY <1>4, <1>5

-----------------------------------------------------------------------------
(* The volume that is listed *)

\* Until the first call of GetHardLinks, the names are as they were read.
Unread ==
  /\ calls \in Nat
  /\ calls = 0 => /\ call.pc = "idle" /\ stack = << >>
                  /\ \E v \in Volumes : mft = v.mft

LEMMA UnreadStep ==
  ASSUME Unread, [Next]_vars
  PROVE  Unread'
<1>1. CASE UNCHANGED vars
  BY <1>1 DEF Unread, vars
<1>2. CASE NextName \/ Leave
  <2>1. stack # << >> /\ UNCHANGED calls
    BY <1>2 DEF NextName, Leave
  <2> QED BY <2>1 DEF Unread
<1>3. CASE Return
  <2>1. call.pc = "busy" /\ UNCHANGED calls
    BY <1>3 DEF Return
  <2> QED BY <2>1 DEF Unread
<1>4. ASSUME NEW id \in Ids, NEW seq \in Seqs, Begin(id, seq)
      PROVE  Unread'
  <2>1. calls' = calls + 1
    BY <1>4 DEF Begin
  <2> QED BY <2>1 DEF Unread
<1> QED BY <1>1, <1>2, <1>3, <1>4 DEF Next, Step

\* What ListDir prints is complete, has no line twice, and can be opened: on
\* every volume whose streams and names can be told apart, the name of a line
\* in its directory (GetDataForPath, easy.go:124) and its inode (inode.go:10,
\* read by ParseMFTId, easy.go:92) lead to the same stream of the same file.
THEOREM LinesLeadBack == Spec => []LinesOpen
<1>1. Init => Unread
  BY DEF Init, Unread
<1>2. Unread /\ [Next]_vars => Unread'
  BY UnreadStep
<1>3. Unread => LinesOpen
  <2> SUFFICES ASSUME Unread, calls = 0, NEW d \in Folders
               PROVE  LET lines == ListDir(d)
                      IN /\ IsInjective(lines)
                         /\ \A r \in ToSet(IndexOf(d)) :
                              r.entry \in Readable /\ Stat(r.entry) # << >> =>
                                \E line \in ToSet(lines) : line.entry = r.entry
                         /\ \A line \in {x \in ToSet(lines) : OnlyIn(x.entry, d)} :
                              /\ get_path_in_dir(line.name, d) = line.entry
                              /\ line.inode.components[2] = "DATA" =>
                                   /\ DataForInode(line.inode) # None
                                   /\ DataForInode(line.inode)
                                        = DataForPath(d, line.name, line.ads)
    BY DEF LinesOpen
  <2>1. ListInv
    <3>1. PICK v \in Volumes : mft = v.mft
      BY DEF Unread
    <3>2. WellIndexed(mft) /\ WellNamed(mft)
      BY <3>1, DirectoriesAssumption, ListingAssumption
    <3>3. \A id \in Readable : mft[id].names \in Seq(FileNames)
      BY <3>1, VolumesAssumption DEF Readable, IsSummary
    <3> QED BY <3>2, <3>3 DEF ListInv, IndexInv
  <2> PICK lines : lines = ListDir(d)
    OBVIOUS
  <2>2. /\ Distinct(lines)
        /\ \A e : e \in ToSet(lines) <=>
             \E r \in ToSet(Dir(d)) : r.entry \in Readable /\ e \in ToSet(Stat(r.entry))
    BY <2>1, ListDirFacts
  <2>3. ASSUME NEW r \in ToSet(IndexOf(d)), r.entry \in Readable, Stat(r.entry) # << >>
        PROVE  \E line \in ToSet(lines) : line.entry = r.entry
    <3>1. r \in ToSet(Dir(d))
      BY <2>1, IndexFacts, DirFacts DEF ListInv
    <3> PICK id, stat : id = r.entry /\ stat = Stat(id)
      OBVIOUS
    <3>2. Distinct(stat) /\ \A e \in ToSet(stat) : e.entry = id
      BY <2>1, <2>3, StatFacts
    <3>3. 1 \in 1..Len(stat)
      BY <2>3, <3>2, DistinctFacts
    <3>4. stat[1] \in ToSet(stat)
      BY <3>2, <3>3, DistinctFacts
    <3> QED BY <2>2, <2>3, <3>1, <3>2, <3>4
  <2>4. ASSUME NEW line \in ToSet(lines), OnlyIn(line.entry, d)
        PROVE  /\ get_path_in_dir(line.name, d) = line.entry
               /\ line.inode.components[2] = "DATA" =>
                    /\ DataForInode(line.inode) # None
                    /\ DataForInode(line.inode) = DataForPath(d, line.name, line.ads)
    <3>1. PICK r \in ToSet(Dir(d)) : r.entry \in Readable /\ line \in ToSet(Stat(r.entry))
      BY <2>2
    <3> PICK id : id = r.entry
      OBVIOUS
    <3>2. id \in Readable /\ line \in ToSet(Stat(id))
      BY <3>1
    <3>3. line.entry = id
      BY <2>1, <3>2, StatFacts
    <3> QED BY <2>1, <2>4, <3>2, <3>3, LineLeadsBack
  <2> QED BY <2>2, <2>3, <2>4 DEF Distinct
<1> QED BY <1>1, <1>2, <1>3, PTL DEF Spec
=============================================================================

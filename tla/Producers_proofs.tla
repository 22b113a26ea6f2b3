-------------------------- MODULE Producers_proofs --------------------------
(***************************************************************************)
(* ParseMFT and Carver, for every table and every volume, every size of    *)
(* cluster and of buffer, and however slow the consumer is.                *)
(***************************************************************************)
EXTENDS Producers, Lemmas

-----------------------------------------------------------------------------
(* The inductive invariant: the channel *)

Sendable == IF Sweeps("mft") THEN Rows ELSE Items

\* Each slot holds an item or nothing, and so does what has been looked at.
ChannelInv ==
  /\ held \in Sendable \cup {None} /\ offered \in Sendable \cup {None}
  /\ seen \in Seq({seen[k] : k \in DOMAIN seen})
  /\ SeenItems \in Seq(Sendable)
  /\ cancelled \in BOOLEAN
  /\ pc \in {"next", "done", "read"} => offered = None

JobInv ==
  \/ \E t \in Tables : job = [kind |-> "mft", entries |-> t.entries, start |-> t.start]
  \/ \E v \in Volumes : job = [kind |-> "carve", disk |-> v.disk, size |-> v.size,
                               bad |-> v.bad, files |-> v.files]

-----------------------------------------------------------------------------
(* The inductive invariant: ParseMFT *)

Pieces == [name : Names, size : Nat]

\* The rows that some entries from the first one on must have.
RowsOfFirst(n) == FlattenSeq([k \in 1..n |-> RowsOf(job.start + k - 1)])

\* How many entries are behind the sweep when it is at one.
Behind(id) == IF id <= Len(job.entries) THEN id - job.start ELSE Len(job.entries) - job.start

\* How many rows those have.
Share(id) == Len(RowsOfFirst(Behind(id)))

Shown(row, name) == IF row.ads = NoName THEN <<name>> ELSE <<name, row.ads>>

\* A row that shows the names of its entry.
IsOfEntry(row) ==
  /\ row.entry < Len(job.entries)
  /\ Usable(job.entries[row.entry + 1])
  /\ LET names == job.entries[row.entry + 1].names
     IN row.names = [m \in DOMAIN names |-> Shown(row, names[m])]

\* Between the rows of an entry: the pieces that are left are those whose rows
\* have not been sent.
AdsLeft ==
  LET id == reg.id - 1
  IN /\ job.start <= id /\ id < Len(job.entries)
     /\ Usable(job.entries[id + 1]) /\ reg.row = RowOf(id, job.entries[id + 1])
     /\ Len(Sent) + Len(reg.ads) = Share(reg.id)
     /\ \A m \in DOMAIN reg.ads :
          /\ reg.ads[m].name # NoName
          /\ Wanted[Len(Sent) + m] = [entry |-> id, ads |-> reg.ads[m].name]

MFTReg ==
  /\ pc \in {"next", "ads", "done"}
  /\ reg \in [id : Nat, ads : Seq(Pieces), row : Rows \cup {None}]
  /\ job.start <= reg.id /\ (reg.id = job.start \/ reg.id <= Len(job.entries) + 1)

MFTSent ==
  /\ \A k \in DOMAIN Sent : IsOfEntry(Sent[k])
  /\ \A k \in DOMAIN seen : seen[k].path = PathOf(seen[k].row)
  /\ Len(Sent) <= Len(Wanted)
  /\ \A k \in DOMAIN Sent : Agrees(Sent[k], Wanted[k])

MFTPlace ==
  /\ pc = "next" => Len(Sent) = Share(reg.id)
  /\ pc = "ads" => AdsLeft
  /\ pc = "done" /\ ~ cancelled => Len(Sent) = Len(Wanted)

MFTInv == MFTReg /\ MFTSent /\ MFTPlace

-----------------------------------------------------------------------------
(* The inductive invariant: Carver *)

Aligned(b) == b % StepSize = 0

BaseOf(item) == item.at - item.pos

\* Every record that lies in what the buffer at b held, below a place of the
\* buffer, has been sent.
FoundBelow(b, place) ==
  \A k \in Starts :
    LET first == k - 1
    IN /\ b <= first /\ first < b + place
       /\ first + job.disk[k].record.length <= b + LengthAt(b)
       => \E n \in DOMAIN Sent : Sent[n].at = first /\ Sent[n].whole

\* Which part of the buffer the scan is through with.
Through == IF pc \in {"next", "done"} THEN BufferSize ELSE reg.j

\* The buffers are read, and searched, one behind the other.
CarveReg ==
  /\ pc \in {"next", "read", "scan", "done"}
  /\ reg = [i |-> reg.i, j |-> reg.j, old |-> reg.old, buffer |-> reg.buffer]
  /\ reg.i \in Nat /\ reg.j \in 0..BufferSize
  /\ reg.buffer \in [base : Nat, length : Nat]
  /\ reg.i = 0 => pc \in {"next", "done"} /\ reg.buffer = Blank
  /\ reg.i > 0 => /\ reg.i = reg.buffer.base + StepSize
                  /\ reg.buffer.length = LengthAt(reg.buffer.base)
  /\ Aligned(reg.buffer.base)

CarveSent ==
  /\ reg.i = 0 => Len(Sent) = 0
  /\ \A n \in DOMAIN Sent :
       /\ Aligned(BaseOf(Sent[n])) /\ 0 <= BaseOf(Sent[n])
       /\ BaseOf(Sent[n]) <= reg.buffer.base
       /\ Sent[n].pos < BufferSize
       /\ BaseOf(Sent[n]) = reg.buffer.base => Sent[n].pos < Through
  /\ \A m, n \in DOMAIN Sent : m < n =>
       \/ BaseOf(Sent[m]) < BaseOf(Sent[n])
       \/ BaseOf(Sent[m]) = BaseOf(Sent[n]) /\ Sent[m].pos < Sent[n].pos

CarveFound ==
  ~ cancelled /\ reg.i > 0 =>
    /\ \A b \in Nat : b < reg.buffer.base /\ Aligned(b) => FoundBelow(b, BufferSize)
    /\ FoundBelow(reg.buffer.base, Through)

CarveInv == CarveReg /\ CarveSent /\ CarveFound

IInv ==
  /\ ChannelInv /\ JobInv
  /\ Sweeps("mft") => MFTInv
  /\ Sweeps("carve") => CarveInv

-----------------------------------------------------------------------------
(* Sequences *)

LEMMA FlattenIs ==
  ASSUME NEW R, NEW s \in Seq(R), s # << >>
  PROVE  \E f : Flattens(f, s, Len(s)) /\ FlattenSeq(s) = f[Len(s)]
<1> DEFINE f == CHOOSE f : f = [i \in 1..Len(s) |-> IF i = 1 THEN s[i] ELSE f[i - 1] \o s[i]]
<1>1. Len(s) \in Nat /\ Len(s) # 0
  BY ListFacts
<1>2. FlattenSeq(s) = f[Len(s)]
  BY <1>1 DEF FlattenSeq
<1>3. Flattens(f, s, Len(s))
  BY <1>1, FlattensExists DEF Flattens
<1> QED BY <1>2, <1>3

LEMMA FlattenNone == FlattenSeq(<< >>) = << >>
BY DEF FlattenSeq

LEMMA FlattenAppend ==
  ASSUME NEW R, NEW s \in Seq(Seq(R)), NEW e \in Seq(R)
  PROVE  FlattenSeq(Append(s, e)) = FlattenSeq(s) \o e
<1> DEFINE t == Append(s, e)
           n == Len(s)
<1>1. /\ t \in Seq(Seq(R)) /\ t # << >> /\ n \in Nat /\ Len(t) = n + 1
      /\ \A i \in 1..n : s[i] = t[i]
      /\ t[n + 1] = e /\ n + 1 \in 1..(n + 1)
  <2> DEFINE Q == Seq(R)
  <2>1. s \in Seq(Q) /\ e \in Q
    OBVIOUS
  <2> HIDE DEF Q
  <2>2. /\ n \in Nat /\ t \in Seq(Q) /\ Len(t) = n + 1 /\ t[n + 1] = e
        /\ \A i \in 1..n : t[i] = s[i]
    BY <2>1, ListFacts
  <2>3. t # << >>
    <3> SUFFICES ASSUME t = << >> PROVE FALSE
      OBVIOUS
    <3>1. Len(<< >>) = 0
      OBVIOUS
    <3> HIDE DEF t, n
    <3> QED BY <2>2, <3>1
  <2> QED BY <2>2, <2>3 DEF Q
<1>2. PICK g : Flattens(g, t, n + 1) /\ FlattenSeq(t) = g[n + 1]
  <2> HIDE DEF t
  <2> QED BY <1>1, FlattenIs
<1> HIDE DEF t
<1>3. g[n + 1] = IF n + 1 = 1 THEN t[n + 1] ELSE g[(n + 1) - 1] \o t[n + 1]
  BY <1>1, <1>2 DEF Flattens
<1>4. CASE s = << >>
  <2>1. n = 0 /\ FlattenSeq(s) = << >>
    BY <1>1, <1>4, ListFacts, FlattenNone
  <2>2. << >> \o e = e
    OBVIOUS
  <2> QED BY <1>1, <1>2, <1>3, <2>1, <2>2 DEF t
<1>5. CASE s # << >>
  <2>1. PICK f : Flattens(f, s, n) /\ FlattenSeq(s) = f[n]
    BY <1>5, FlattenIs
  <2>2. n # 0
    BY <1>5, ListFacts
  <2>3. f[n] = g[n]
    <3>1. n \in 1..n /\ n + 1 \in Nat /\ n <= n + 1
      BY <1>1, <2>2
    <3> HIDE DEF n
    <3>2. \A i \in 1..n : f[i] = g[i]
      BY <1>1, <1>2, <2>1, <3>1, FlattensSame
    <3> QED BY <3>1, <3>2
  <2>4. (n + 1) - 1 = n /\ n + 1 # 1
    BY <1>1, <2>2
  <2> QED BY <1>1, <1>2, <1>3, <2>1, <2>3, <2>4 DEF t
<1> QED BY <1>4, <1>5

LEMMA FlattenNext ==
  ASSUME NEW R, NEW n \in Nat, NEW g, \A k \in 1..(n + 1) : g[k] \in Seq(R)
  PROVE  /\ [k \in 1..n |-> g[k]] \in Seq(Seq(R))
         /\ FlattenSeq([k \in 1..(n + 1) |-> g[k]])
              = FlattenSeq([k \in 1..n |-> g[k]]) \o g[n + 1]
<1> DEFINE Q == Seq(R)
           s == [k \in 1..n |-> g[k]]
           t == [k \in 1..(n + 1) |-> g[k]]
           u == Append(s, g[n + 1])
<1>1. /\ g[n + 1] \in Q /\ \A k \in 1..n : g[k] \in Q
      /\ \A k \in 1..(n + 1) : g[k] \in Q /\ (k \in 1..n \/ k = n + 1)
  BY DEF Q
<1> HIDE DEF Q
<1>2. /\ s \in Seq(Q) /\ Len(s) = n /\ t \in Seq(Q) /\ Len(t) = n + 1
      /\ \A k \in 1..n : s[k] = g[k]
      /\ \A k \in 1..(n + 1) : t[k] = g[k]
  BY <1>1
<1> HIDE DEF s, t
<1>3. /\ u \in Seq(Q) /\ Len(u) = n + 1 /\ u[n + 1] = g[n + 1]
      /\ \A k \in 1..n : u[k] = g[k]
  BY <1>1, <1>2, ListFacts
<1> HIDE DEF u
<1>4. t = u
  BY <1>1, <1>2, <1>3, SameSeq
<1>5. FlattenSeq(u) = FlattenSeq(s) \o g[n + 1]
  BY <1>1, <1>2, FlattenAppend DEF u, Q
<1> QED BY <1>2, <1>4, <1>5 DEF Q, s, t

-----------------------------------------------------------------------------
(* The channel *)

LEMMA SendableFacts == None \notin Sendable
BY NoneAssumption DEF Sendable

LEMMA SentFacts ==
  ASSUME ChannelInv
  PROVE  /\ Sent \in Seq(Sendable) /\ Len(Sent) \in Nat /\ DOMAIN Sent = 1..Len(Sent)
         /\ \A k \in DOMAIN Sent : Sent[k] \in Sendable
         /\ DOMAIN SeenItems = DOMAIN seen /\ DOMAIN seen = 1..Len(seen) /\ Len(seen) \in Nat
         /\ \A k \in DOMAIN seen : k \in DOMAIN Sent /\ Sent[k] = SeenItems[k]
         /\ held # None => \E k \in DOMAIN Sent : Sent[k] = held
<1> DEFINE H == Waiting(held)
           O == Waiting(offered)
<1>1. /\ H \in Seq(Sendable) /\ O \in Seq(Sendable)
      /\ held # None => Len(H) = 1 /\ H[1] = held
  BY DEF ChannelInv, Waiting
<1>2. SeenItems \in Seq(Sendable) /\ DOMAIN SeenItems = DOMAIN seen
  BY DEF ChannelInv, SeenItems
<1>3. DOMAIN seen = 1..Len(seen) /\ Len(seen) \in Nat
  BY ListFacts DEF ChannelInv
<1>4. Len(SeenItems) = Len(seen)
  BY <1>2, <1>3, ListFacts
<1>5. Sent = (SeenItems \o H) \o O
  BY DEF Sent
<1> HIDE DEF H, O
<1>6. /\ SeenItems \o H \in Seq(Sendable)
      /\ Len(SeenItems \o H) = Len(SeenItems) + Len(H)
      /\ \A k \in 1..Len(SeenItems) : (SeenItems \o H)[k] = SeenItems[k]
      /\ \A k \in 1..Len(H) : (SeenItems \o H)[Len(SeenItems) + k] = H[k]
  BY <1>1, <1>2, ConcatFacts
<1>7. /\ Sent \in Seq(Sendable)
      /\ Len(Sent) = Len(SeenItems \o H) + Len(O)
      /\ \A k \in 1..Len(SeenItems \o H) : Sent[k] = (SeenItems \o H)[k]
  BY <1>1, <1>5, <1>6, ConcatFacts
<1>8. /\ Len(Sent) \in Nat /\ DOMAIN Sent = 1..Len(Sent)
      /\ Len(H) \in Nat /\ Len(O) \in Nat /\ Len(SeenItems) \in Nat
      /\ \A k \in DOMAIN Sent : Sent[k] \in Sendable
  BY <1>1, <1>2, <1>7, ListFacts
<1>9. ASSUME NEW k \in DOMAIN seen PROVE k \in DOMAIN Sent /\ Sent[k] = SeenItems[k]
  <2>1. k \in 1..Len(SeenItems) /\ k \in 1..Len(SeenItems \o H)
    BY <1>3, <1>4, <1>6, <1>8
  <2> QED BY <1>6, <1>7, <1>8, <2>1
<1>10. ASSUME held # None PROVE \E k \in DOMAIN Sent : Sent[k] = held
  <2> DEFINE k == Len(SeenItems) + 1
  <2>0. Len(H) = 1 /\ H[1] = held /\ 1 \in 1..Len(H)
    <3>1. Len(H) = 1 /\ H[1] = held
      BY <1>1, <1>10, Zenon
    <3> QED BY <3>1
  <2>1. k \in 1..Len(SeenItems \o H) /\ k \in DOMAIN Sent
    <3>1. k \in Nat /\ 1 <= k /\ k = Len(SeenItems \o H)
      BY <1>6, <1>8, <2>0
    <3>2. k <= Len(Sent)
      <4> HIDE DEF k
      <4> QED BY <1>7, <1>8, <3>1
    <3> HIDE DEF k
    <3> QED BY <1>8, <3>1, <3>2
  <2>2. (SeenItems \o H)[k] = held
    BY <1>6, <2>0
  <2> QED BY <1>7, <2>1, <2>2
<1> QED BY <1>2, <1>3, <1>7, <1>8, <1>9, <1>10

\* A step that leaves the channel alone.
LEMMA QuietStep ==
  ASSUME ChannelInv, UNCHANGED <<job, offered, consumer>>, cancelled' \in BOOLEAN,
         pc' \in {"next", "done", "read"} => offered = None
  PROVE  ChannelInv' /\ Sent' = Sent /\ UNCHANGED <<held, seen>>
BY DEF ChannelInv, Sendable, Sweeps, SeenItems, Sent, Waiting, consumer

LEMMA OfferStep ==
  ASSUME ChannelInv, offered = None, job' = job, NEW item \in Sendable,
         NEW place \in {"ads", "scan"}, NEW locals, Offer(item, place, locals)
  PROVE  /\ ChannelInv' /\ UNCHANGED <<held, seen>>
         /\ Sent' = Append(Sent, item) /\ Len(Sent') = Len(Sent) + 1
         /\ \A k \in DOMAIN Sent : Sent'[k] = Sent[k]
         /\ Sent'[Len(Sent) + 1] = item
<1>1. /\ item # None /\ offered' = item /\ Sendable' = Sendable /\ SeenItems' = SeenItems
      /\ held' = held /\ seen' = seen /\ cancelled' = cancelled /\ pc' = place
  BY SendableFacts DEF Offer, consumer, Sendable, Sweeps, SeenItems
<1>2. ChannelInv'
  BY <1>1 DEF ChannelInv
<1> DEFINE H == Waiting(held)
<1>3. H \in Seq(Sendable) /\ SeenItems \in Seq(Sendable)
  BY DEF ChannelInv, Waiting
<1>4. Sent = (SeenItems \o H) \o << >> /\ Sent' = (SeenItems \o H) \o <<item>>
  BY <1>1 DEF Sent, Waiting
<1> HIDE DEF H
<1>5. Sent' = Append(Sent, item)
  <2>1. SeenItems \o H \in Seq(Sendable)
    BY <1>3, ConcatFacts
  <2> DEFINE s == SeenItems \o H
  <2> HIDE DEF s
  <2>2. s \o << >> = s /\ s \o <<item>> = Append(s, item)
    BY <2>1 DEF s
  <2> QED BY <1>4, <2>2 DEF s
<1>6. Sent \in Seq(Sendable) /\ DOMAIN Sent = 1..Len(Sent)
  BY SentFacts
<1> QED BY <1>1, <1>2, <1>5, <1>6, ListFacts

\* The rendezvous moves an item on.
LEMMA ReceiveStep ==
  ASSUME ChannelInv, Receive PROVE ChannelInv' /\ Sent' = Sent /\ UNCHANGED <<seen, cancelled>>
<1>1. /\ held = None /\ offered # None /\ held' = offered /\ offered' = None
      /\ Sendable' = Sendable /\ SeenItems' = SeenItems
      /\ seen' = seen /\ cancelled' = cancelled /\ pc' = pc
  BY DEF Receive, Sendable, Sweeps, SeenItems
<1>2. ChannelInv'
  BY <1>1 DEF ChannelInv
<1>3. SeenItems \in Seq(Sendable) /\ <<offered>> \in Seq(Sendable)
  BY <1>1 DEF ChannelInv
<1>4. (SeenItems \o << >>) \o <<offered>> = (SeenItems \o <<offered>>) \o << >>
  BY <1>3
<1> QED BY <1>1, <1>2, <1>4 DEF Sent, Waiting

\* What is looked at has been sent before.
LEMMA LookStep ==
  ASSUME ChannelInv, NEW value, Look(value),
         held = IF Sweeps("mft") THEN value.row ELSE value.item
  PROVE  /\ ChannelInv' /\ Sent' = Sent
         /\ DOMAIN seen' = DOMAIN seen \cup {Len(seen) + 1}
         /\ \A k \in DOMAIN seen : seen'[k] = seen[k]
         /\ seen'[Len(seen) + 1] = value
<1> DEFINE V == {seen[k] : k \in DOMAIN seen}
           n == Len(seen)
<1>1. /\ held # None /\ held' = None /\ seen' = Append(seen, value) /\ Sendable' = Sendable
      /\ UNCHANGED <<job, pc, offered, cancelled>> /\ held \in Sendable
      /\ \A kind : Sweeps(kind)' = Sweeps(kind)
  BY DEF Look, Sendable, Sweeps, ChannelInv, producer
<1>2. /\ seen \in Seq(V) /\ n \in Nat /\ DOMAIN seen = 1..n
      /\ SeenItems \in Seq(Sendable) /\ Len(SeenItems) = n /\ DOMAIN SeenItems = 1..n
  <2>1. seen \in Seq(V) /\ SeenItems \in Seq(Sendable) /\ DOMAIN SeenItems = DOMAIN seen
    BY DEF ChannelInv, SeenItems
  <2> HIDE DEF V
  <2> QED BY <2>1, ListFacts
<1>3. /\ seen' \in Seq(V \cup {value}) /\ Len(seen') = n + 1
      /\ DOMAIN seen' = 1..(n + 1)
      /\ \A k \in 1..n : seen'[k] = seen[k]
      /\ seen'[n + 1] = value
  <2>1. seen \in Seq(V \cup {value})
    <3>1. seen = [k \in 1..n |-> seen[k]] /\ \A k \in 1..n : seen[k] \in V
      BY <1>2
    <3> HIDE DEF V, n
    <3> QED BY <1>2, <3>1, IsSeq
  <2> HIDE DEF V
  <2> QED BY <1>1, <2>1, ListFacts
<1> HIDE DEF n
<1>4. V \cup {value} = {seen'[k] : k \in DOMAIN seen'}
  <2>1. \A k \in 1..(n + 1) : k \in 1..n \/ k = n + 1
    BY <1>2
  <2>2. \A k \in 1..n : k \in 1..(n + 1)
    BY <1>2
  <2>3. n + 1 \in 1..(n + 1)
    BY <1>2
  <2> QED BY <1>2, <1>3, <2>1, <2>2, <2>3
<1>5. SeenItems' = Append(SeenItems, held)
  <2> DEFINE t == Append(SeenItems, held)
  <2>1. /\ t \in Seq(Sendable) /\ Len(t) = n + 1
        /\ \A k \in 1..n : t[k] = SeenItems[k]
        /\ t[n + 1] = held
    BY <1>1, <1>2, ListFacts
  <2>2. t = [k \in 1..(n + 1) |-> t[k]]
    BY <2>1, ListFacts
  <2>3. SeenItems' = [k \in 1..(n + 1) |->
                       IF Sweeps("mft") THEN seen'[k].row ELSE seen'[k].item]
    BY <1>1, <1>3 DEF SeenItems
  <2>4. \A k \in 1..n : SeenItems[k] = IF Sweeps("mft") THEN seen[k].row ELSE seen[k].item
    BY <1>2 DEF SeenItems
  <2>5. ASSUME NEW k \in 1..(n + 1)
        PROVE  t[k] = IF Sweeps("mft") THEN seen'[k].row ELSE seen'[k].item
    <3>1. CASE k \in 1..n
      BY <1>3, <2>1, <2>4, <3>1
    <3>2. CASE k = n + 1
      BY <1>3, <2>1, <3>2
    <3> QED BY <1>2, <3>1, <3>2
  <2> HIDE DEF t
  <2> QED BY <2>2, <2>3, <2>5 DEF t
<1>6. SeenItems' \in Seq(Sendable)
  BY <1>1, <1>2, <1>5, ListFacts
<1>7. ChannelInv'
  BY <1>1, <1>3, <1>4, <1>6 DEF ChannelInv
<1>8. Sent' = Sent
  <2>1. Append(SeenItems, held) \o << >> = SeenItems \o <<held>>
    BY <1>1, <1>2
  <2> QED BY <1>1, <1>5, <2>1 DEF Sent, Waiting
<1>9. 1..(n + 1) = 1..n \cup {n + 1}
  BY <1>2
<1> QED BY <1>2, <1>3, <1>7, <1>8, <1>9 DEF n

\* The item in the select is dropped.
LEMMA CancelSendStep ==
  ASSUME ChannelInv, CancelSend
  PROVE  /\ ChannelInv' /\ cancelled /\ UNCHANGED <<job, reg, held, seen, cancelled>>
         /\ pc' = "done" /\ Len(Sent') <= Len(Sent) /\ Len(Sent') \in Nat
         /\ \A k \in DOMAIN Sent' : k \in DOMAIN Sent /\ Sent'[k] = Sent[k]
<1>1. /\ offered # None /\ cancelled /\ offered' = None /\ Sendable' = Sendable
      /\ SeenItems' = SeenItems /\ UNCHANGED <<job, reg, held, seen, cancelled>> /\ pc' = "done"
  BY DEF CancelSend, consumer, Sendable, Sweeps, SeenItems
<1>2. ChannelInv'
  BY <1>1 DEF ChannelInv
<1> DEFINE s == SeenItems \o Waiting(held)
<1>3. s \in Seq(Sendable) /\ <<offered>> \in Seq(Sendable)
  <2>1. Waiting(held) \in Seq(Sendable) /\ SeenItems \in Seq(Sendable)
    BY DEF ChannelInv, Waiting
  <2>2. <<offered>> \in Seq(Sendable)
    BY <1>1 DEF ChannelInv
  <2> QED BY <2>1, <2>2, ConcatFacts
<1>4. Sent = s \o <<offered>> /\ Sent' = s \o << >>
  BY <1>1 DEF Sent, Waiting
<1> HIDE DEF s
<1>5. Sent' = s /\ Len(Sent) = Len(s) + 1 /\ Len(s) \in Nat /\ DOMAIN s = 1..Len(s)
      /\ \A k \in 1..Len(s) : Sent[k] = s[k]
  BY <1>3, <1>4
<1>6. DOMAIN Sent = 1..Len(Sent)
  BY SentFacts
<1>7. \A k \in DOMAIN Sent' : k \in DOMAIN Sent /\ Sent'[k] = Sent[k]
  BY <1>5, <1>6
<1> QED BY <1>1, <1>2, <1>5, <1>7

-----------------------------------------------------------------------------
(* The rows of a table *)

Wants == [entry : Nat, ads : Names]

StreamRow(id, d) == [entry |-> id, ads |-> d.name]

PieceRow(id, d) == IF d.name = NoName THEN << >> ELSE <<StreamRow(id, d)>>

\* The alternate streams behind a piece of the data, of those before it.
With(before, d) == IF d.name # NoName THEN Append(before, d) ELSE before

\* What ads is in AdsOf.
Gathers(f, data, n) == f = [i \in 0..n |-> IF i = 0 THEN << >> ELSE With(f[i - 1], data[i])]

LEMMA GathersExists ==
  ASSUME NEW data, NEW n \in Nat
  PROVE  \E f : Gathers(f, data, n)
<1> DEFINE S == {m \in Nat : \E f : Gathers(f, data, m)}
<1>1. 0 \in S
  <2> DEFINE f == [i \in 0..0 |-> << >>]
  <2>1. Gathers(f, data, 0)
    BY DEF Gathers
  <2> QED BY <2>1
<1>2. ASSUME NEW m \in Nat, m \in S PROVE m + 1 \in S
  <2>1. PICK f : Gathers(f, data, m)
    BY <1>2
  <2> DEFINE g == [i \in 0..(m + 1) |->
                     IF i # m + 1 THEN f[i] ELSE With(f[i - 1], data[i])]
             h == [i \in 0..(m + 1) |-> IF i = 0 THEN << >> ELSE With(g[i - 1], data[i])]
  <2>2. ASSUME NEW i \in 0..(m + 1) PROVE g[i] = h[i]
    <3>1. i = 0 \/ (i - 1 \in 0..(m + 1) /\ i - 1 # m + 1)
      OBVIOUS
    <3>2. i # 0 => g[i - 1] = f[i - 1]
      BY <3>1
    <3>3. CASE i = m + 1
      BY <3>2, <3>3
    <3>4. CASE i # m + 1
      <4>1. i \in 0..m
        BY <3>4
      <4>2. f[i] = IF i = 0 THEN << >> ELSE With(f[i - 1], data[i])
        BY <2>1, <4>1 DEF Gathers
      <4> QED BY <3>2, <3>4, <4>2
    <3> QED BY <3>3, <3>4
  <2>3. g = [i \in 0..(m + 1) |-> g[i]] /\ h = [i \in 0..(m + 1) |-> h[i]]
    OBVIOUS
  <2>4. g = h
    <3> HIDE DEF g, h
    <3> QED BY <2>2, <2>3
  <2>5. Gathers(g, data, m + 1)
    <3> HIDE DEF g
    <3> QED BY <2>4 DEF Gathers, h
  <2> QED BY <2>5
<1> HIDE DEF S
<1>3. n \in S
  BY <1>1, <1>2, SetInduction DEF S
<1> QED BY <1>3 DEF S

\* Each alternate stream has its row, in order.
Match(ads, rows, id) ==
  /\ ads \in Seq(Pieces) /\ rows \in Seq(Wants) /\ Len(rows) = Len(ads)
  /\ \A m \in 1..Len(ads) :
       ads[m].name # NoName /\ rows[m] = StreamRow(id, ads[m])

LEMMA MatchNone == ASSUME NEW id PROVE Match(<< >>, << >>, id)
BY DEF Match

LEMMA PieceRowType ==
  ASSUME NEW id \in Nat, NEW d \in Pieces
  PROVE  StreamRow(id, d) \in Wants /\ PieceRow(id, d) \in Seq(Wants)
<1>1. StreamRow(id, d) \in Wants
  BY DEF StreamRow, Wants, Pieces
<1>2. <<StreamRow(id, d)>> \in Seq(Wants) /\ << >> \in Seq(Wants)
  BY <1>1
<1> QED BY <1>1, <1>2 DEF PieceRow

LEMMA ConcatNone == ASSUME NEW R, NEW s \in Seq(R) PROVE s \o << >> = s
OBVIOUS

LEMMA ConcatOne ==
  ASSUME NEW R, NEW s \in Seq(R), NEW e \in R PROVE s \o <<e>> = Append(s, e)
OBVIOUS

LEMMA PushFacts ==
  ASSUME NEW R, NEW s \in Seq(R), NEW e \in R
  PROVE  /\ Append(s, e) \in Seq(R) /\ Len(Append(s, e)) = Len(s) + 1
         /\ \A k \in 1..Len(s) : Append(s, e)[k] = s[k]
         /\ Append(s, e)[Len(s) + 1] = e
         /\ \A k \in 1..(Len(s) + 1) : k \in 1..Len(s) \/ k = Len(s) + 1
OBVIOUS

LEMMA NextNumbers ==
  ASSUME NEW n \in Nat
  PROVE  /\ \A k \in 1..(n + 1) : k \in 1..n \/ k = n + 1
         /\ n + 1 \in 1..(n + 1) /\ \A k \in 1..n : k \in 1..(n + 1)
OBVIOUS

LEMMA MatchNext ==
  ASSUME NEW id \in Nat, NEW d \in Pieces, NEW a, NEW s, Match(a, s, id)
  PROVE  Match(With(a, d), s \o PieceRow(id, d), id)
<1>0. a \in Seq(Pieces) /\ s \in Seq(Wants) /\ Len(s) = Len(a)
  BY DEF Match
<1>1. \A m \in 1..Len(a) : a[m].name # NoName /\ s[m] = StreamRow(id, a[m])
  BY DEF Match
<1>2. CASE d.name = NoName
  <2>1. s \o << >> = s
    BY <1>0, ConcatNone
  <2> QED BY <1>2, <2>1 DEF With, PieceRow
<1>3. CASE d.name # NoName
  <2> DEFINE w == StreamRow(id, d)
             t == Append(s, w)
             b == Append(a, d)
             n == Len(a)
  <2>1. w \in Wants
    BY PieceRowType
  <2>2. With(a, d) = b /\ PieceRow(id, d) = <<w>>
    BY <1>3 DEF With, PieceRow
  <2>3. s \o <<w>> = t
    BY <1>0, <2>1, ConcatOne
  <2>4. /\ t \in Seq(Wants) /\ Len(t) = Len(s) + 1 /\ t[Len(s) + 1] = w
        /\ \A m \in 1..Len(s) : t[m] = s[m]
    BY <1>0, <2>1, PushFacts
  <2>5. /\ b \in Seq(Pieces) /\ Len(b) = n + 1 /\ b[n + 1] = d
        /\ \A m \in 1..n : b[m] = a[m]
        /\ \A m \in 1..(n + 1) : m \in 1..n \/ m = n + 1
    BY <1>0, PushFacts
  <2>6. Len(s) = n
    BY <1>0
  <2> HIDE DEF t, b, n
  <2>7. ASSUME NEW m \in 1..(n + 1) PROVE b[m].name # NoName /\ t[m] = StreamRow(id, b[m])
    <3>1. CASE m \in 1..n
      <4>1. a[m].name # NoName /\ s[m] = StreamRow(id, a[m])
        BY <1>1, <3>1 DEF n
      <4> QED BY <2>4, <2>5, <2>6, <3>1, <4>1
    <3>2. CASE m = n + 1
      BY <1>3, <2>4, <2>5, <2>6, <3>2
    <3> QED BY <2>5, <3>1, <3>2
  <2>8. Match(b, t, id)
    BY <2>4, <2>5, <2>6, <2>7 DEF Match
  <2> QED BY <2>2, <2>3, <2>8
<1> QED BY <1>2, <1>3

RowsOfPieces(id, data) == FlattenSeq([k \in 1..Len(data) |-> PieceRow(id, data[k])])

LEMMA AdsFacts ==
  ASSUME NEW data \in Seq(Pieces), NEW id \in Nat
  PROVE  Match(AdsOf(data), RowsOfPieces(id, data), id)
<1> DEFINE ads == CHOOSE f : Gathers(f, data, Len(data))
           g == [k \in 1..Len(data) |-> PieceRow(id, data[k])]
           F(n) == FlattenSeq([k \in 1..n |-> g[k]])
           S == {n \in Nat : n <= Len(data) => Match(ads[n], F(n), id)}
<1>1. Len(data) \in Nat /\ \A k \in 1..Len(data) : data[k] \in Pieces
  BY ListFacts
<1>2. AdsOf(data) = ads[Len(data)]
  BY DEF AdsOf, Gathers, With
<1>3. Gathers(ads, data, Len(data))
  BY <1>1, GathersExists
<1> HIDE DEF ads
<1>4. ads[0] = << >> /\ \A n \in 1..Len(data) : ads[n] = With(ads[n - 1], data[n])
  <2>1. \A n \in 0..Len(data) : ads[n] = IF n = 0 THEN << >> ELSE With(ads[n - 1], data[n])
    BY <1>3 DEF Gathers
  <2>2. 0 \in 0..Len(data) /\ \A n \in 1..Len(data) : n \in 0..Len(data) /\ n # 0
    BY <1>1
  <2> QED BY <2>1, <2>2
<1>5. \A k \in 1..Len(data) : g[k] = PieceRow(id, data[k]) /\ g[k] \in Seq(Wants)
  BY <1>1, PieceRowType
<1>6. RowsOfPieces(id, data) = F(Len(data))
  BY DEF RowsOfPieces
<1> HIDE DEF g
<1>7. 0 \in S
  <2>1. F(0) = << >>
    <3>1. [k \in 1..0 |-> g[k]] = << >>
      OBVIOUS
    <3> QED BY <3>1, FlattenNone
  <2> HIDE DEF F
  <2> QED BY <1>4, <2>1, MatchNone
<1>8. ASSUME NEW n \in Nat, n \in S PROVE n + 1 \in S
  <2> HIDE DEF F
  <2> SUFFICES ASSUME n + 1 <= Len(data) PROVE Match(ads[n + 1], F(n + 1), id)
    BY <1>8
  <2>1. /\ n + 1 \in 1..Len(data) /\ (n + 1) - 1 = n /\ n <= Len(data)
        /\ \A k \in 1..(n + 1) : k \in 1..Len(data)
    BY <1>1
  <2>2. Match(ads[n], F(n), id)
    BY <1>8, <2>1
  <2>3. F(n + 1) = F(n) \o g[n + 1]
    BY <1>5, <2>1, FlattenNext DEF F
  <2>4. ads[n + 1] = With(ads[n], data[n + 1])
    BY <1>4, <2>1
  <2> QED BY <1>1, <1>5, <2>1, <2>2, <2>3, <2>4, MatchNext
<1>9. Match(ads[Len(data)], F(Len(data)), id)
  <2> HIDE DEF F
  <2>1. S = Nat
    <3> HIDE DEF S
    <3> QED BY <1>7, <1>8, SetInduction DEF S
  <2>2. Len(data) \in S
    BY <1>1, <2>1
  <2> QED BY <1>1, <2>2
<1> QED BY <1>2, <1>6, <1>9

\* A job of ParseMFT.
Mft == JobInv /\ Sweeps("mft")

LEMMA TableFacts ==
  ASSUME Mft
  PROVE  /\ job.start \in Nat /\ job.entries \in Seq(MFTEntries \cup {None})
         /\ Len(job.entries) \in Nat
         /\ \A k \in 1..Len(job.entries) : job.entries[k] \in MFTEntries \cup {None}
         /\ ~ Sweeps("carve")
<1>1. PICK t \in Tables : job = [kind |-> "mft", entries |-> t.entries, start |-> t.start]
  BY DEF Mft, JobInv, Sweeps
<1>2. job.start \in Nat /\ job.entries \in Seq(MFTEntries \cup {None}) /\ ~ Sweeps("carve")
  BY <1>1, TablesAssumption DEF Sweeps
<1> QED BY <1>2, ListFacts

LEMMA UsableFacts ==
  ASSUME NEW entry \in MFTEntries \cup {None}, Usable(entry)
  PROVE  /\ entry \in MFTEntries /\ entry.data \in Seq(Pieces)
         /\ entry.names \in Seq(Names) /\ entry.names # << >>
BY DEF Usable, MFTEntries, Pieces

OwnRow(id) == [entry |-> id, ads |-> NoName]

LEMMA RowsOfFacts ==
  ASSUME Mft, NEW id \in Nat, id < Len(job.entries)
  PROVE  LET entry == job.entries[id + 1]
         IN /\ entry \in MFTEntries \cup {None}
            /\ RowsOf(id) \in Seq(Wants)
            /\ ~ Usable(entry) => RowsOf(id) = << >>
            /\ Usable(entry) => RowsOf(id) = <<OwnRow(id)>> \o RowsOfPieces(id, entry.data)
<1> DEFINE entry == job.entries[id + 1]
<1>1. entry \in MFTEntries \cup {None}
  <2>1. id + 1 \in 1..Len(job.entries)
    BY TableFacts
  <2> QED BY <2>1, TableFacts
<1>2. RowsOf(id) = IF ~ Usable(entry) THEN << >>
                   ELSE <<OwnRow(id)>>
                          \o FlattenSeq([k \in DOMAIN entry.data |-> PieceRow(id, entry.data[k])])
  BY DEF RowsOf, Usable, OwnRow, PieceRow, StreamRow
<1> HIDE DEF entry
<1>3. CASE ~ Usable(entry)
  <2>1. << >> \in Seq(Wants)
    OBVIOUS
  <2> QED BY <1>1, <1>2, <1>3, <2>1 DEF entry
<1>4. CASE Usable(entry)
  <2>1. entry.data \in Seq(Pieces)
    BY <1>1, <1>4, UsableFacts
  <2>2. DOMAIN entry.data = 1..Len(entry.data)
    BY <2>1, ListFacts
  <2>3. RowsOf(id) = <<OwnRow(id)>> \o RowsOfPieces(id, entry.data)
    BY <1>2, <1>4, <2>2 DEF RowsOfPieces
  <2>4. RowsOfPieces(id, entry.data) \in Seq(Wants)
    BY <2>1, AdsFacts DEF Match
  <2>5. OwnRow(id) \in Wants
    BY DEF OwnRow, Wants, Names
  <2>6. <<OwnRow(id)>> \in Seq(Wants)
    BY <2>5
  <2>7. RowsOf(id) \in Seq(Wants)
    BY <2>3, <2>4, <2>6, ConcatFacts
  <2> QED BY <1>1, <1>4, <2>3, <2>7 DEF entry
<1> QED BY <1>3, <1>4

\* How many entries there are to parse.
Total == Len(job.entries) - job.start

LEMMA FirstNext ==
  ASSUME Mft, NEW n \in Nat, n + 1 <= Total
  PROVE  /\ RowsOf(job.start + n) \in Seq(Wants)
         /\ RowsOfFirst(n + 1) = RowsOfFirst(n) \o RowsOf(job.start + n)
<1> DEFINE g == [k \in 1..(n + 1) |-> RowsOf(job.start + k - 1)]
<1>1. ASSUME NEW k \in 1..(n + 1) PROVE g[k] \in Seq(Wants)
  <2> DEFINE id == job.start + k - 1
  <2>1. id \in Nat /\ id < Len(job.entries)
    BY TableFacts DEF Total
  <2> HIDE DEF id
  <2>2. RowsOf(id) \in Seq(Wants)
    BY <2>1, RowsOfFacts
  <2> QED BY <2>2 DEF id
<1>2. g[n + 1] = RowsOf(job.start + n)
  <2>1. job.start + (n + 1) - 1 = job.start + n /\ n + 1 \in 1..(n + 1)
    BY TableFacts
  <2> QED BY <2>1
<1>3. RowsOfFirst(n + 1) = FlattenSeq([k \in 1..(n + 1) |-> g[k]])
  BY DEF RowsOfFirst
<1>4. RowsOfFirst(n) = FlattenSeq([k \in 1..n |-> g[k]])
  <2>1. [k \in 1..n |-> g[k]] = [k \in 1..n |-> RowsOf(job.start + k - 1)]
    OBVIOUS
  <2> HIDE DEF g
  <2> QED BY <2>1 DEF RowsOfFirst
<1> HIDE DEF g
<1>5. FlattenSeq([k \in 1..(n + 1) |-> g[k]]) = FlattenSeq([k \in 1..n |-> g[k]]) \o g[n + 1]
  BY <1>1, FlattenNext
<1>6. n + 1 \in 1..(n + 1)
  OBVIOUS
<1> QED BY <1>1, <1>2, <1>3, <1>4, <1>5, <1>6

LEMMA FirstNone ==
  ASSUME NEW n \in Int, n <= 0 PROVE RowsOfFirst(n) = << >>
<1>1. [k \in 1..n |-> RowsOf(job.start + k - 1)] = << >>
  <2>1. 1..n = 1..0
    OBVIOUS
  <2> QED BY <2>1
<1> QED BY <1>1, FlattenNone DEF RowsOfFirst

LEMMA FirstType ==
  ASSUME Mft, NEW n \in Int, n <= Total
  PROVE  RowsOfFirst(n) \in Seq(Wants)
<1> DEFINE S == {m \in Nat : m <= Total => RowsOfFirst(m) \in Seq(Wants)}
<1>0. Total \in Int
  BY TableFacts DEF Total
<1>1. 0 \in S
  <2>1. << >> \in Seq(Wants) /\ 0 \in Int /\ 0 <= 0
    OBVIOUS
  <2>2. RowsOfFirst(0) = << >>
    BY <2>1, FirstNone, Zenon
  <2> QED BY <2>1, <2>2
<1>2. ASSUME NEW m \in Nat, m \in S PROVE m + 1 \in S
  <2> SUFFICES ASSUME m + 1 <= Total PROVE RowsOfFirst(m + 1) \in Seq(Wants)
    OBVIOUS
  <2>1. RowsOfFirst(m) \in Seq(Wants)
    BY <1>0, <1>2
  <2> QED BY <2>1, FirstNext, ConcatFacts
<1>3. S = Nat
  <2> HIDE DEF S
  <2> QED BY <1>1, <1>2, SetInduction DEF S
<1>4. CASE n \in Nat
  BY <1>3, <1>4
<1>5. CASE n <= 0
  <2>1. << >> \in Seq(Wants)
    OBVIOUS
  <2> QED BY <1>5, <2>1, FirstNone
<1> QED BY <1>4, <1>5

\* The rows of some entries come first in those of more.
LEMMA FirstIsPrefix ==
  ASSUME Mft, NEW n \in Int, n <= Total
  PROVE  /\ RowsOfFirst(n) \in Seq(Wants) /\ Wanted \in Seq(Wants)
         /\ Len(RowsOfFirst(n)) \in Nat /\ Len(Wanted) \in Nat
         /\ Len(RowsOfFirst(n)) <= Len(Wanted)
         /\ \A k \in 1..Len(RowsOfFirst(n)) : Wanted[k] = RowsOfFirst(n)[k]
<1> DEFINE Begins(a, b) == /\ Len(a) <= Len(b) /\ \A k \in 1..Len(a) : b[k] = a[k]
           f == RowsOfFirst(n)
           S == {m \in Nat : n + m <= Total => Begins(f, RowsOfFirst(n + m))}
<1>0. Total \in Int /\ RowsOfFirst(Total) = Wanted
  BY TableFacts DEF Total, RowsOfFirst, Wanted
<1>1. f \in Seq(Wants) /\ Wanted \in Seq(Wants) /\ Len(f) \in Nat /\ Len(Wanted) \in Nat
  <2>1. f \in Seq(Wants) /\ Wanted \in Seq(Wants)
    BY <1>0, FirstType
  <2> HIDE DEF f
  <2> QED BY <2>1, ListFacts
<1> HIDE DEF f
<1>2. 0 \in S
  <2>1. RowsOfFirst(n + 0) = f
    <3>1. n + 0 = n
      OBVIOUS
    <3> QED BY <3>1 DEF f
  <2> QED BY <1>1, <2>1
<1>3. ASSUME NEW m \in Nat, m \in S PROVE m + 1 \in S
  <2> DEFINE g == RowsOfFirst(n + m)
             h == RowsOfFirst(n + (m + 1))
  <2> SUFFICES ASSUME n + (m + 1) <= Total PROVE Begins(f, h)
    OBVIOUS
  <2>1. Begins(f, g)
    BY <1>0, <1>3
  <2> HIDE DEF g, h
  <2>2. CASE n + m \in Nat
    <3>1. /\ h = g \o RowsOf(job.start + (n + m))
          /\ RowsOf(job.start + (n + m)) \in Seq(Wants)
      <4> DEFINE q == n + m
      <4>1. q \in Nat /\ q + 1 <= Total /\ n + (m + 1) = q + 1
        BY <1>0, <2>2
      <4> HIDE DEF q
      <4>2. /\ RowsOf(job.start + q) \in Seq(Wants)
            /\ RowsOfFirst(q + 1) = RowsOfFirst(q) \o RowsOf(job.start + q)
        BY <4>1, FirstNext
      <4> QED BY <4>1, <4>2 DEF g, h, q
    <3>2. g \in Seq(Wants)
      BY <1>0, FirstType DEF g
    <3> DEFINE r == RowsOf(job.start + (n + m))
    <3> HIDE DEF r
    <3>3. /\ Len(h) = Len(g) + Len(r) /\ \A k \in 1..Len(g) : h[k] = g[k]
          /\ Len(g) \in Nat /\ Len(r) \in Nat
      BY <3>1, <3>2, ConcatFacts, ListFacts DEF r
    <3> QED BY <1>1, <2>1, <3>3
  <2>3. CASE n + m < 0
    <3>1. g = << >> /\ h = << >>
      BY <2>3, FirstNone DEF g, h
    <3> QED BY <2>1, <3>1
  <2> QED BY <2>2, <2>3
<1>4. Begins(f, Wanted)
  <2>1. S = Nat
    <3> HIDE DEF S
    <3> QED BY <1>2, <1>3, SetInduction DEF S
  <2> DEFINE d == Total - n
  <2>2. d \in Nat /\ n + d = Total /\ n + d <= Total
    BY <1>0
  <2> HIDE DEF d
  <2>3. d \in S
    BY <2>1, <2>2
  <2>4. Begins(f, RowsOfFirst(n + d))
    BY <2>2, <2>3
  <2> HIDE DEF Begins
  <2>5. Begins(f, RowsOfFirst(Total))
    BY <2>2, <2>4
  <2> QED BY <1>0, <2>5
<1> QED BY <1>1, <1>4 DEF f

LEMMA FileSizeType ==
  ASSUME NEW data \in Seq(Pieces) PROVE FileSizeOf(data) \in Nat
<1> DEFINE sized == {k \in DOMAIN data : data[k].size # 0}
           first == CHOOSE k \in sized : \A j \in sized : k <= j
<1>1. DOMAIN data = 1..Len(data) /\ \A k \in DOMAIN data : data[k] \in Pieces
  BY ListFacts
<1>2. \A d \in Pieces : d.size \in Nat
  BY DEF Pieces
<1>3. sized \in SUBSET Nat /\ sized \subseteq DOMAIN data
  BY <1>1
<1>4. FileSizeOf(data) = IF sized = {} THEN 0 ELSE data[first].size
  BY DEF FileSizeOf
<1> HIDE DEF sized
<1>5. ASSUME sized # {} PROVE first \in sized
  BY <1>3, <1>5, LeastElement
<1> HIDE DEF first
<1>6. CASE sized = {}
  BY <1>4, <1>6
<1>7. CASE sized # {}
  <2>1. first \in DOMAIN data
    BY <1>3, <1>5, <1>7
  <2>2. data[first].size \in Nat
    BY <1>1, <1>2, <2>1
  <2> QED BY <1>4, <1>7, <2>2
<1> QED BY <1>6, <1>7

LEMMA RowMade ==
  ASSUME NEW id \in Nat, NEW names \in Seq(Seq(Names)), NEW size \in Nat, NEW has \in BOOLEAN
  PROVE  [entry |-> id, inode |-> [id |-> id, ads |-> NoName], names |-> names, ads |-> NoName,
          size |-> size, hasAds |-> has] \in Rows
<1>1. NoName \in Names
  BY DEF Names
<1> QED BY <1>1 DEF Rows

LEMMA RowFacts ==
  ASSUME NEW id \in Nat, NEW entry \in MFTEntries \cup {None}, Usable(entry)
  PROVE  /\ RowOf(id, entry) \in Rows
         /\ RowOf(id, entry).entry = id /\ RowOf(id, entry).ads = NoName
         /\ RowOf(id, entry).names = [k \in DOMAIN entry.names |-> <<entry.names[k]>>]
         /\ AdsOf(entry.data) \in Seq(Pieces)
<1> DEFINE size == FileSizeOf(entry.data)
           has == AdsOf(entry.data) # << >>
           names == [k \in DOMAIN entry.names |-> <<entry.names[k]>>]
<1>1. entry.data \in Seq(Pieces) /\ entry.names \in Seq(Names)
  BY UsableFacts
<1>2. size \in Nat /\ has \in BOOLEAN
  BY <1>1, FileSizeType
<1>3. AdsOf(entry.data) \in Seq(Pieces)
  BY <1>1, AdsFacts DEF Match
<1>4. names \in Seq(Seq(Names))
  <2> DEFINE s == entry.names
             f == [k \in 1..Len(s) |-> <<s[k]>>]
  <2>1. s \in Seq(Names)
    BY <1>1
  <2> HIDE DEF s
  <2>2. DOMAIN s = 1..Len(s) /\ Len(s) \in Nat /\ \A k \in 1..Len(s) : s[k] \in Names
    BY <2>1, ListFacts
  <2>3. \A k \in 1..Len(s) : f[k] \in Seq(Names)
    BY <2>2
  <2>4. f = [k \in 1..Len(s) |-> f[k]]
    OBVIOUS
  <2> HIDE DEF f
  <2>5. f \in Seq(Seq(Names))
    BY <2>2, <2>3, <2>4, IsSeq
  <2> QED BY <2>2, <2>5 DEF f, s
<1>5. RowOf(id, entry) = [entry |-> id, inode |-> [id |-> id, ads |-> NoName], names |-> names,
                          ads |-> NoName, size |-> size, hasAds |-> has]
  BY DEF RowOf
<1> HIDE DEF size, has, names
<1>6. RowOf(id, entry) \in Rows
  BY <1>2, <1>4, <1>5, RowMade
<1>7. /\ RowOf(id, entry).entry = id /\ RowOf(id, entry).ads = NoName
      /\ RowOf(id, entry).names = names
  <2> DEFINE inode == [id |-> id, ads |-> NoName]
  <2>1. RowOf(id, entry) = [entry |-> id, inode |-> inode, names |-> names, ads |-> NoName,
                            size |-> size, hasAds |-> has]
    BY <1>5
  <2> HIDE DEF inode
  <2>2. /\ RowOf(id, entry).entry = id /\ RowOf(id, entry).ads = NoName
        /\ RowOf(id, entry).names = names
    BY <2>1
  <2> QED BY <2>2
<1> QED BY <1>3, <1>6, <1>7 DEF names

LEMMA AdsRowFacts ==
  ASSUME NEW row \in Rows, NEW d \in Pieces
  PROVE  /\ AdsRow(row, d) \in Rows
         /\ AdsRow(row, d).entry = row.entry /\ AdsRow(row, d).ads = d.name
         /\ AdsRow(row, d).names = [k \in DOMAIN row.names |-> Append(row.names[k], d.name)]
<1>1. d.name \in Names /\ row.names \in Seq(Seq(Names)) /\ AttributeSize \in Nat
  BY DEF Rows, Pieces, AttributeSize
<1>2. [k \in DOMAIN row.names |-> Append(row.names[k], d.name)] \in Seq(Seq(Names))
  <2> DEFINE f == [k \in DOMAIN row.names |-> Append(row.names[k], d.name)]
  <2>1. DOMAIN row.names = 1..Len(row.names) /\ Len(row.names) \in Nat
        /\ \A k \in 1..Len(row.names) : row.names[k] \in Seq(Names)
    BY <1>1
  <2>2. ASSUME NEW k \in 1..Len(row.names) PROVE f[k] \in Seq(Names)
    BY <1>1, <2>1
  <2>3. f = [k \in 1..Len(row.names) |-> f[k]]
    BY <2>1
  <2> HIDE DEF f
  <2>4. f \in Seq(Seq(Names))
    BY <2>1, <2>2, <2>3, IsSeq
  <2> QED BY <2>4 DEF f
<1>3. [id |-> None, ads |-> d.name] \in [id : Nat \cup {None}, ads : Names]
  BY <1>1
<1> DEFINE inode == [id |-> None, ads |-> d.name]
           names == [k \in DOMAIN row.names |-> Append(row.names[k], d.name)]
<1> HIDE DEF inode, names
<1>4. AdsRow(row, d) = [row EXCEPT !.inode = inode, !.ads = d.name, !.size = AttributeSize,
                                   !.names = names]
  BY DEF AdsRow, inode, names
<1>5. AdsRow(row, d) \in Rows
  BY <1>1, <1>2, <1>3, <1>4 DEF Rows, inode, names
<1> QED BY <1>4, <1>5 DEF Rows, names

-----------------------------------------------------------------------------
(* The steps of ParseMFT *)

LEMMA JobSame ==
  ASSUME job' = job
  PROVE  /\ Wanted' = Wanted /\ Mft' = Mft
         /\ \A id : Share(id)' = Share(id)
         /\ \A row : IsOfEntry(row)' = IsOfEntry(row) /\ PathOf(row)' = PathOf(row)
BY DEF Wanted, Share, RowsOfFirst, RowsOf, Behind, IsOfEntry, PathOf, EntryAt, Mft, JobInv, Sweeps

LEMMA SentStays ==
  ASSUME MFTSent, UNCHANGED <<job, Sent, seen>> PROVE MFTSent'
<1>1. Wanted' = Wanted /\ \A row : IsOfEntry(row)' = IsOfEntry(row) /\ PathOf(row)' = PathOf(row)
  BY JobSame
<1> QED BY <1>1 DEF MFTSent, Agrees

\* Less may have been sent, by a sweep that gives up.
LEMMA SentShrinks ==
  ASSUME ChannelInv, Mft, MFTSent, UNCHANGED <<job, seen>>,
         Len(Sent') <= Len(Sent), Len(Sent') \in Nat,
         \A k \in DOMAIN Sent' : k \in DOMAIN Sent /\ Sent'[k] = Sent[k]
  PROVE  MFTSent'
<1>1. Wanted' = Wanted /\ \A row : IsOfEntry(row)' = IsOfEntry(row) /\ PathOf(row)' = PathOf(row)
  BY JobSame
<1>2. Len(Sent') <= Len(Wanted)
  <2>1. Total \in Int /\ Total <= Total
    BY TableFacts DEF Total
  <2>2. Len(Wanted) \in Nat
    BY <2>1, FirstIsPrefix
  <2> QED BY <2>2, SentFacts DEF MFTSent
<1> QED BY <1>1, <1>2 DEF MFTSent, Agrees

\* One more row, for the next place.
LEMMA SentGrows ==
  ASSUME ChannelInv, Mft, MFTSent, UNCHANGED <<job, seen>>,
         NEW row \in Rows, Sent' = Append(Sent, row),
         IsOfEntry(row), Len(Sent) + 1 <= Len(Wanted), Agrees(row, Wanted[Len(Sent) + 1])
  PROVE  MFTSent'
<1>1. Wanted' = Wanted /\ \A r : IsOfEntry(r)' = IsOfEntry(r) /\ PathOf(r)' = PathOf(r)
  BY JobSame
<1>2. Sendable = Rows
  BY DEF Mft, Sendable
<1>3. /\ Len(Sent') = Len(Sent) + 1 /\ DOMAIN Sent' = 1..(Len(Sent) + 1)
      /\ DOMAIN Sent = 1..Len(Sent)
      /\ \A k \in DOMAIN Sent : Sent'[k] = Sent[k]
      /\ Sent'[Len(Sent) + 1] = row
      /\ \A k \in DOMAIN Sent' : k \in DOMAIN Sent \/ k = Len(Sent) + 1
  <2>1. Sent \in Seq(Rows)
    BY <1>2, SentFacts
  <2>2. Append(Sent, row) \in Seq(Rows)
    BY <2>1, PushFacts
  <2> QED BY <2>1, <2>2, PushFacts, ListFacts
<1>4. \A k \in DOMAIN Sent' : IsOfEntry(Sent'[k]) /\ Agrees(Sent'[k], Wanted[k])
  <2> SUFFICES ASSUME NEW k \in DOMAIN Sent'
               PROVE  IsOfEntry(Sent'[k]) /\ Agrees(Sent'[k], Wanted[k])
    OBVIOUS
  <2>1. CASE k \in DOMAIN Sent
    BY <1>3, <2>1 DEF MFTSent
  <2>2. CASE k = Len(Sent) + 1
    BY <1>3, <2>2
  <2> QED BY <1>3, <2>1, <2>2
<1>5. \A k \in DOMAIN seen' : seen'[k].path = PathOf(seen'[k].row)
  BY DEF MFTSent
<1>6. Len(Sent') <= Len(Wanted)
  BY <1>3
<1> QED BY <1>1, <1>4, <1>5, <1>6 DEF MFTSent, Agrees

\* The rows of an entry, among all of them.
LEMMA WantedOfEntry ==
  ASSUME Mft, NEW id \in Nat, job.start <= id, id < Len(job.entries)
  PROVE  LET before == RowsOfFirst(id - job.start)
             after == RowsOfFirst(id + 1 - job.start)
         IN /\ before \in Seq(Wants) /\ Len(before) \in Nat
            /\ RowsOf(id) \in Seq(Wants) /\ Len(RowsOf(id)) \in Nat
            /\ Len(after) = Len(before) + Len(RowsOf(id))
            /\ Len(after) <= Len(Wanted) /\ Len(Wanted) \in Nat
            /\ \A m \in 1..Len(RowsOf(id)) : Wanted[Len(before) + m] = RowsOf(id)[m]
<1> DEFINE n == id - job.start
           r == RowsOf(id)
           before == RowsOfFirst(n)
           after == RowsOfFirst(n + 1)
<1>1. /\ n \in Nat /\ n + 1 <= Total /\ n <= Total /\ job.start + n = id
      /\ id + 1 - job.start = n + 1 /\ Total \in Int /\ n + 1 \in Int
  BY TableFacts DEF Total
<1> HIDE DEF n
<1>2. after = before \o RowsOf(job.start + n) /\ RowsOf(job.start + n) \in Seq(Wants)
  BY <1>1, FirstNext
<1>3. after = before \o r /\ r \in Seq(Wants)
  BY <1>1, <1>2
<1>4. before \in Seq(Wants) /\ Len(before) \in Nat
  BY <1>1, FirstIsPrefix
<1>5. /\ Len(after) <= Len(Wanted) /\ Len(Wanted) \in Nat /\ Len(after) \in Nat
      /\ \A k \in 1..Len(after) : Wanted[k] = after[k]
  BY <1>1, FirstIsPrefix
<1> HIDE DEF before, after, r
<1>6. /\ Len(r) \in Nat /\ Len(after) = Len(before) + Len(r)
      /\ \A m \in 1..Len(r) : after[Len(before) + m] = r[m]
  BY <1>3, <1>4, ConcatFacts, ListFacts
<1>7. ASSUME NEW m \in 1..Len(r) PROVE Wanted[Len(before) + m] = r[m]
  <2>1. Len(before) + m \in 1..Len(after)
    BY <1>4, <1>6
  <2> QED BY <1>5, <1>6, <2>1
<1>8. RowsOfFirst(id + 1 - job.start) = after /\ RowsOfFirst(id - job.start) = before
  BY <1>1 DEF after, before, n
<1> QED BY <1>3, <1>4, <1>5, <1>6, <1>7, <1>8 DEF r

LEMMA UsableRows ==
  ASSUME Mft, NEW id \in Nat, id < Len(job.entries), Usable(job.entries[id + 1])
  PROVE  LET ads == AdsOf(job.entries[id + 1].data)
         IN /\ ads \in Seq(Pieces) /\ Len(ads) \in Nat
            /\ Len(RowsOf(id)) = 1 + Len(ads)
            /\ RowsOf(id)[1] = OwnRow(id)
            /\ \A m \in 1..Len(ads) :
                 ads[m].name # NoName /\ RowsOf(id)[1 + m] = StreamRow(id, ads[m])
<1> DEFINE data == job.entries[id + 1].data
           ads == AdsOf(data)
           p == RowsOfPieces(id, data)
           own == OwnRow(id)
<1>1. job.entries[id + 1] \in MFTEntries \cup {None} /\ RowsOf(id) = <<own>> \o p
  BY RowsOfFacts
<1>2. data \in Seq(Pieces)
  BY <1>1, UsableFacts
<1>3. own \in Wants
  BY DEF OwnRow, Wants, Names
<1> HIDE DEF data
<1>4. Match(ads, p, id)
  BY <1>2, AdsFacts
<1> HIDE DEF ads, p, own
<1>5. ads \in Seq(Pieces) /\ p \in Seq(Wants) /\ Len(p) = Len(ads)
  BY <1>4 DEF Match
<1>6. \A m \in 1..Len(ads) : ads[m].name # NoName /\ p[m] = StreamRow(id, ads[m])
  BY <1>4 DEF Match
<1>7. <<own>> \in Seq(Wants) /\ Len(<<own>>) = 1 /\ <<own>>[1] = own /\ 1 \in 1..1
  BY <1>3
<1> DEFINE first == <<own>>
<1> HIDE DEF first
<1>8. /\ Len(first \o p) = 1 + Len(p) /\ (first \o p)[1] = own
      /\ \A m \in 1..Len(p) : (first \o p)[1 + m] = p[m]
  <2>1. first \in Seq(Wants) /\ Len(first) = 1 /\ first[1] = own /\ 1 \in 1..Len(first)
    BY <1>7 DEF first
  <2>2. /\ Len(first \o p) = Len(first) + Len(p)
        /\ \A k \in 1..Len(first) : (first \o p)[k] = first[k]
        /\ \A k \in 1..Len(p) : (first \o p)[Len(first) + k] = p[k]
    BY <1>5, <2>1, ConcatFacts
  <2> QED BY <2>1, <2>2
<1>9. Len(ads) \in Nat
  BY <1>5, ListFacts
<1> QED BY <1>1, <1>5, <1>6, <1>8, <1>9 DEF ads, data, first, own

LEMMA ShareFacts ==
  ASSUME Mft, NEW id \in Nat, job.start <= id, id < Len(job.entries)
  PROVE  /\ Share(id) \in Nat /\ Share(id + 1) = Share(id) + Len(RowsOf(id))
         /\ Len(RowsOf(id)) \in Nat /\ Len(Wanted) \in Nat
         /\ Share(id + 1) <= Len(Wanted)
         /\ \A m \in 1..Len(RowsOf(id)) : Wanted[Share(id) + m] = RowsOf(id)[m]
<1>1. Behind(id) = id - job.start /\ Behind(id + 1) = id + 1 - job.start
  BY TableFacts DEF Behind
<1> QED BY <1>1, WantedOfEntry DEF Share

LEMMA ShareOfAll ==
  ASSUME Mft, NEW id \in Nat, Len(job.entries) <= id
  PROVE  Share(id) = Len(Wanted)
<1>1. Behind(id) = Total
  BY TableFacts DEF Behind, Total
<1>2. RowsOfFirst(Total) = Wanted
  BY DEF RowsOfFirst, Wanted, Total
<1> QED BY <1>1, <1>2 DEF Share

\* The sweep passes an entry it cannot use.
LEMMA PassStep ==
  ASSUME ChannelInv, Mft, MFTInv, At("next"), ~ Usable(EntryAt(reg.id)), reg.id <= LastId,
         GoTo("next", [reg EXCEPT !.id = @ + 1]), UNCHANGED job
  PROVE  ChannelInv' /\ MFTInv'
<1> DEFINE id == reg.id
<1>1. /\ id \in Nat /\ job.start <= id /\ id <= Len(job.entries) /\ reg \in [id : Nat, ads : Seq(Pieces), row : Rows \cup {None}]
      /\ Len(Sent) = Share(id)
  BY DEF MFTInv, MFTReg, MFTPlace, At, LastId
<1>2. /\ pc' = "next" /\ reg' = [reg EXCEPT !.id = id + 1] /\ job' = job
      /\ UNCHANGED <<offered, consumer, cancelled>> /\ offered = None
  BY DEF GoTo, At
<1>3. ChannelInv' /\ Sent' = Sent /\ UNCHANGED <<held, seen>>
  BY <1>2, QuietStep DEF ChannelInv
<1>4. reg' \in [id : Nat, ads : Seq(Pieces), row : Rows \cup {None}] /\ reg'.id = id + 1
  BY <1>1, <1>2
<1>5. job.start \in Nat /\ Len(job.entries) \in Nat
  BY TableFacts
<1>6. MFTReg'
  BY <1>1, <1>2, <1>4, <1>5 DEF MFTReg
<1>7. MFTSent'
  BY <1>2, <1>3, SentStays DEF MFTInv
<1>8. Share(id + 1) = Share(id)
  <2> HIDE DEF id
  <2>1. CASE id = Len(job.entries)
    BY <1>1, <1>5, <2>1, ShareOfAll
  <2>2. CASE id < Len(job.entries)
    <3>1. ~ Usable(job.entries[id + 1])
      BY <2>2 DEF EntryAt, id
    <3>2. RowsOf(id) = << >>
      BY <1>1, <2>2, <3>1, RowsOfFacts
    <3>3. Len(RowsOf(id)) = 0
      BY <3>2
    <3> QED BY <1>1, <2>2, <3>3, ShareFacts
  <2> QED BY <1>1, <1>5, <2>1, <2>2
<1>9. MFTPlace'
  <2>1. \A n : Share(n)' = Share(n)
    BY <1>2, JobSame
  <2> QED BY <1>1, <1>2, <1>3, <1>4, <1>8, <2>1 DEF MFTPlace
<1> QED BY <1>3, <1>6, <1>7, <1>9 DEF MFTInv

LEMMA OnePlus ==
  ASSUME NEW n \in Nat, NEW m \in 1..n, NEW sent, NEW share \in Nat, sent = share + 1
  PROVE  1 + m \in 1..(1 + n) /\ sent + m = share + (1 + m)
OBVIOUS

\* It goes to the channel with the row of an entry it can use.
LEMMA RowStep ==
  ASSUME ChannelInv, Mft, MFTInv, At("next"), Usable(EntryAt(reg.id)), reg.id <= LastId,
         Offer(RowOf(reg.id, EntryAt(reg.id)), "ads",
               [id |-> reg.id + 1, ads |-> AdsOf(EntryAt(reg.id).data),
                row |-> RowOf(reg.id, EntryAt(reg.id))]),
         UNCHANGED job
  PROVE  ChannelInv' /\ MFTInv'
<1> DEFINE id == reg.id
           entry == job.entries[id + 1]
           row == RowOf(id, entry)
           ads == AdsOf(entry.data)
<1>1. /\ id \in Nat /\ job.start <= id /\ Len(Sent) = Share(id)
      /\ id <= Len(job.entries)
  BY DEF MFTInv, MFTReg, MFTPlace, At, LastId
<1>2. id < Len(job.entries) /\ EntryAt(id) = entry
  <2>1. EntryAt(id) # None
    BY DEF Usable
  <2> QED BY <2>1 DEF EntryAt
<1>3. Usable(entry) /\ Offer(row, "ads", [id |-> id + 1, ads |-> ads, row |-> row])
  BY <1>2
<1>4. /\ pc' = "ads" /\ reg' = [id |-> id + 1, ads |-> ads, row |-> row] /\ job' = job
      /\ offered = None
  BY <1>3 DEF Offer, At
<1>5. reg'.id = id + 1 /\ reg'.ads = ads /\ reg'.row = row
  BY <1>4
<1> HIDE DEF id
<1>6. entry \in MFTEntries \cup {None}
  BY <1>1, <1>2, RowsOfFacts
<1>7. row \in Rows /\ row.entry = id /\ row.ads = NoName
      /\ row.names = [k \in DOMAIN entry.names |-> <<entry.names[k]>>] /\ ads \in Seq(Pieces)
  <2> HIDE DEF entry
  <2> QED BY <1>1, <1>3, <1>6, RowFacts
<1>8. /\ Len(ads) \in Nat /\ Len(RowsOf(id)) = 1 + Len(ads) /\ RowsOf(id)[1] = OwnRow(id)
      /\ \A m \in 1..Len(ads) : ads[m].name # NoName /\ RowsOf(id)[1 + m] = StreamRow(id, ads[m])
  BY <1>1, <1>2, <1>3, UsableRows
<1>9. /\ Share(id) \in Nat /\ Share(id + 1) = Share(id) + Len(RowsOf(id))
      /\ Share(id + 1) <= Len(Wanted) /\ Len(Wanted) \in Nat
      /\ \A m \in 1..Len(RowsOf(id)) : Wanted[Share(id) + m] = RowsOf(id)[m]
  BY <1>1, <1>2, ShareFacts
<1>10. job.start \in Nat /\ Len(job.entries) \in Nat
  BY TableFacts
<1>11. IsOfEntry(row)
  <2>1. \A name : Shown(row, name) = <<name>>
    BY <1>7 DEF Shown
  <2>2. job.entries[row.entry + 1] = entry
    BY <1>7
  <2> HIDE DEF row, entry
  <2> QED BY <1>2, <1>3, <1>7, <2>1, <2>2 DEF IsOfEntry
<1> HIDE DEF row, ads, entry
<1>12. ChannelInv' /\ UNCHANGED <<held, seen>> /\ Sent' = Append(Sent, row) /\ Len(Sent') = Len(Sent) + 1
  <2>1. row \in Sendable
    BY <1>7 DEF Mft, Sendable
  <2> QED BY <1>3, <1>4, <2>1, OfferStep
<1>13. MFTSent'
  <2>1. Wanted[Len(Sent) + 1] = OwnRow(id)
    BY <1>1, <1>8, <1>9
  <2>2. Agrees(row, OwnRow(id))
    BY <1>7 DEF Agrees, OwnRow
  <2>3. Len(Sent) + 1 <= Len(Wanted)
    BY <1>1, <1>8, <1>9
  <2> QED BY <1>4, <1>7, <1>11, <1>12, <2>1, <2>2, <2>3, SentGrows DEF MFTInv
<1>14. MFTReg'
  <2>1. reg' \in [id : Nat, ads : Seq(Pieces), row : Rows \cup {None}]
    BY <1>1, <1>4, <1>7
  <2> QED BY <1>1, <1>2, <1>4, <1>5, <1>10, <2>1 DEF MFTReg
<1>15. AdsLeft'
  <2>1. \A n : Share(n)' = Share(n)
    BY <1>4, JobSame
  <2>2. Wanted' = Wanted
    BY <1>4, JobSame
  <2>3. Len(Sent') + Len(ads) = Share(id + 1)
    BY <1>1, <1>8, <1>9, <1>12
  <2>4. DOMAIN ads = 1..Len(ads)
    BY <1>7, ListFacts
  <2>5. ASSUME NEW m \in DOMAIN ads
        PROVE  ads[m].name # NoName /\ Wanted[Len(Sent') + m] = [entry |-> id, ads |-> ads[m].name]
    <3>1. ads[m].name # NoName /\ RowsOf(id)[1 + m] = StreamRow(id, ads[m])
      BY <1>8, <2>4
    <3>2. 1 + m \in 1..Len(RowsOf(id)) /\ Len(Sent') + m = Share(id) + (1 + m)
      <4>1. /\ m \in 1..Len(ads) /\ Len(ads) \in Nat /\ Len(RowsOf(id)) = 1 + Len(ads)
            /\ Len(Sent') = Share(id) + 1 /\ Share(id) \in Nat
        BY <1>1, <1>8, <1>9, <1>12, <2>4
      <4>2. 1 + m \in 1..(1 + Len(ads)) /\ Len(Sent') + m = Share(id) + (1 + m)
        BY <4>1, OnePlus
      <4> QED BY <4>1, <4>2
    <3>3. Wanted[Len(Sent') + m] = RowsOf(id)[1 + m]
      BY <1>9, <3>2
    <3> QED BY <3>1, <3>3 DEF StreamRow
  <2>6. (id + 1) - 1 = id
    BY <1>1
  <2> QED BY <1>1, <1>2, <1>3, <1>4, <1>5, <2>1, <2>2, <2>3, <2>5, <2>6 DEF AdsLeft, row, entry
<1>16. MFTPlace'
  BY <1>4, <1>15 DEF MFTPlace
<1> QED BY <1>12, <1>13, <1>14, <1>16 DEF MFTInv

LEMMA ParseEntryKeeps ==
  ASSUME ChannelInv, Mft, MFTInv, ParseEntry PROVE ChannelInv' /\ MFTInv'
<1> DEFINE id == reg.id
<1>1. At("next") /\ job' = job
  BY DEF ParseEntry
<1>2. CASE id > LastId
  <2>1. Done
    BY <1>2 DEF ParseEntry
  <2>2. /\ pc' = "done" /\ reg' = reg /\ offered = None
        /\ UNCHANGED <<offered, consumer, cancelled>>
    BY <1>1, <2>1 DEF Done, GoTo, At
  <2>3. ChannelInv' /\ Sent' = Sent /\ UNCHANGED <<held, seen>>
    BY <1>1, <2>2, QuietStep DEF ChannelInv
  <2>4. MFTSent'
    BY <1>1, <2>3, SentStays DEF MFTInv
  <2>5. MFTReg'
    BY <1>1, <2>2 DEF MFTInv, MFTReg
  <2>6. Len(Sent) = Share(id) /\ id \in Nat
    BY <1>1 DEF At, MFTInv, MFTPlace, MFTReg
  <2>7. Share(id) = Len(Wanted)
    <3>1. Len(job.entries) <= id
      BY <1>2, <2>6, TableFacts DEF LastId
    <3> HIDE DEF id
    <3> QED BY <2>6, <3>1, ShareOfAll
  <2>8. Wanted' = Wanted
    BY <1>1, JobSame
  <2>9. MFTPlace'
    BY <2>2, <2>3, <2>6, <2>7, <2>8 DEF MFTPlace
  <2> QED BY <2>3, <2>4, <2>5, <2>9 DEF MFTInv
<1>3. CASE ~ (id > LastId) /\ ~ Usable(EntryAt(id))
  <2>1. GoTo("next", [reg EXCEPT !.id = @ + 1])
    BY <1>3 DEF ParseEntry
  <2>2. id <= LastId
    BY <1>3, TableFacts DEF MFTInv, MFTReg, LastId
  <2> QED BY <1>1, <1>3, <2>1, <2>2, PassStep
<1>4. CASE ~ (id > LastId) /\ Usable(EntryAt(id))
  <2>1. Offer(RowOf(reg.id, EntryAt(reg.id)), "ads",
              [id |-> reg.id + 1, ads |-> AdsOf(EntryAt(reg.id).data),
               row |-> RowOf(reg.id, EntryAt(reg.id))])
    BY <1>4 DEF ParseEntry
  <2>2. id <= LastId
    BY <1>4, TableFacts DEF MFTInv, MFTReg, LastId
  <2> QED BY <1>1, <1>4, <2>1, <2>2, RowStep
<1> QED BY <1>2, <1>3, <1>4

LEMMA AppendToOne ==
  ASSUME NEW R, NEW x \in R, NEW y \in R PROVE Append(<<x>>, y) = <<x, y>>
<1>1. <<x>> \in Seq(R) /\ <<x, y>> \in Seq(R)
  OBVIOUS
<1>2. /\ Append(<<x>>, y) \in Seq(R) /\ Len(Append(<<x>>, y)) = 2
      /\ Append(<<x>>, y)[1] = x /\ Append(<<x>>, y)[2] = y
  <2> DEFINE s == <<x>>
  <2>0. s \in Seq(R)
    BY <1>1
  <2>1. Len(s) = 1 /\ s[1] = x /\ 1 \in 1..1
    OBVIOUS
  <2> HIDE DEF s
  <2>2. /\ Append(s, y) \in Seq(R) /\ Len(Append(s, y)) = Len(s) + 1
        /\ \A k \in 1..Len(s) : Append(s, y)[k] = s[k]
        /\ Append(s, y)[Len(s) + 1] = y
    BY <2>0, PushFacts
  <2>3. Append(s, y) \in Seq(R) /\ Len(Append(s, y)) = 2 /\ Append(s, y)[1] = x /\ Append(s, y)[2] = y
    BY <2>1, <2>2
  <2> QED BY <2>3 DEF s
<1>3. Len(<<x, y>>) = 2 /\ <<x, y>>[1] = x /\ <<x, y>>[2] = y
  OBVIOUS
<1> DEFINE a == Append(<<x>>, y)
           b == <<x, y>>
<1>4. a \in Seq(R) /\ b \in Seq(R) /\ Len(a) = 2 /\ Len(b) = 2 /\ a[1] = b[1] /\ a[2] = b[2]
  BY <1>1, <1>2, <1>3
<1> HIDE DEF a, b
<1>5. \A k \in 1..2 : k = 1 \/ k = 2
  OBVIOUS
<1>6. a = b
  BY <1>4, <1>5, SameSeq
<1> QED BY <1>6 DEF a, b

\* The row of a stream shows its names and the stream behind each.
LEMMA AdsRowIsOfEntry ==
  ASSUME Mft, NEW id \in Nat, id < Len(job.entries), Usable(job.entries[id + 1]),
         NEW d \in Pieces, d.name # NoName
  PROVE  LET row == AdsRow(RowOf(id, job.entries[id + 1]), d)
         IN /\ IsOfEntry(row) /\ row \in Rows /\ row.entry = id /\ row.ads = d.name
<1> DEFINE entry == job.entries[id + 1]
           own == RowOf(id, entry)
           row == AdsRow(own, d)
<1>1. entry \in MFTEntries \cup {None} /\ Usable(entry)
  BY RowsOfFacts
<1> HIDE DEF entry
<1>2. /\ own \in Rows /\ own.entry = id
      /\ own.names = [k \in DOMAIN entry.names |-> <<entry.names[k]>>]
  BY <1>1, RowFacts
<1> HIDE DEF own
<1>3. /\ row \in Rows /\ row.entry = id /\ row.ads = d.name
      /\ row.names = [k \in DOMAIN own.names |-> Append(own.names[k], d.name)]
  BY <1>2, AdsRowFacts
<1> HIDE DEF row
<1>4. row.names = [k \in DOMAIN entry.names |-> <<entry.names[k], d.name>>]
  <2>1. DOMAIN own.names = DOMAIN entry.names
        /\ \A k \in DOMAIN entry.names : own.names[k] = <<entry.names[k]>>
    BY <1>2
  <2>2. d.name \in Names /\ \A k \in DOMAIN entry.names : entry.names[k] \in Names
    <3>1. entry.names \in Seq(Names)
      BY <1>1, UsableFacts
    <3>2. \A k \in DOMAIN entry.names : entry.names[k] \in Names
      <4> DEFINE s == entry.names
      <4>1. s \in Seq(Names)
        BY <3>1
      <4> HIDE DEF s
      <4>2. \A k \in DOMAIN s : s[k] \in Names
        BY <4>1, ListFacts
      <4> QED BY <4>2 DEF s
    <3> QED BY <3>2 DEF Pieces
  <2>3. \A k \in DOMAIN entry.names : Append(own.names[k], d.name) = <<entry.names[k], d.name>>
    BY <2>1, <2>2, AppendToOne
  <2> QED BY <1>3, <2>1, <2>3
<1>5. \A name : Shown(row, name) = <<name, d.name>>
  BY <1>3 DEF Shown
<1>6. IsOfEntry(row)
  <2>1. job.entries[row.entry + 1] = entry
    BY <1>3 DEF entry
  <2> QED BY <1>1, <1>3, <1>4, <1>5, <2>1 DEF IsOfEntry
<1> QED BY <1>3, <1>6 DEF row, own, entry

\* A piece of its entry.
LEMMA StreamStep ==
  ASSUME ChannelInv, Mft, MFTInv, At("ads"), reg.ads # << >>,
         Offer(AdsRow(reg.row, Head(reg.ads)), "ads", [reg EXCEPT !.ads = Tail(@)]),
         UNCHANGED job
  PROVE  ChannelInv' /\ MFTInv'
<1> DEFINE id == reg.id - 1
           ads == reg.ads
           d == Head(reg.ads)
           row == AdsRow(reg.row, d)
           rest == Tail(reg.ads)
<1>1. /\ pc' = "ads" /\ reg' = [reg EXCEPT !.ads = rest] /\ job' = job /\ offered = None
      /\ cancelled' = cancelled
  BY DEF Offer, At
<1>2. /\ reg \in [id : Nat, ads : Seq(Pieces), row : Rows \cup {None}]
      /\ job.start <= reg.id /\ (reg.id = job.start \/ reg.id <= Len(job.entries) + 1)
      /\ AdsLeft
  BY DEF MFTInv, MFTReg, MFTPlace, At
<1>3. /\ ads \in Seq(Pieces) /\ reg.id \in Nat
      /\ reg'.id = reg.id /\ reg'.ads = rest /\ reg'.row = reg.row
  BY <1>1, <1>2
<1>4. /\ d \in Pieces /\ rest \in Seq(Pieces) /\ d = ads[1]
      /\ Len(ads) \in Nat /\ Len(rest) = Len(ads) - 1 /\ 1 \in DOMAIN ads
      /\ DOMAIN rest = 1..Len(rest)
      /\ \A m \in DOMAIN rest : m + 1 \in DOMAIN ads /\ rest[m] = ads[m + 1] /\ m \in Nat
  <2> DEFINE s == reg.ads
  <2>1. s \in Seq(Pieces) /\ s # << >>
    BY <1>3
  <2> HIDE DEF s
  <2>2. /\ Head(s) \in Pieces /\ Tail(s) \in Seq(Pieces) /\ Head(s) = s[1]
        /\ Len(s) \in Nat /\ Len(Tail(s)) = Len(s) - 1 /\ 1 \in DOMAIN s
        /\ DOMAIN Tail(s) = 1..Len(Tail(s)) /\ DOMAIN s = 1..Len(s)
        /\ \A m \in DOMAIN Tail(s) : Tail(s)[m] = s[m + 1]
    BY <2>1
  <2> QED BY <2>2 DEF s
<1>5. /\ id \in Nat /\ job.start <= id /\ id < Len(job.entries)
      /\ Usable(job.entries[id + 1]) /\ reg.row = RowOf(id, job.entries[id + 1])
      /\ Len(Sent) + Len(ads) = Share(reg.id)
      /\ \A m \in DOMAIN ads :
           /\ ads[m].name # NoName
           /\ Wanted[Len(Sent) + m] = [entry |-> id, ads |-> ads[m].name]
  <2>1. /\ job.start <= id /\ id < Len(job.entries)
        /\ Usable(job.entries[id + 1]) /\ reg.row = RowOf(id, job.entries[id + 1])
        /\ Len(Sent) + Len(ads) = Share(reg.id)
        /\ \A m \in DOMAIN ads :
             /\ ads[m].name # NoName
             /\ Wanted[Len(Sent) + m] = [entry |-> id, ads |-> ads[m].name]
    BY <1>2, Zenon DEF AdsLeft
  <2>2. id \in Nat
    <3>1. job.start \in Nat
      BY TableFacts
    <3> QED BY <1>3, <2>1, <3>1
  <2> QED BY <2>1, <2>2
<1>6. /\ IsOfEntry(row) /\ row \in Rows /\ row.entry = id /\ row.ads = d.name
      /\ Wanted[Len(Sent) + 1] = [entry |-> id, ads |-> d.name]
  <2>1. d.name # NoName /\ Wanted[Len(Sent) + 1] = [entry |-> id, ads |-> d.name]
    BY <1>4, <1>5
  <2> HIDE DEF d, id
  <2>2. LET r == AdsRow(RowOf(id, job.entries[id + 1]), d)
        IN IsOfEntry(r) /\ r \in Rows /\ r.entry = id /\ r.ads = d.name
    BY <1>4, <1>5, <2>1, AdsRowIsOfEntry
  <2> QED BY <1>5, <2>1, <2>2
<1>7. /\ Share(reg.id) <= Len(Wanted) /\ Len(Wanted) \in Nat /\ Share(reg.id) \in Nat
  <2> HIDE DEF id
  <2>1. /\ Share(id + 1) = Share(id) + Len(RowsOf(id)) /\ Share(id) \in Nat
        /\ Len(RowsOf(id)) \in Nat /\ Share(id + 1) <= Len(Wanted) /\ Len(Wanted) \in Nat
    BY <1>5, ShareFacts
  <2>2. id + 1 = reg.id
    BY <1>3 DEF id
  <2> QED BY <2>1, <2>2
<1>8. Len(Sent) \in Nat
  BY SentFacts
<1> HIDE DEF row, rest, d, ads, id
<1>9. /\ ChannelInv' /\ UNCHANGED <<held, seen>> /\ Sent' = Append(Sent, row)
      /\ Len(Sent') = Len(Sent) + 1
  <2>1. row \in Sendable /\ Offer(row, "ads", [reg EXCEPT !.ads = Tail(@)])
    BY <1>6 DEF Mft, Sendable, row, d
  <2> QED BY <1>1, <2>1, OfferStep
<1>10. MFTSent'
  <2>1. Agrees(row, Wanted[Len(Sent) + 1])
    BY <1>6 DEF Agrees
  <2>2. Len(Sent) + 1 <= Len(Wanted)
    <3>1. Len(ads) >= 1
      BY <1>4
    <3> QED BY <1>4, <1>5, <1>7, <1>8, <3>1
  <2> QED BY <1>1, <1>6, <1>9, <2>1, <2>2, SentGrows DEF MFTInv
<1>11. MFTReg'
  <2>1. reg' \in [id : Nat, ads : Seq(Pieces), row : Rows \cup {None}]
    BY <1>1, <1>2, <1>4
  <2> QED BY <1>1, <1>2, <1>3, <2>1 DEF MFTReg
<1>12. AdsLeft'
  <2>1. (\A n : Share(n)' = Share(n)) /\ Wanted' = Wanted
    BY <1>1, JobSame
  <2>2. Len(Sent') + Len(rest) = Share(reg.id)
    BY <1>4, <1>5, <1>8, <1>9
  <2>3. ASSUME NEW m \in DOMAIN rest
        PROVE  /\ rest[m].name # NoName
               /\ Wanted[Len(Sent') + m] = [entry |-> id, ads |-> rest[m].name]
    <3>1. m + 1 \in DOMAIN ads /\ rest[m] = ads[m + 1] /\ m \in Nat
      BY <1>4
    <3>2. Len(Sent') + m = Len(Sent) + (m + 1)
      BY <1>8, <1>9, <3>1
    <3> QED BY <1>5, <3>1, <3>2
  <2> QED BY <1>1, <1>3, <1>5, <2>1, <2>2, <2>3 DEF AdsLeft, id
<1>13. MFTPlace'
  BY <1>1, <1>12 DEF MFTPlace
<1> QED BY <1>9, <1>10, <1>11, <1>13 DEF MFTInv

LEMMA NextAdsKeeps ==
  ASSUME ChannelInv, Mft, MFTInv, NextAds PROVE ChannelInv' /\ MFTInv'
<1>1. At("ads") /\ job' = job
  BY DEF NextAds
<1>2. CASE reg.ads = << >>
  <2>1. /\ pc' = "next" /\ reg' = reg /\ offered = None
        /\ UNCHANGED <<offered, consumer, cancelled>>
    BY <1>1, <1>2 DEF NextAds, GoTo, At
  <2>2. ChannelInv' /\ Sent' = Sent /\ UNCHANGED <<held, seen>>
    BY <1>1, <2>1, QuietStep DEF ChannelInv
  <2>3. MFTSent'
    BY <1>1, <2>2, SentStays DEF MFTInv
  <2>4. MFTReg'
    BY <1>1, <2>1 DEF MFTInv, MFTReg
  <2>5. Len(Sent) = Share(reg.id)
    <3>1. Len(Sent) + Len(reg.ads) = Share(reg.id)
      BY <1>1 DEF At, MFTInv, MFTPlace, AdsLeft
    <3>2. Len(reg.ads) = 0 /\ Len(Sent) \in Nat
      BY <1>2, SentFacts
    <3> QED BY <3>1, <3>2
  <2>6. \A n : Share(n)' = Share(n)
    BY <1>1, JobSame
  <2>7. MFTPlace'
    BY <2>1, <2>2, <2>5, <2>6 DEF MFTPlace
  <2> QED BY <2>2, <2>3, <2>4, <2>7 DEF MFTInv
<1>3. CASE reg.ads # << >>
  <2>1. Offer(AdsRow(reg.row, Head(reg.ads)), "ads", [reg EXCEPT !.ads = Tail(@)])
    BY <1>3 DEF NextAds
  <2> QED BY <1>1, <1>3, <2>1, StreamStep
<1> QED BY <1>2, <1>3

\* Steps that leave what is sent and where the sweep is.
LEMMA PlaceStays ==
  ASSUME MFTInv, UNCHANGED <<job, pc, reg>>, Sent' = Sent, cancelled => cancelled'
  PROVE  MFTReg' /\ MFTPlace'
<1>1. (\A n : Share(n)' = Share(n)) /\ Wanted' = Wanted
  BY JobSame
<1>2. MFTReg'
  BY DEF MFTInv, MFTReg
<1>3. AdsLeft' = AdsLeft
  BY <1>1 DEF AdsLeft
<1>4. MFTPlace'
  BY <1>1, <1>3 DEF MFTInv, MFTPlace
<1> QED BY <1>2, <1>4

LEMMA ReceiveKeepsRows ==
  ASSUME ChannelInv, Mft, MFTInv, Receive PROVE ChannelInv' /\ MFTInv'
<1>1. ChannelInv' /\ Sent' = Sent /\ UNCHANGED <<seen, cancelled>>
  BY ReceiveStep
<1>2. UNCHANGED <<job, pc, reg>>
  BY DEF Receive
<1>3. MFTSent'
  BY <1>1, <1>2, SentStays DEF MFTInv
<1>4. MFTReg' /\ MFTPlace'
  BY <1>1, <1>2, PlaceStays
<1> QED BY <1>1, <1>3, <1>4 DEF MFTInv

LEMMA CancelKeepsRows ==
  ASSUME ChannelInv, Mft, MFTInv, Cancel PROVE ChannelInv' /\ MFTInv'
<1>1. cancelled' = TRUE /\ UNCHANGED <<job, pc, reg, offered, consumer>>
  BY DEF Cancel, producer
<1>2. ChannelInv' /\ Sent' = Sent /\ UNCHANGED <<held, seen>>
  BY <1>1, QuietStep DEF ChannelInv
<1>3. MFTSent'
  BY <1>1, <1>2, SentStays DEF MFTInv
<1>4. MFTReg' /\ MFTPlace'
  BY <1>1, <1>2, PlaceStays
<1> QED BY <1>2, <1>3, <1>4 DEF MFTInv

LEMMA CancelSendKeepsRows ==
  ASSUME ChannelInv, Mft, MFTInv, CancelSend PROVE ChannelInv' /\ MFTInv'
<1>1. /\ ChannelInv' /\ cancelled /\ UNCHANGED <<job, reg, held, seen, cancelled>>
      /\ pc' = "done" /\ Len(Sent') <= Len(Sent) /\ Len(Sent') \in Nat
      /\ \A k \in DOMAIN Sent' : k \in DOMAIN Sent /\ Sent'[k] = Sent[k]
  BY CancelSendStep
<1>2. MFTSent'
  BY <1>1, SentShrinks DEF MFTInv
<1>3. MFTReg' /\ MFTPlace'
  BY <1>1 DEF MFTInv, MFTReg, MFTPlace
<1> QED BY <1>1, <1>2, <1>3 DEF MFTInv

LEMMA LookAtRowKeeps ==
  ASSUME ChannelInv, Mft, MFTInv, LookAtRow PROVE ChannelInv' /\ MFTInv'
<1> DEFINE value == [row |-> held, path |-> PathOf(held)]
<1>1. Look(value) /\ value.row = held /\ value.path = PathOf(held) /\ Sweeps("mft")
  BY DEF LookAtRow
<1>2. UNCHANGED <<job, pc, reg, cancelled>>
  BY <1>1 DEF Look, producer
<1> HIDE DEF value
<1>3. /\ ChannelInv' /\ Sent' = Sent
      /\ DOMAIN seen' = DOMAIN seen \cup {Len(seen) + 1}
      /\ \A k \in DOMAIN seen : seen'[k] = seen[k]
      /\ seen'[Len(seen) + 1] = value
  BY <1>1, LookStep
<1>4. Wanted' = Wanted /\ \A r : IsOfEntry(r)' = IsOfEntry(r) /\ PathOf(r)' = PathOf(r)
  BY <1>2, JobSame
<1>5. \A k \in DOMAIN seen' : seen'[k].path = PathOf(seen'[k].row)
  BY <1>1, <1>3 DEF MFTInv, MFTSent
<1>6. MFTSent'
  BY <1>3, <1>4, <1>5 DEF MFTInv, MFTSent, Agrees
<1>7. MFTReg' /\ MFTPlace'
  BY <1>2, <1>3, PlaceStays
<1> QED BY <1>3, <1>6, <1>7 DEF MFTInv

\* What the consumer sees is what was sent, and what was sent is right.
LEMMA RowsFollow ==
  ASSUME ChannelInv, Mft, MFTInv PROVE RowsAreTheEntries
<1>1. ASSUME NEW k \in DOMAIN seen
      PROVE  LET row == seen[k].row
                 Name(name) == IF row.ads = NoName THEN <<name>> ELSE <<name, row.ads>>
                 names == job.entries[row.entry + 1].names
             IN /\ seen[k].path = <<<<"root">>, Name(names[1])>>
                /\ row.names = [m \in DOMAIN names |-> Name(names[m])]
  <2> DEFINE row == seen[k].row
             names == job.entries[row.entry + 1].names
  <2>1. k \in DOMAIN Sent /\ Sent[k] = row
    BY SentFacts DEF SeenItems, Mft
  <2>2. IsOfEntry(row) /\ seen[k].path = PathOf(row)
    BY <2>1 DEF MFTInv, MFTSent
  <2> HIDE DEF row
  <2>3. EntryAt(row.entry).names = names
    BY <2>2 DEF IsOfEntry, EntryAt
  <2>4. PathOf(row) = <<<<"root">>, Shown(row, names[1])>>
    BY <2>3 DEF PathOf, SetAds, Shown
  <2>5. row.names = [m \in DOMAIN names |-> Shown(row, names[m])]
    BY <2>2 DEF IsOfEntry
  <2> QED BY <2>2, <2>4, <2>5 DEF row, Shown
<1>2. pc = "done" /\ ~ cancelled => Len(Sent) = Len(Wanted)
  BY DEF MFTInv, MFTPlace
<1>3. Len(Sent) <= Len(Wanted) /\ \A k \in DOMAIN Sent : Agrees(Sent[k], Wanted[k])
  BY DEF MFTInv, MFTSent
<1> QED BY <1>1, <1>2, <1>3 DEF RowsAreTheEntries

-----------------------------------------------------------------------------
(* The volume and the buffers *)

\* A job of the carver.
Carve == JobInv /\ Sweeps("carve")

LEMMA SizeFacts ==
  /\ Cluster \in Nat \ {0} /\ BufferSize \in Nat /\ StepSize \in Nat \ {0}
  /\ BufferSize = StepSize + Cluster
<1> DEFINE d == BufferClusters - 1
<1>1. /\ Cluster \in Nat \ {0} /\ d \in Nat /\ 1 <= d /\ BufferClusters = d + 1
  BY CarverAssumption
<1> HIDE DEF d
<1>2. 1 * Cluster <= d * Cluster /\ 1 * Cluster = Cluster /\ d * Cluster \in Nat
  BY <1>1, TimesMonotone
<1>3. (d + 1) * Cluster = d * Cluster + Cluster
  BY <1>1
<1>4. BufferSize = d * Cluster + Cluster
  BY <1>1, <1>3 DEF BufferSize
<1>5. StepSize = d * Cluster
  BY <1>1, <1>2, <1>4 DEF StepSize
<1> QED BY <1>1, <1>2, <1>4, <1>5

LEMMA VolumeFacts ==
  ASSUME Carve
  PROVE  /\ job.disk \in Seq(Units \cup {None}) /\ Len(job.disk) \in Nat
         /\ DOMAIN job.disk = 1..Len(job.disk)
         /\ \A k \in 1..Len(job.disk) : job.disk[k] \in Units \cup {None}
         /\ \A b \in DOMAIN job.files : b \in Nat /\ job.files[b] \in 0..(Len(job.disk) - b)
         /\ \A k \in Starts :
              /\ k \in 1..Len(job.disk) /\ job.disk[k] \in Units
              /\ job.disk[k].record.length \in 3..(Cluster + 1)
              /\ k + job.disk[k].record.length - 1 <= Len(job.disk)
              /\ IsPart(job.disk[k + 2], 2)
         /\ ~ Sweeps("mft")
<1>1. PICK v \in Volumes : job = [kind |-> "carve", disk |-> v.disk, size |-> v.size,
                                  bad |-> v.bad, files |-> v.files]
  BY DEF Carve, JobInv, Sweeps
<1>2. job.disk = v.disk /\ job.files = v.files /\ ~ Sweeps("mft")
  BY <1>1 DEF Sweeps
<1>3. /\ job.disk \in Seq(Units \cup {None})
      /\ \A b \in DOMAIN job.files : b \in Nat /\ job.files[b] \in 0..(Len(job.disk) - b)
      /\ \A k \in DOMAIN job.disk : IsPart(job.disk[k], 0) =>
           /\ k + job.disk[k].record.length - 1 \in DOMAIN job.disk
           /\ IsPart(job.disk[k + 2], 2)
  BY <1>2, VolumesAssumption
<1>4. /\ Len(job.disk) \in Nat /\ DOMAIN job.disk = 1..Len(job.disk)
      /\ \A k \in 1..Len(job.disk) : job.disk[k] \in Units \cup {None}
  BY <1>3, ListFacts
<1>5. ASSUME NEW k \in Starts
      PROVE  /\ k \in 1..Len(job.disk) /\ job.disk[k] \in Units
             /\ job.disk[k].record.length \in 3..(Cluster + 1)
             /\ k + job.disk[k].record.length - 1 <= Len(job.disk)
             /\ IsPart(job.disk[k + 2], 2)
  <2>1. k \in 1..Len(job.disk) /\ IsPart(job.disk[k], 0)
    BY <1>4 DEF Starts
  <2>2. job.disk[k] \in Units
    BY <1>4, <2>1 DEF IsPart
  <2>3. job.disk[k].record.length \in 3..(Cluster + 1)
    BY <2>2 DEF Units, Records
  <2>4. k + job.disk[k].record.length - 1 \in 1..Len(job.disk) /\ IsPart(job.disk[k + 2], 2)
    BY <1>3, <1>4, <2>1
  <2> QED BY <1>4, <2>1, <2>2, <2>3, <2>4
<1> QED BY <1>2, <1>3, <1>4, <1>5

\* A buffer holds what the volume has, or less.
LEMMA LengthFacts ==
  ASSUME Carve, NEW b \in Nat
  PROVE  /\ LengthAt(b) \in Nat /\ LengthAt(b) <= BufferSize
         /\ LengthAt(b) > 0 => b + LengthAt(b) <= Len(job.disk)
<1>1. CASE b \in DOMAIN job.files
  <2> DEFINE f == job.files[b]
  <2>1. f \in 0..(Len(job.disk) - b) /\ Len(job.disk) \in Nat
    BY <1>1, VolumeFacts
  <2>2. LengthAt(b) = IF f < BufferSize THEN f ELSE BufferSize
    BY <1>1 DEF LengthAt, Least
  <2> HIDE DEF f
  <2> QED BY <2>1, <2>2, SizeFacts
<1>2. CASE b \notin DOMAIN job.files
  <2>1. Len(job.disk) \in Nat
    BY VolumeFacts
  <2>2. LengthAt(b) = IF b < Len(job.disk)
                      THEN IF Len(job.disk) - b < BufferSize THEN Len(job.disk) - b ELSE BufferSize
                      ELSE 0
    BY <1>2 DEF LengthAt, Least
  <2> QED BY <2>1, <2>2, SizeFacts
<1> QED BY <1>1, <1>2

\* The unit at a place of the buffer.
LEMMA InBufferFacts ==
  ASSUME Carve, CarveReg, reg.i > 0, NEW j \in Nat
  PROVE  IF j < LengthAt(reg.buffer.base)
         THEN /\ InBuffer(j) = job.disk[reg.buffer.base + j + 1]
              /\ reg.buffer.base + j + 1 \in 1..Len(job.disk)
         ELSE InBuffer(j) = None
<1>1. reg.buffer.base \in Nat /\ reg.buffer.length = LengthAt(reg.buffer.base)
  BY DEF CarveReg
<1>2. LengthAt(reg.buffer.base) \in Nat /\ Len(job.disk) \in Nat
      /\ (LengthAt(reg.buffer.base) > 0 =>
            reg.buffer.base + LengthAt(reg.buffer.base) <= Len(job.disk))
  BY <1>1, LengthFacts, VolumeFacts
<1>3. InBuffer(j) = IF j < LengthAt(reg.buffer.base) THEN job.disk[reg.buffer.base + j + 1] ELSE None
  BY <1>1 DEF InBuffer, Unit
<1> QED BY <1>1, <1>2, <1>3

LEMMA ItemFacts ==
  ASSUME Carve, CarveReg, reg.i > 0, NEW j \in Nat, Accepted(j)
  PROVE  /\ Item(j) \in Items /\ BaseOf(Item(j)) = reg.buffer.base /\ Item(j).pos = j
         /\ Item(j).at = reg.buffer.base + j
         /\ Item(j).whole = (j + job.disk[reg.buffer.base + j + 1].record.length <= BufferSize)
<1> DEFINE b == reg.buffer.base
           u == job.disk[b + j + 1]
<1>1. b \in Nat
  BY DEF CarveReg
<1>2. InBuffer(j) # None
  BY DEF Accepted, IsPart
<1>3. InBuffer(j) = u /\ u \in Units
  <2>1. InBuffer(j) = u /\ b + j + 1 \in 1..Len(job.disk)
    BY <1>2, InBufferFacts
  <2>2. u \in Units \cup {None}
    BY <2>1, VolumeFacts
  <2> QED BY <1>2, <2>1, <2>2
<1>4. Item(j) = [record |-> u.record, at |-> b + j, pos |-> j,
                 whole |-> j + u.record.length <= BufferSize]
  BY <1>3 DEF Item
<1> HIDE DEF u, b
<1>5. u.record \in Records /\ (j + u.record.length <= BufferSize) \in BOOLEAN
  BY <1>3 DEF Units
<1> DEFINE whole == j + u.record.length <= BufferSize
<1> HIDE DEF whole
<1>6. Item(j) = [record |-> u.record, at |-> b + j, pos |-> j, whole |-> whole] /\ whole \in BOOLEAN
  BY <1>4, <1>5 DEF whole
<1>7. b + j \in Nat /\ (b + j) - j = b
  BY <1>1
<1>8. Item(j) \in Items
  BY <1>5, <1>6, <1>7 DEF Items
<1>9. Item(j).pos = j /\ Item(j).at = b + j /\ Item(j).whole = whole
  BY <1>6
<1> QED BY <1>7, <1>8, <1>9 DEF BaseOf, b, u, whole

\* A record that lies whole in the buffer is found where it begins.
LEMMA WholeIsAccepted ==
  ASSUME Carve, CarveReg, reg.i > 0, NEW k \in Starts,
         reg.buffer.base <= k - 1,
         k - 1 + job.disk[k].record.length <= reg.buffer.base + LengthAt(reg.buffer.base)
  PROVE  LET j == k - 1 - reg.buffer.base
         IN /\ j \in 0..(BufferSize - 1) /\ Accepted(j)
            /\ j + job.disk[k].record.length <= BufferSize
<1> DEFINE b == reg.buffer.base
           j == k - 1 - b
           n == LengthAt(b)
           l == job.disk[k].record.length
<1>1. b \in Nat /\ n \in Nat /\ n <= BufferSize /\ BufferSize \in Nat
  BY LengthFacts, SizeFacts DEF CarveReg
<1>2. k \in Nat /\ l \in Nat /\ 3 <= l /\ IsPart(job.disk[k], 0) /\ IsPart(job.disk[k + 2], 2)
  BY VolumeFacts DEF Starts
<1>3. b <= k - 1 /\ k - 1 + l <= b + n
  OBVIOUS
<1> HIDE DEF b, n, l
<1>4. /\ j \in Nat /\ j + l <= n /\ j + l <= BufferSize /\ j < BufferSize - 1 /\ j + 2 < BufferSize
      /\ j < n /\ j + 2 < n /\ j + 2 \in Nat /\ b + j + 1 = k /\ b + (j + 2) + 1 = k + 2
      /\ j \in 0..(BufferSize - 1)
  BY <1>1, <1>2, <1>3
<1> HIDE DEF j
<1>5. InBuffer(j) = job.disk[k] /\ InBuffer(j + 2) = job.disk[k + 2]
  BY <1>4, InBufferFacts DEF b, n
<1>6. Accepted(j)
  BY <1>2, <1>4, <1>5 DEF Accepted
<1> QED BY <1>4, <1>6 DEF j, b, l

LEMMA VolumeSame ==
  ASSUME job' = job
  PROVE  /\ Carve' = Carve /\ Starts' = Starts
         /\ \A b : LengthAt(b)' = LengthAt(b)
BY DEF Carve, JobInv, Sweeps, Starts, LengthAt

\* What has been found is not lost.
LEMMA FoundStays ==
  ASSUME job' = job, NEW b, NEW place, FoundBelow(b, place),
         \A n \in DOMAIN Sent : n \in DOMAIN Sent' /\ Sent'[n] = Sent[n]
  PROVE  FoundBelow(b, place)'
<1>1. Starts' = Starts /\ LengthAt(b)' = LengthAt(b)
  BY VolumeSame
<1> QED BY <1>1 DEF FoundBelow

-----------------------------------------------------------------------------
(* The steps of Carver *)

\* Steps that leave what is sent and the scan alone.
LEMMA ScanStays ==
  ASSUME CarveInv, UNCHANGED <<job, pc, reg>>, Sent' = Sent, cancelled => cancelled'
  PROVE  CarveInv'
<1>1. /\ \A b : LengthAt(b)' = LengthAt(b)
      /\ Through' = Through
      /\ \A b, place : FoundBelow(b, place) => FoundBelow(b, place)'
  BY VolumeSame, FoundStays DEF Through
<1>2. CarveReg'
  BY <1>1 DEF CarveInv, CarveReg, Aligned
<1>3. CarveSent'
  BY <1>1 DEF CarveInv, CarveSent, Aligned, BaseOf
<1>4. CarveFound'
  BY <1>1 DEF CarveInv, CarveFound, Aligned
<1> QED BY <1>2, <1>3, <1>4 DEF CarveInv

LEMMA ReceiveKeepsRecords ==
  ASSUME ChannelInv, Carve, CarveInv, Receive PROVE ChannelInv' /\ CarveInv'
<1>1. ChannelInv' /\ Sent' = Sent /\ UNCHANGED <<seen, cancelled>>
  BY ReceiveStep
<1>2. UNCHANGED <<job, pc, reg>>
  BY DEF Receive
<1> QED BY <1>1, <1>2, ScanStays

LEMMA CancelKeepsRecords ==
  ASSUME ChannelInv, Carve, CarveInv, Cancel PROVE ChannelInv' /\ CarveInv'
<1>1. cancelled' = TRUE /\ UNCHANGED <<job, pc, reg, offered, consumer>>
  BY DEF Cancel, producer
<1>2. ChannelInv' /\ Sent' = Sent /\ UNCHANGED <<held, seen>>
  BY <1>1, QuietStep DEF ChannelInv
<1> QED BY <1>1, <1>2, ScanStays

LEMMA LookAtRecordKeeps ==
  ASSUME ChannelInv, Carve, CarveInv, LookAtRecord PROVE ChannelInv' /\ CarveInv'
<1>1. PICK of \in [0..(held.record.length - 1) -> {reg.old, reg.buffer}] :
        Look([item |-> held, units |-> [k \in DOMAIN of |-> Unit(of[k], held.pos + k)]])
  BY DEF LookAtRecord
<1> DEFINE units == [k \in DOMAIN of |-> Unit(of[k], held.pos + k)]
           value == [item |-> held, units |-> units]
<1>2. Look(value) /\ ~ Sweeps("mft")
  BY <1>1, VolumeFacts
<1>3. value.item = held
  <2> HIDE DEF units
  <2> QED OBVIOUS
<1> HIDE DEF value
<1>4. UNCHANGED <<job, pc, reg, cancelled>>
  BY <1>2 DEF Look, producer
<1>5. ChannelInv' /\ Sent' = Sent
  BY <1>2, <1>3, LookStep
<1> QED BY <1>4, <1>5, ScanStays

\* A sweep that gives up.
LEMMA CancelSendKeepsRecords ==
  ASSUME ChannelInv, Carve, CarveInv, CancelSend PROVE ChannelInv' /\ CarveInv'
<1>1. /\ ChannelInv' /\ cancelled /\ UNCHANGED <<job, reg, held, seen, cancelled>>
      /\ pc' = "done" /\ Len(Sent') <= Len(Sent) /\ Len(Sent') \in Nat
      /\ \A k \in DOMAIN Sent' : k \in DOMAIN Sent /\ Sent'[k] = Sent[k]
  BY CancelSendStep
<1>2. \A b : LengthAt(b)' = LengthAt(b)
  BY <1>1, VolumeSame
<1>3. CarveReg'
  BY <1>1, <1>2 DEF CarveInv, CarveReg, Aligned
<1>4. CarveSent'
  <2>1. Through' = BufferSize
    BY <1>1 DEF Through
  <2>2. reg'.i = 0 => Len(Sent') = 0
    BY <1>1, SentFacts DEF CarveInv, CarveSent
  <2> QED BY <1>1, <2>1, <2>2 DEF CarveInv, CarveSent, Aligned, BaseOf
<1>5. CarveFound'
  BY <1>1 DEF CarveFound
<1> QED BY <1>1, <1>3, <1>4, <1>5 DEF CarveInv

LEMMA BufferIsReadKeeps ==
  ASSUME ChannelInv, Carve, CarveInv, BufferIsRead PROVE ChannelInv' /\ CarveInv'
<1>1. /\ pc = "read" /\ pc' = "scan" /\ reg' = [reg EXCEPT !.old = reg.buffer] /\ job' = job
      /\ UNCHANGED <<offered, consumer, cancelled>> /\ offered = None
  BY DEF BufferIsRead, GoTo, At
<1>2. ChannelInv' /\ Sent' = Sent /\ UNCHANGED <<held, seen>>
  BY <1>1, QuietStep DEF ChannelInv
<1>3. /\ reg = [i |-> reg.i, j |-> reg.j, old |-> reg.old, buffer |-> reg.buffer]
      /\ reg.i # 0
  BY <1>1 DEF CarveInv, CarveReg
<1>4. /\ reg' = [i |-> reg'.i, j |-> reg'.j, old |-> reg'.old, buffer |-> reg'.buffer]
      /\ reg'.i = reg.i /\ reg'.j = reg.j /\ reg'.buffer = reg.buffer
  BY <1>1, <1>3
<1>5. /\ \A b : LengthAt(b)' = LengthAt(b)
      /\ Through' = Through
      /\ \A b, place : FoundBelow(b, place) => FoundBelow(b, place)'
  BY <1>1, <1>2, <1>4, VolumeSame, FoundStays DEF Through
<1>6. CarveReg'
  BY <1>1, <1>3, <1>4, <1>5 DEF CarveInv, CarveReg, Aligned
<1>7. CarveSent'
  BY <1>2, <1>4, <1>5 DEF CarveInv, CarveSent, Aligned, BaseOf
<1>8. CarveFound'
  BY <1>1, <1>4, <1>5 DEF CarveInv, CarveFound, Aligned
<1> QED BY <1>2, <1>6, <1>7, <1>8 DEF CarveInv

LEMMA AlignedFacts ==
  ASSUME NEW b \in Nat, Aligned(b)
  PROVE  /\ Aligned(b + StepSize)
         /\ \A c \in Nat : Aligned(c) /\ b < c => b + StepSize <= c
<1>1. StepSize \in Nat \ {0} /\ b % StepSize = 0
  BY SizeFacts DEF Aligned
<1> DEFINE p == StepSize
<1> HIDE DEF p
<1>2. p \in Nat \ {0} /\ b % p = 0
  BY <1>1 DEF p
<1>3. p % p = 0
  <2>1. (1 * p) % p = 0 /\ 1 * p = p
    BY <1>2, Multiple
  <2> QED BY <2>1
<1>4. (b + p) % p = 0
  BY <1>2, <1>3, MultiplesAdd
<1>5. ASSUME NEW c \in Nat, c % p = 0, b < c PROVE b + p <= c
  <2>1. (b \div p + 1) * p <= c
    BY <1>2, <1>5, NextMultiple
  <2>2. (b \div p + 1) * p = (b \div p) * p + p /\ b % p = b - (b \div p) * p /\ b \div p \in Nat
    BY <1>2, InPage
  <2>3. b + p = (b \div p + 1) * p
    <3> DEFINE q == (b \div p) * p
    <3>1. q \in Int
      BY <1>2, <2>2
    <3> HIDE DEF q
    <3>2. (b \div p + 1) * p = q + p /\ 0 = b - q
      BY <1>2, <2>2 DEF q
    <3> QED BY <1>2, <3>1, <3>2
  <2> QED BY <2>1, <2>3
<1> QED BY <1>4, <1>5 DEF p, Aligned

\* What was sent begins where some buffer began, and lies behind that.
LEMMA ItemTypes ==
  ASSUME ChannelInv, Carve
  PROVE  \A n \in DOMAIN Sent :
           /\ Sent[n] \in Items /\ Sent[n].at \in Nat /\ Sent[n].pos \in Nat
           /\ BaseOf(Sent[n]) \in Int /\ Sent[n].at = BaseOf(Sent[n]) + Sent[n].pos
<1>1. Sendable = Items
  BY VolumeFacts DEF Sendable
<1>2. \A n \in DOMAIN Sent : Sent[n] \in Items
  BY <1>1, SentFacts
<1>3. \A item \in Items : item.at \in Nat /\ item.pos \in Nat
  BY DEF Items
<1> QED BY <1>2, <1>3 DEF BaseOf

LEMMA NextBuffer ==
  ASSUME ChannelInv, Carve, CarveInv, At("next"), UNCHANGED job,
         GoTo("read", [i |-> reg.i + StepSize, j |-> 0, old |-> reg.buffer,
                       buffer |-> [base |-> reg.i, length |-> LengthAt(reg.i)]])
  PROVE  ChannelInv' /\ CarveInv'
<1> DEFINE i == reg.i
           b == reg.buffer.base
           buffer == [base |-> i, length |-> LengthAt(i)]
<1>1. /\ pc = "next" /\ pc' = "read" /\ job' = job /\ offered = None
      /\ reg' = [i |-> i + StepSize, j |-> 0, old |-> reg.buffer, buffer |-> buffer]
      /\ UNCHANGED <<offered, consumer, cancelled>>
  BY DEF GoTo, At
<1>2. ChannelInv' /\ Sent' = Sent /\ UNCHANGED <<held, seen>>
  BY <1>1, QuietStep DEF ChannelInv
<1>3. /\ i \in Nat /\ b \in Nat /\ Aligned(b)
      /\ i > 0 => i = b + StepSize
      /\ i = 0 => Len(Sent) = 0
  BY DEF CarveInv, CarveReg, CarveSent
<1>4. Aligned(i)
  <2>1. CASE i = 0
    <3>1. 0 % StepSize = 0
      BY SizeFacts
    <3> QED BY <2>1, <3>1 DEF Aligned
  <2>2. CASE i > 0
    BY <1>3, <2>2, AlignedFacts
  <2> QED BY <1>3, <2>1, <2>2
<1>5. LengthAt(i) \in Nat
  BY <1>3, VolumeFacts, LengthFacts
<1> DEFINE old == reg.buffer
<1> HIDE DEF i, b, buffer, old
<1>6. reg' = [i |-> i + StepSize, j |-> 0, old |-> old, buffer |-> buffer]
  BY <1>1 DEF old
<1>7. /\ reg'.i = i + StepSize /\ reg'.j = 0 /\ reg'.buffer = buffer
      /\ reg' = [i |-> reg'.i, j |-> reg'.j, old |-> reg'.old, buffer |-> reg'.buffer]
  BY <1>6
<1>8. buffer \in [base : Nat, length : Nat] /\ buffer.base = i /\ buffer.length = LengthAt(i)
  BY <1>3, <1>5 DEF buffer
<1>9. /\ \A c : LengthAt(c)' = LengthAt(c)
      /\ \A c, place : FoundBelow(c, place) => FoundBelow(c, place)'
      /\ Starts' = Starts
  BY <1>1, <1>2, VolumeSame, FoundStays
<1>10. CarveReg'
  <2>1. i + StepSize \in Nat /\ i + StepSize > 0 /\ 0 \in 0..BufferSize
    BY <1>3, SizeFacts
  <2> QED BY <1>1, <1>4, <1>7, <1>8, <1>9, <2>1 DEF CarveReg, Aligned
<1>11. CarveSent'
  <2>1. ASSUME NEW n \in DOMAIN Sent
        PROVE  BaseOf(Sent[n]) < i
    <3>1. i > 0
      BY <1>3, SentFacts
    <3>2. BaseOf(Sent[n]) <= b /\ BaseOf(Sent[n]) \in Int
      BY ItemTypes DEF CarveInv, CarveSent, b
    <3> QED BY <1>3, <3>1, <3>2, SizeFacts
  <2>2. \A n \in DOMAIN Sent : BaseOf(Sent[n]) \in Int
    BY ItemTypes
  <2>3. \A n \in DOMAIN Sent : BaseOf(Sent[n]) <= i /\ BaseOf(Sent[n]) # i
    BY <1>3, <2>1, <2>2
  <2>4. i + StepSize # 0
    BY <1>3, SizeFacts
  <2> QED BY <1>2, <1>7, <1>8, <2>3, <2>4 DEF CarveInv, CarveSent, Aligned, BaseOf
<1>12. CarveFound'
  <2> SUFFICES ASSUME ~ cancelled
               PROVE  /\ \A c \in Nat : c < i /\ Aligned(c) => FoundBelow(c, BufferSize)'
                      /\ FoundBelow(reg.buffer.base, Through)'
    BY <1>1, <1>7, <1>8 DEF CarveFound, Aligned
  <2>1. ASSUME NEW c \in Nat, c < i, Aligned(c) PROVE FoundBelow(c, BufferSize)'
    <3>1. i > 0 /\ i = b + StepSize
      BY <1>3, <2>1
    <3>2. c <= b
      <4>1. b < c => b + StepSize <= c
        BY <1>3, <2>1, AlignedFacts
      <4> QED BY <1>3, <2>1, <3>1, <4>1
    <3>3. Through = BufferSize
      BY <1>1 DEF Through
    <3>4. FoundBelow(c, BufferSize)
      <4>1. CASE c < b
        BY <2>1, <3>1, <4>1 DEF CarveInv, CarveFound, i, b
      <4>2. CASE c = b
        BY <3>1, <3>3, <4>2 DEF CarveInv, CarveFound, i, b
      <4> QED BY <1>3, <3>2, <4>1, <4>2
    <3> QED BY <1>9, <3>4
  <2>2. FoundBelow(reg.buffer.base, Through)'
    <3>1. Through' = 0
      BY <1>1, <1>7 DEF Through
    <3>2. \A k \in Starts : k \in Nat
      BY VolumeFacts
    <3>3. \A k \in Starts : ~ (i <= k - 1 /\ k - 1 < i + 0)
      BY <1>3, <3>2
    <3>4. reg'.buffer.base = i
      BY <1>7, <1>8
    <3> QED BY <1>9, <3>1, <3>3, <3>4 DEF FoundBelow
  <2> QED BY <2>1, <2>2
<1> QED BY <1>2, <1>10, <1>11, <1>12 DEF CarveInv

LEMMA ReadBufferKeeps ==
  ASSUME ChannelInv, Carve, CarveInv, ReadBuffer PROVE ChannelInv' /\ CarveInv'
<1>1. At("next") /\ job' = job
  BY DEF ReadBuffer
<1>2. CASE Done
  <2>1. /\ pc = "next" /\ pc' = "done" /\ reg' = reg /\ offered = None
        /\ UNCHANGED <<offered, consumer, cancelled>>
    BY <1>1, <1>2 DEF Done, GoTo, At
  <2>2. ChannelInv' /\ Sent' = Sent /\ UNCHANGED <<held, seen>>
    BY <1>1, <2>1, QuietStep DEF ChannelInv
  <2>3. /\ \A c : LengthAt(c)' = LengthAt(c)
        /\ \A c, place : FoundBelow(c, place) => FoundBelow(c, place)'
        /\ Through' = Through
    BY <1>1, <2>1, <2>2, VolumeSame, FoundStays DEF Through
  <2>4. CarveReg'
    BY <2>1, <2>3 DEF CarveInv, CarveReg, Aligned
  <2>5. CarveSent'
    BY <2>1, <2>2, <2>3 DEF CarveInv, CarveSent, Aligned, BaseOf
  <2>6. CarveFound'
    BY <2>1, <2>3 DEF CarveInv, CarveFound, Aligned
  <2> QED BY <2>2, <2>4, <2>5, <2>6 DEF CarveInv
<1>3. CASE ~ Done
  <2>1. GoTo("read", [i |-> reg.i + StepSize, j |-> 0, old |-> reg.buffer,
                      buffer |-> [base |-> reg.i, length |-> LengthAt(reg.i)]])
    BY <1>3 DEF ReadBuffer
  <2> QED BY <1>1, <2>1, NextBuffer
<1> QED BY <1>2, <1>3

\* As far as the scan has found nothing more, nothing more is there.
LEMMA FoundUpTo ==
  ASSUME Carve, CarveReg, CarveFound, reg.i > 0, ~ cancelled, pc = "scan",
         NEW top \in Nat, \A p \in 0..(BufferSize - 1) : reg.j <= p /\ p < top => ~ Accepted(p)
  PROVE  FoundBelow(reg.buffer.base, top)
<1> DEFINE b == reg.buffer.base
<1>1. FoundBelow(b, reg.j)
  BY DEF CarveFound, Through
<1>2. b \in Nat /\ reg.j \in Nat
  BY SizeFacts DEF CarveReg
<1> SUFFICES ASSUME NEW k \in Starts, b <= k - 1, k - 1 < b + top,
                    k - 1 + job.disk[k].record.length <= b + LengthAt(b)
             PROVE  \E n \in DOMAIN Sent : Sent[n].at = k - 1 /\ Sent[n].whole
  BY DEF FoundBelow
<1>3. k \in Nat
  BY VolumeFacts
<1>4. CASE k - 1 < b + reg.j
  BY <1>1, <1>4 DEF FoundBelow
<1>5. CASE ~ (k - 1 < b + reg.j)
  <2> DEFINE p == k - 1 - b
  <2>1. p \in 0..(BufferSize - 1) /\ Accepted(p)
    BY WholeIsAccepted
  <2>2. reg.j <= p /\ p < top
    BY <1>2, <1>3, <1>5
  <2> QED BY <2>1, <2>2
<1> QED BY <1>4, <1>5

LEMMA ScanIsThrough ==
  ASSUME ChannelInv, Carve, CarveInv, At("scan"), UNCHANGED job,
         \A p \in reg.j..(BufferSize - 1) : ~ Accepted(p), GoTo("next", reg)
  PROVE  ChannelInv' /\ CarveInv'
<1>1. /\ pc = "scan" /\ pc' = "next" /\ reg' = reg /\ job' = job /\ offered = None
      /\ UNCHANGED <<offered, consumer, cancelled>>
  BY DEF GoTo, At
<1>2. ChannelInv' /\ Sent' = Sent /\ UNCHANGED <<held, seen>>
  BY <1>1, QuietStep DEF ChannelInv
<1>3. /\ \A c : LengthAt(c)' = LengthAt(c)
      /\ \A c, place : FoundBelow(c, place) => FoundBelow(c, place)'
      /\ Through' = BufferSize
  BY <1>1, <1>2, VolumeSame, FoundStays DEF Through
<1>4. CarveReg'
  BY <1>1, <1>3 DEF CarveInv, CarveReg, Aligned
<1>5. CarveSent'
  BY <1>1, <1>2, <1>3 DEF CarveInv, CarveSent, Aligned, BaseOf
<1>6. CarveFound'
  <2> SUFFICES ASSUME ~ cancelled, reg.i > 0
               PROVE  /\ \A b \in Nat : b < reg.buffer.base /\ Aligned(b) => FoundBelow(b, BufferSize)'
                      /\ FoundBelow(reg.buffer.base, Through)'
    BY <1>1 DEF CarveFound, Aligned
  <2>1. \A b \in Nat : b < reg.buffer.base /\ Aligned(b) => FoundBelow(b, BufferSize)'
    BY <1>3 DEF CarveInv, CarveFound
  <2>2. FoundBelow(reg.buffer.base, BufferSize)
    <3>1. \A p \in 0..(BufferSize - 1) : reg.j <= p /\ p < BufferSize => ~ Accepted(p)
      <4>1. reg.j \in Nat /\ BufferSize \in Nat
        BY SizeFacts DEF CarveInv, CarveReg
      <4> QED BY <4>1
    <3> QED BY <1>1, <3>1, FoundUpTo, SizeFacts DEF CarveInv
  <2>3. FoundBelow(reg.buffer.base, Through)'
    <3> DEFINE b == reg.buffer.base
    <3>1. \A c : FoundBelow(c, BufferSize) => FoundBelow(c, BufferSize)'
      BY <1>3
    <3> QED BY <1>1, <1>3, <2>2, <3>1
  <2> QED BY <2>1, <2>3
<1> QED BY <1>2, <1>4, <1>5, <1>6 DEF CarveInv

LEMMA RecordStep ==
  ASSUME ChannelInv, Carve, CarveInv, At("scan"), UNCHANGED job,
         NEW j \in reg.j..(BufferSize - 1), Accepted(j),
         \A p \in reg.j..(BufferSize - 1) : Accepted(p) => j <= p,
         Offer(Item(j), "scan", [reg EXCEPT !.j = j + 1])
  PROVE  ChannelInv' /\ CarveInv'
<1> DEFINE b == reg.buffer.base
           item == Item(j)
<1>1. /\ pc = "scan" /\ pc' = "scan" /\ reg' = [reg EXCEPT !.j = j + 1] /\ job' = job
      /\ offered = None /\ UNCHANGED <<consumer, cancelled>>
  BY DEF Offer, At
<1>2. /\ reg = [i |-> reg.i, j |-> reg.j, old |-> reg.old, buffer |-> reg.buffer]
      /\ reg.i \in Nat /\ reg.i # 0 /\ reg.i > 0 /\ reg.j \in 0..BufferSize /\ b \in Nat
      /\ BufferSize \in Nat /\ Aligned(b)
  BY <1>1, SizeFacts DEF CarveInv, CarveReg
<1>3. j \in Nat /\ reg.j \in Nat /\ reg.j <= j /\ j + 1 \in 0..BufferSize /\ j < BufferSize
  BY <1>2
<1>4. /\ item \in Items /\ BaseOf(item) = b /\ item.pos = j /\ item.at = b + j
      /\ item.whole = (j + job.disk[b + j + 1].record.length <= BufferSize)
  BY <1>2, <1>3, ItemFacts DEF CarveInv
<1>5. /\ reg' = [i |-> reg'.i, j |-> reg'.j, old |-> reg'.old, buffer |-> reg'.buffer]
      /\ reg'.i = reg.i /\ reg'.j = j + 1 /\ reg'.buffer = reg.buffer
  BY <1>1, <1>2
<1> HIDE DEF item, b
<1>6. /\ ChannelInv' /\ UNCHANGED <<held, seen>>
      /\ Sent' = Append(Sent, item) /\ Len(Sent') = Len(Sent) + 1
      /\ \A k \in DOMAIN Sent : Sent'[k] = Sent[k]
      /\ Sent'[Len(Sent) + 1] = item
  <2>1. item \in Sendable /\ Offer(item, "scan", [reg EXCEPT !.j = j + 1])
    BY <1>4, VolumeFacts DEF Sendable, item
  <2> QED BY <1>1, <2>1, OfferStep
<1> DEFINE n == Len(Sent)
<1>7. /\ n \in Nat /\ DOMAIN Sent = 1..n /\ DOMAIN Sent' = 1..(n + 1)
      /\ \A k \in DOMAIN Sent' : k \in DOMAIN Sent \/ k = n + 1
      /\ \A k \in DOMAIN Sent : k \in DOMAIN Sent'
      /\ n + 1 \in DOMAIN Sent'
  <2>1. Sent \in Seq(Items)
    BY SentFacts, VolumeFacts DEF Sendable
  <2>2. Append(Sent, item) \in Seq(Items)
    BY <1>4, <2>1, PushFacts
  <2>3. /\ n \in Nat /\ DOMAIN Sent = 1..n /\ DOMAIN Sent' = 1..(n + 1)
    BY <1>6, <2>1, <2>2, ListFacts
  <2>4. \A k \in 1..(n + 1) : k \in 1..n \/ k = n + 1
    BY <2>3, NextNumbers
  <2> QED BY <2>3, <2>4, NextNumbers
<1> HIDE DEF n
<1>8. /\ \A c : LengthAt(c)' = LengthAt(c)
      /\ \A c, place : FoundBelow(c, place) => FoundBelow(c, place)'
      /\ Starts' = Starts
  BY <1>1, <1>6, <1>7, VolumeSame, FoundStays
<1>9. Through = reg.j /\ Through' = j + 1
  BY <1>1, <1>5 DEF Through
<1>10. CarveReg'
  BY <1>1, <1>2, <1>3, <1>5, <1>8 DEF CarveInv, CarveReg, Aligned
<1>11. CarveSent'
  <2>1. \A k \in DOMAIN Sent : Sent[k].pos \in Nat /\ BaseOf(Sent[k]) \in Int
    BY ItemTypes
  <2>2. ASSUME NEW k \in DOMAIN Sent'
        PROVE  /\ Aligned(BaseOf(Sent'[k])) /\ 0 <= BaseOf(Sent'[k])
               /\ BaseOf(Sent'[k]) <= b
               /\ Sent'[k].pos < BufferSize
               /\ BaseOf(Sent'[k]) = b => Sent'[k].pos < j + 1
    <3>1. CASE k \in DOMAIN Sent
      <4>1. /\ Aligned(BaseOf(Sent[k])) /\ 0 <= BaseOf(Sent[k])
            /\ BaseOf(Sent[k]) <= b /\ Sent[k].pos < BufferSize
            /\ BaseOf(Sent[k]) = b => Sent[k].pos < reg.j
        BY <1>9, <3>1 DEF CarveInv, CarveSent, b
      <4>2. Sent[k].pos < reg.j => Sent[k].pos < j + 1
        BY <1>3, <2>1, <3>1
      <4> QED BY <1>6, <3>1, <4>1, <4>2
    <3>2. CASE k = n + 1
      <4>1. Sent'[k] = item
        BY <1>6, <3>2 DEF n
      <4> QED BY <1>2, <1>3, <1>4, <4>1
    <3> QED BY <1>7, <3>1, <3>2
  <2>3. ASSUME NEW k \in DOMAIN Sent', NEW m \in DOMAIN Sent', k < m
        PROVE  \/ BaseOf(Sent'[k]) < BaseOf(Sent'[m])
               \/ BaseOf(Sent'[k]) = BaseOf(Sent'[m]) /\ Sent'[k].pos < Sent'[m].pos
    <3>1. k \in DOMAIN Sent /\ (m \in DOMAIN Sent \/ m = n + 1)
      BY <1>7, <2>3
    <3>2. CASE m \in DOMAIN Sent
      BY <1>6, <2>3, <3>1, <3>2 DEF CarveInv, CarveSent
    <3>3. CASE m = n + 1
      <4>1. Sent'[m] = item /\ Sent'[k] = Sent[k]
        BY <1>6, <3>1, <3>3 DEF n
      <4>2. BaseOf(Sent[k]) <= b /\ (BaseOf(Sent[k]) = b => Sent[k].pos < reg.j)
        BY <1>9, <3>1 DEF CarveInv, CarveSent, b
      <4>3. BaseOf(Sent[k]) < b \/ (BaseOf(Sent[k]) = b /\ Sent[k].pos < j)
        BY <1>2, <1>3, <2>1, <3>1, <4>2
      <4> QED BY <1>4, <4>1, <4>3
    <3> QED BY <3>1, <3>2, <3>3
  <2> QED BY <1>2, <1>5, <1>9, <2>2, <2>3 DEF CarveSent, BaseOf, Aligned, b
<1>12. CarveFound'
  <2> SUFFICES ASSUME ~ cancelled
               PROVE  /\ \A c \in Nat : c < b /\ Aligned(c) => FoundBelow(c, BufferSize)'
                      /\ FoundBelow(reg.buffer.base, Through)'
    BY <1>1, <1>5 DEF CarveFound, Aligned, b
  <2>1. \A c \in Nat : c < b /\ Aligned(c) => FoundBelow(c, BufferSize)'
    BY <1>2, <1>8 DEF CarveInv, CarveFound, b
  <2>2. FoundBelow(b, j)
    <3>1. \A p \in 0..(BufferSize - 1) : reg.j <= p /\ p < j => ~ Accepted(p)
      BY <1>2, <1>3
    <3> QED BY <1>1, <1>2, <1>3, <3>1, FoundUpTo DEF CarveInv, b
  <2>3. ASSUME NEW k \in Starts, b <= k - 1, k - 1 < b + (j + 1),
               k - 1 + job.disk[k].record.length <= b + LengthAt(b)
        PROVE  \E m \in DOMAIN Sent' : Sent'[m].at = k - 1 /\ Sent'[m].whole
    <3>1. k \in Nat
      BY VolumeFacts
    <3>2. CASE k - 1 < b + j
      <4>1. PICK m \in DOMAIN Sent : Sent[m].at = k - 1 /\ Sent[m].whole
        BY <2>2, <2>3, <3>2 DEF FoundBelow
      <4> QED BY <1>6, <1>7, <4>1
    <3>3. CASE k - 1 = b + j
      <4>1. (k - 1 - b) + job.disk[k].record.length <= BufferSize
        BY <1>2, <2>3, WholeIsAccepted DEF CarveInv, b
      <4>2. k - 1 - b = j /\ b + j + 1 = k
        BY <1>2, <1>3, <3>1, <3>3
      <4>3. j + job.disk[b + j + 1].record.length <= BufferSize
        <5> DEFINE l == job.disk[k].record.length
        <5>1. (k - 1 - b) + l <= BufferSize /\ l = job.disk[b + j + 1].record.length
          BY <4>1, <4>2
        <5> QED BY <4>2, <5>1
      <4>4. item.at = k - 1 /\ item.whole
        BY <1>4, <3>3, <4>3
      <4> QED BY <1>6, <1>7, <4>4 DEF n
    <3> QED BY <1>2, <1>3, <2>3, <3>1, <3>2, <3>3
  <2>4. FoundBelow(reg.buffer.base, Through)'
    <3>1. reg'.buffer.base = b /\ job' = job
      BY <1>1, <1>5 DEF b
    <3> QED BY <1>8, <1>9, <2>3, <3>1 DEF FoundBelow
  <2> QED BY <2>1, <2>4
<1> QED BY <1>6, <1>10, <1>11, <1>12 DEF CarveInv

LEMMA ScanKeeps ==
  ASSUME ChannelInv, Carve, CarveInv, Scan PROVE ChannelInv' /\ CarveInv'
<1> DEFINE found == {j \in reg.j..(BufferSize - 1) : Accepted(j)}
           j == CHOOSE j \in found : \A k \in found : j <= k
<1>1. At("scan") /\ job' = job
      /\ IF found = {} THEN GoTo("next", reg) ELSE Offer(Item(j), "scan", [reg EXCEPT !.j = j + 1])
  BY DEF Scan
<1>2. CASE found = {}
  <2>1. \A p \in reg.j..(BufferSize - 1) : ~ Accepted(p)
    BY <1>2
  <2>2. GoTo("next", reg)
    BY <1>1, <1>2
  <2> QED BY <1>1, <2>1, <2>2, ScanIsThrough
<1>3. CASE found # {}
  <2>1. found \in SUBSET Nat /\ \A p \in found : p \in reg.j..(BufferSize - 1) /\ Accepted(p)
    <3>1. reg.j \in Nat
      BY SizeFacts DEF CarveInv, CarveReg
    <3> QED BY <3>1, SizeFacts
  <2>2. \A p \in reg.j..(BufferSize - 1) : Accepted(p) => p \in found
    OBVIOUS
  <2>3. Offer(Item(j), "scan", [reg EXCEPT !.j = j + 1])
    BY <1>1, <1>3
  <2> HIDE DEF found
  <2>4. j \in found /\ \A k \in found : j <= k
    BY <1>3, <2>1, LeastElement
  <2> HIDE DEF j
  <2>5. j \in reg.j..(BufferSize - 1) /\ Accepted(j)
    BY <2>1, <2>4
  <2>6. \A p \in reg.j..(BufferSize - 1) : Accepted(p) => j <= p
    BY <2>2, <2>4
  <2> QED BY <1>1, <2>3, <2>5, <2>6, RecordStep
<1> QED BY <1>2, <1>3

LEMMA StartFacts ==
  ASSUME Carve, NEW k \in Starts
  PROVE  /\ k \in Nat /\ k >= 1 /\ k <= Len(job.disk)
         /\ job.disk[k].record.length \in Nat /\ job.disk[k].record.length >= 3
         /\ job.disk[k].record.length <= Cluster + 1
         /\ k + job.disk[k].record.length - 1 <= Len(job.disk)
<1> DEFINE l == job.disk[k].record.length
<1>1. /\ k \in 1..Len(job.disk) /\ Len(job.disk) \in Nat /\ l \in 3..(Cluster + 1)
      /\ k + l - 1 <= Len(job.disk)
  BY VolumeFacts
<1>2. Cluster \in Nat
  BY SizeFacts
<1> HIDE DEF l
<1>3. k \in Nat /\ k >= 1 /\ k <= Len(job.disk) /\ l \in Nat /\ l >= 3 /\ l <= Cluster + 1
  BY <1>1, <1>2
<1> QED BY <1>1, <1>3 DEF l

\* A buffer that a record lies whole in, of those that have been read.
LEMMA BufferOf ==
  ASSUME Carve, CarveReg, reg.i > 0, NEW k \in Starts,
         k - 2 + job.disk[k].record.length < reg.i + Cluster
  PROVE  \E b \in Nat : /\ Aligned(b) /\ b <= reg.buffer.base /\ b <= k - 1
                        /\ k - 1 + job.disk[k].record.length <= b + BufferSize
<1> DEFINE base == reg.buffer.base
           first == k - 1
           l == job.disk[k].record.length
           q == first \div StepSize
           b == q * StepSize
<1>1. base \in Nat /\ Aligned(base) /\ reg.i = base + StepSize
  BY DEF CarveReg
<1>2. /\ StepSize \in Nat \ {0} /\ Cluster \in Nat /\ BufferSize = StepSize + Cluster
  BY SizeFacts
<1>3. first \in Nat /\ l \in Nat /\ l <= Cluster + 1
  <2>1. k \in Nat /\ k >= 1 /\ l \in Nat /\ l <= Cluster + 1
    BY StartFacts
  <2> HIDE DEF l
  <2> QED BY <2>1
<1>4. first + l <= reg.i + Cluster
  <2>1. k \in Nat /\ l \in Nat /\ k - 2 + l < reg.i + Cluster
    BY StartFacts
  <2>2. reg.i \in Nat
    BY DEF CarveReg
  <2> HIDE DEF l
  <2> QED BY <1>2, <2>1, <2>2
<1> HIDE DEF base, first, l
<1>5. /\ q \in Nat /\ b \in Nat /\ b <= first /\ first < (q + 1) * StepSize
      /\ (q + 1) * StepSize = b + StepSize
  <2> DEFINE p == StepSize
  <2>1. p \in Nat \ {0}
    BY <1>2
  <2> HIDE DEF p
  <2>2. /\ first \div p \in Nat /\ (first \div p) * p <= first
        /\ first < (first \div p + 1) * p
        /\ (first \div p + 1) * p = (first \div p) * p + p
    BY <1>3, <2>1, InPage
  <2>3. (first \div p) * p \in Nat
    BY <2>1, <2>2
  <2> QED BY <2>2, <2>3 DEF p
<1>6. Aligned(b)
  BY <1>2, <1>5, Multiple DEF Aligned
<1> HIDE DEF b, q
<1>7. CASE b <= base
  <2>1. first + l <= b + BufferSize
    BY <1>2, <1>3, <1>5
  <2> QED BY <1>5, <1>6, <1>7, <2>1 DEF first, l, base
<1>8. CASE ~ (b <= base)
  <2>1. first + l <= base + BufferSize
    BY <1>1, <1>2, <1>3, <1>4
  <2>2. base <= first
    BY <1>1, <1>3, <1>5, <1>8
  <2> QED BY <1>1, <2>1, <2>2 DEF first, l, base
<1> QED BY <1>7, <1>8

\* What no page of the recorder hides is in the buffer.
LEMMA NotHidden ==
  ASSUME Carve, CarveReg, NEW k \in Starts, NEW b \in Nat, Aligned(b), b <= reg.buffer.base,
         b <= k - 1, k - 1 + job.disk[k].record.length <= b + BufferSize,
         ((k - 1)..(k - 2 + job.disk[k].record.length)) \cap Hidden = {}
  PROVE  k - 1 + job.disk[k].record.length <= b + LengthAt(b)
<1> DEFINE l == job.disk[k].record.length
           d == Len(job.disk)
<1>1. k \in Nat /\ k >= 1 /\ l \in Nat /\ 3 <= l /\ d \in Nat /\ k + l - 1 <= d
  BY VolumeFacts
<1>2. b <= k - 1 /\ k - 1 + l <= b + BufferSize /\ BufferSize \in Nat
  BY SizeFacts
<1>3. ((k - 1)..(k - 2 + l)) \cap Hidden = {}
  OBVIOUS
<1> HIDE DEF l, d
<1>4. CASE b \in DOMAIN job.files
  <2> DEFINE f == job.files[b]
  <2>1. f \in Nat
    BY <1>4, VolumeFacts
  <2>2. LengthAt(b) = IF f < BufferSize THEN f ELSE BufferSize
    BY <1>4 DEF LengthAt, Least
  <2>3. b \in Bases
    <3>1. reg.buffer.base \in Nat
      BY DEF CarveReg
    <3> QED BY <3>1 DEF Bases, Aligned
  <2>4. (b + f)..(b + BufferSize - 1) \subseteq Hidden
    BY <1>4, <2>3 DEF Hidden
  <2> HIDE DEF f
  <2>5. ~ (b + f <= k - 2 + l)
    <3>1. k - 2 + l \in (k - 1)..(k - 2 + l)
      BY <1>1
    <3>2. b + f <= k - 2 + l => k - 2 + l \in (b + f)..(b + BufferSize - 1)
      BY <1>1, <1>2, <2>1
    <3> QED BY <1>3, <2>4, <3>1, <3>2
  <2>6. k - 1 + l <= b + f
    BY <1>1, <2>1, <2>5
  <2> QED BY <1>2, <2>2, <2>6 DEF l
<1>5. CASE b \notin DOMAIN job.files
  <2>1. LengthAt(b) = IF b < d THEN IF d - b < BufferSize THEN d - b ELSE BufferSize ELSE 0
    BY <1>5 DEF LengthAt, Least, d
  <2>2. b < d
    BY <1>1, <1>2
  <2>3. k - 1 + l <= b + (IF d - b < BufferSize THEN d - b ELSE BufferSize)
    BY <1>1, <1>2
  <2> QED BY <2>1, <2>2, <2>3 DEF l
<1> QED BY <1>4, <1>5

LEMMA RecordsFollow ==
  ASSUME ChannelInv, Carve, CarveInv PROVE CarvedSoFar
<1>1. ASSUME pc \in {"next", "done"}, ~ cancelled, reg.i > 0, NEW k \in Starts,
             k - 2 + job.disk[k].record.length < reg.i + Cluster,
             ((k - 1)..(k - 2 + job.disk[k].record.length)) \cap Hidden = {}
      PROVE  \E n \in DOMAIN Sent : Sent[n].at = k - 1 /\ Sent[n].whole
  <2>1. PICK b \in Nat : /\ Aligned(b) /\ b <= reg.buffer.base /\ b <= k - 1
                         /\ k - 1 + job.disk[k].record.length <= b + BufferSize
    BY <1>1, BufferOf DEF CarveInv
  <2>2. k - 1 + job.disk[k].record.length <= b + LengthAt(b)
    BY <1>1, <2>1, NotHidden DEF CarveInv
  <2>3. k - 1 < b + BufferSize
    <3>1. k \in Nat /\ job.disk[k].record.length \in Nat /\ job.disk[k].record.length >= 3
      BY StartFacts
    <3> QED BY <2>1, <3>1, SizeFacts
  <2>4. FoundBelow(b, BufferSize)
    <3>1. Through = BufferSize
      BY <1>1 DEF Through
    <3>2. reg.buffer.base \in Nat
      BY DEF CarveInv, CarveReg
    <3>3. CASE b < reg.buffer.base
      BY <1>1, <2>1, <3>3 DEF CarveInv, CarveFound
    <3>4. CASE b = reg.buffer.base
      BY <1>1, <3>1, <3>4 DEF CarveInv, CarveFound
    <3> QED BY <2>1, <3>2, <3>3, <3>4
  <2> QED BY <2>1, <2>2, <2>3, <2>4 DEF FoundBelow
<1>2. ASSUME NEW m \in DOMAIN Sent, NEW n \in DOMAIN Sent, m < n
      PROVE  /\ Sent[n].at <= Sent[m].at => Sent[m].at - Sent[n].at < Cluster
             /\ Sent[n].at = Sent[m].at => Sent[n].pos < Cluster
  <2> DEFINE bm == BaseOf(Sent[m])
             bn == BaseOf(Sent[n])
             pm == Sent[m].pos
             pn == Sent[n].pos
  <2>1. /\ bm \in Nat /\ bn \in Nat /\ Aligned(bm) /\ Aligned(bn)
        /\ pm \in Nat /\ pn \in Nat /\ pm < BufferSize
        /\ Sent[m].at = bm + pm /\ Sent[n].at = bn + pn
    BY ItemTypes DEF CarveInv, CarveSent
  <2>2. bm < bn \/ (bm = bn /\ pm < pn)
    BY <1>2 DEF CarveInv, CarveSent
  <2>3. bm < bn => bm + StepSize <= bn
    <3> HIDE DEF bm, bn
    <3> QED BY <2>1, AlignedFacts
  <2> HIDE DEF bm, bn, pm, pn
  <2>4. /\ bn + pn <= bm + pm => (bm + pm) - (bn + pn) < Cluster
        /\ bn + pn = bm + pm => pn < Cluster
    BY <2>1, <2>2, <2>3, SizeFacts
  <2> QED BY <2>1, <2>4 DEF pn
<1> QED BY <1>1, <1>2 DEF CarvedSoFar

-----------------------------------------------------------------------------
(* Together *)

LEMMA TypesFollow == ASSUME IInv PROVE TypeOK
<1>1. Sweeps("mft") \/ Sweeps("carve")
  BY DEF IInv, JobInv, Sweeps
<1>2. CASE Sweeps("mft")
  <2>1. MFTReg /\ ~ Sweeps("carve")
    BY <1>2, TableFacts DEF IInv, MFTInv, Mft
  <2> QED BY <1>2, <2>1 DEF TypeOK, MFTReg, IInv, ChannelInv
<1>3. CASE Sweeps("carve")
  <2>1. CarveReg /\ ~ Sweeps("mft")
    BY <1>3, VolumeFacts DEF IInv, CarveInv, Carve
  <2>2. reg.j <= BufferSize
    BY <2>1, SizeFacts DEF CarveReg
  <2>3. reg.buffer.base <= reg.i
    BY <2>1, SizeFacts DEF CarveReg, Blank
  <2> QED BY <1>3, <2>1, <2>2, <2>3 DEF TypeOK, CarveReg, IInv, ChannelInv
<1> QED BY <1>1, <1>2, <1>3

LEMMA AtStart ==
  ASSUME held = None, offered = None, seen = << >>, JobInv, cancelled = FALSE, pc = "next"
  PROVE  ChannelInv /\ Sent = << >> /\ Len(Sent) = 0 /\ DOMAIN Sent = {} /\ DOMAIN seen = {}
<1>1. DOMAIN seen = {} /\ SeenItems = << >>
  <2>1. DOMAIN << >> = {}
    OBVIOUS
  <2> QED BY <2>1 DEF SeenItems
<1>2. << >> \in Seq(Sendable) /\ << >> \in Seq({seen[k] : k \in DOMAIN seen})
  OBVIOUS
<1>3. ChannelInv
  BY <1>1, <1>2 DEF ChannelInv
<1>4. Sent = << >>
  <2>1. (<< >> \o << >>) \o << >> = << >>
    OBVIOUS
  <2> QED BY <1>1, <2>1 DEF Sent, Waiting
<1>5. Len(<< >>) = 0 /\ DOMAIN << >> = {}
  OBVIOUS
<1> QED BY <1>1, <1>3, <1>4, <1>5

LEMMA InitIInv == ASSUME Init PROVE IInv
<1>1. CASE \E t \in Tables :
             Start([kind |-> "mft", entries |-> t.entries, start |-> t.start],
                   MFTStart(t.entries, t.start))
  <2>1. PICK t \in Tables :
          Start([kind |-> "mft", entries |-> t.entries, start |-> t.start],
                MFTStart(t.entries, t.start))
    BY <1>1
  <2>2. /\ job = [kind |-> "mft", entries |-> t.entries, start |-> t.start]
        /\ pc = "next" /\ reg = [id |-> t.start, ads |-> << >>, row |-> None]
        /\ offered = None /\ held = None /\ seen = << >> /\ cancelled = FALSE
    BY <2>1 DEF Start, MFTStart
  <2>3. JobInv /\ Sweeps("mft") /\ job.start = t.start
    BY <2>2 DEF JobInv, Sweeps
  <2>4. Mft
    BY <2>3 DEF Mft
  <2>5. ChannelInv /\ Sent = << >> /\ Len(Sent) = 0 /\ DOMAIN Sent = {} /\ DOMAIN seen = {}
    BY <2>2, <2>3, AtStart
  <2>6. job.start \in Nat /\ Len(job.entries) \in Nat /\ ~ Sweeps("carve")
    BY <2>4, TableFacts
  <2>7. reg.id = job.start /\ reg \in [id : Nat, ads : Seq(Pieces), row : Rows \cup {None}]
    BY <2>2, <2>3, <2>6
  <2>8. Share(reg.id) = 0
    <3>1. Behind(reg.id) \in Int /\ Behind(reg.id) <= 0
      BY <2>6, <2>7 DEF Behind
    <3>2. RowsOfFirst(Behind(reg.id)) = << >>
      BY <3>1, FirstNone
    <3> QED BY <3>2 DEF Share
  <2>9. Len(Wanted) \in Nat
    <3>1. Total \in Int /\ Total <= Total
      BY <2>6 DEF Total
    <3> QED BY <2>4, <3>1, FirstIsPrefix
  <2>10. MFTReg
    BY <2>2, <2>6, <2>7 DEF MFTReg
  <2>11. MFTSent
    BY <2>5, <2>9 DEF MFTSent
  <2>12. MFTPlace
    BY <2>2, <2>5, <2>8 DEF MFTPlace
  <2> QED BY <2>3, <2>5, <2>6, <2>10, <2>11, <2>12 DEF IInv, MFTInv
<1>2. CASE \E v \in Volumes :
             Start([kind |-> "carve", disk |-> v.disk, size |-> v.size, bad |-> v.bad,
                    files |-> v.files], CarveStart)
  <2>1. PICK v \in Volumes :
          Start([kind |-> "carve", disk |-> v.disk, size |-> v.size, bad |-> v.bad,
                 files |-> v.files], CarveStart)
    BY <1>2
  <2>2. /\ job = [kind |-> "carve", disk |-> v.disk, size |-> v.size, bad |-> v.bad,
                  files |-> v.files]
        /\ pc = "next" /\ reg = [i |-> 0, j |-> 0, old |-> Blank, buffer |-> Blank]
        /\ offered = None /\ held = None /\ seen = << >> /\ cancelled = FALSE
    BY <2>1 DEF Start, CarveStart
  <2>3. JobInv /\ Sweeps("carve")
    BY <2>2 DEF JobInv, Sweeps
  <2>4. ~ Sweeps("mft")
    BY <2>3, VolumeFacts DEF Carve
  <2>5. ChannelInv /\ Len(Sent) = 0 /\ DOMAIN Sent = {}
    BY <2>2, <2>3, AtStart
  <2>6. reg.i = 0 /\ reg.j = 0 /\ reg.buffer = Blank /\ reg.old = Blank
        /\ reg = [i |-> reg.i, j |-> reg.j, old |-> reg.old, buffer |-> reg.buffer]
    BY <2>2
  <2>7. Blank \in [base : Nat, length : Nat] /\ Blank.base = 0
    BY DEF Blank
  <2>8. Aligned(0) /\ 0 \in 0..BufferSize
    BY SizeFacts DEF Aligned
  <2>9. CarveReg
    BY <2>2, <2>6, <2>7, <2>8 DEF CarveReg
  <2>10. CarveSent
    BY <2>5 DEF CarveSent
  <2>11. CarveFound
    BY <2>6 DEF CarveFound
  <2> QED BY <2>3, <2>4, <2>5, <2>9, <2>10, <2>11 DEF IInv, CarveInv
<1> QED BY <1>1, <1>2 DEF Init

LEMMA JobStays == ASSUME Next PROVE job' = job
BY DEF Next, ProducerStep, ConsumerStep, ParseEntry, NextAds, ReadBuffer, BufferIsRead, Scan,
       CancelSend, Receive, LookAtRow, LookAtRecord, Look, Cancel

LEMMA NextKeeps == ASSUME IInv, [Next]_vars PROVE IInv'
<1>1. CASE vars' = vars
  <2>1. UNCHANGED <<job, pc, reg, offered, held, seen, cancelled>>
    BY <1>1 DEF vars, producer, consumer
  <2>2. ChannelInv' /\ JobInv' /\ Sent' = Sent /\ Sweeps("mft")' = Sweeps("mft")
        /\ Sweeps("carve")' = Sweeps("carve")
    BY <2>1 DEF IInv, ChannelInv, JobInv, Sent, SeenItems, Sendable, Sweeps, Waiting
  <2>3. Sweeps("mft") => MFTInv'
    BY <2>1, <2>2, PlaceStays, SentStays DEF IInv, MFTInv
  <2>4. Sweeps("carve") => CarveInv'
    BY <2>1, <2>2, ScanStays DEF IInv
  <2> QED BY <2>2, <2>3, <2>4 DEF IInv
<1>2. CASE Next
  <2>1. job' = job
    BY <1>2, JobStays
  <2>2. JobInv' /\ Sweeps("mft")' = Sweeps("mft") /\ Sweeps("carve")' = Sweeps("carve")
    BY <2>1 DEF IInv, JobInv, Sweeps
  <2>3. Sweeps("mft") \/ Sweeps("carve")
    BY DEF IInv, JobInv, Sweeps
  <2>4. CASE Sweeps("mft")
    <3>1. ChannelInv /\ Mft /\ MFTInv /\ ~ Sweeps("carve")
      BY <2>4, TableFacts DEF IInv, Mft
    <3>2. ParseEntry \/ NextAds \/ CancelSend \/ Receive \/ LookAtRow \/ Cancel
      BY <1>2, <3>1 DEF Next, ProducerStep, ConsumerStep, ReadBuffer, BufferIsRead, Scan,
                        LookAtRecord
    <3>3. ChannelInv' /\ MFTInv'
      BY <3>1, <3>2, ParseEntryKeeps, NextAdsKeeps, CancelSendKeepsRows, ReceiveKeepsRows,
         LookAtRowKeeps, CancelKeepsRows
    <3> QED BY <2>2, <3>1, <3>3 DEF IInv
  <2>5. CASE Sweeps("carve")
    <3>1. ChannelInv /\ Carve /\ CarveInv /\ ~ Sweeps("mft")
      BY <2>5, VolumeFacts DEF IInv, Carve
    <3>2. ReadBuffer \/ BufferIsRead \/ Scan \/ CancelSend \/ Receive \/ LookAtRecord \/ Cancel
      BY <1>2, <3>1 DEF Next, ProducerStep, ConsumerStep, ParseEntry, NextAds, LookAtRow
    <3>3. ChannelInv' /\ CarveInv'
      BY <3>1, <3>2, ReadBufferKeeps, BufferIsReadKeeps, ScanKeeps, CancelSendKeepsRecords,
         ReceiveKeepsRecords, LookAtRecordKeeps, CancelKeepsRecords
    <3> QED BY <2>2, <3>1, <3>3 DEF IInv
  <2> QED BY <2>3, <2>4, <2>5
<1> QED BY <1>1, <1>2

\* The invariant is one of every behaviour.
THEOREM IInvHolds == Spec => []IInv
<1>1. Init => IInv
  BY InitIInv
<1>2. IInv /\ [Next]_vars => IInv'
  BY NextKeeps
<1> QED BY <1>1, <1>2, PTL DEF Spec

\* The channel of ParseMFTFile and of CarveUSN carries only what its own sweep
\* makes, and nothing once it is closed, whatever the table or the volume.
THEOREM TypesHold == Spec => []TypeOK
<1>1. IInv => TypeOK
  BY TypesFollow
<1> QED BY <1>1, IInvHolds, PTL

\* For every table, every start_entry, and however slow or early to cancel the
\* consumer is, ParseMFTFileWithOptions sends the rows of the usable entries
\* and of their alternate streams, in order, each once and none left out, and
\* what a consumer sees of a row is of its own entry.
THEOREM RowsAreRight == Spec => []RowsAreTheEntries
<1>1. IInv => RowsAreTheEntries
  <2> SUFFICES ASSUME IInv PROVE RowsAreTheEntries
    OBVIOUS
  <2>1. CASE Sweeps("mft")
    BY <2>1, RowsFollow DEF IInv, Mft
  <2>2. CASE ~ Sweeps("mft")
    BY <2>2 DEF RowsAreTheEntries
  <2> QED BY <2>1, <2>2
<1> QED BY <1>1, IInvHolds, PTL

\* For every volume, size of cluster and size of buffer, CarveUSN has sent every
\* record that lies behind it whole, wherever the buffers split it, but for
\* those that a recorded page hides, and a record comes a second time or before
\* one that is in front of it only out of the cluster two buffers share.
THEOREM RecordsAreFound == Spec => []CarvedSoFar
<1>1. IInv => CarvedSoFar
  <2> SUFFICES ASSUME IInv PROVE CarvedSoFar
    OBVIOUS
  <2>1. CASE Sweeps("carve")
    BY <2>1, RecordsFollow DEF IInv, Carve
  <2>2. CASE ~ Sweeps("carve")
    BY <2>2 DEF CarvedSoFar
  <2> QED BY <2>1, <2>2
<1> QED BY <1>1, IInvHolds, PTL
=============================================================================

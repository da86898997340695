--------------------------- MODULE OrderedFeedProofs ---------------------------
(***************************************************************************)
(* What holds in OrderedFeed for any number of writers on the loop and on  *)
(* threads of their own, any failures of the store and any cancellations:  *)
(* memory, listeners and the clients of the run get the events in the      *)
(* order of the file, and whoever was told that his event is delivered     *)
(* finds everything before it delivered, too.                              *)
(***************************************************************************)
EXTENDS OrderedFeed, TLAPS, FiniteSetTheorems, WellFoundedInduction

Known(w)   == w \in Lines(disk)
Failing(w) == Failed(w) \/ told[w] = "cancelled"

(* A writer makes one append.                                               *)
Once == \A i, j \in DOMAIN disk : disk[i] = disk[j] => i = j

(* Where a writer stands, what it was told and in which set of the gate its *)
(* event is agree.                                                          *)
PcFits(w) ==
    /\ w \in unnumbered <=> pc[w] \in {"writing", "written", "durable", "failed"}
    /\ w \in undelivered <=> pc[w] = "called"
    /\ pc[w] \in {"start", "writing"} => ~Known(w)
    /\ pc[w] \in {"written", "durable", "called", "delivering", "waiting"} => Known(w)
    /\ pc[w] \in {"start", "called", "raising", "delivering", "waiting"} => told[w] = "none"
    /\ pc[w] \in {"called", "raising", "delivering", "waiting"} => w \in AsyncWriters
    /\ told[w] = "ok" => Known(w) /\ pc[w] \in {"draining", "done"}
    /\ pc[w] \in {"draining", "done"} => told[w] # "none"
    /\ pc[w] = "draining" => w \in SyncWriters
    /\ told[w] = "cancelled" => w \in AsyncWriters
    /\ told[w] = "raised" => pc[w] \in {"draining", "done"}
    /\ w \in ready =>
         Known(w) /\ pc[w] \in {"delivering", "waiting", "draining", "done"}
    /\ w \in skipped =>
         Known(w) /\ pc[w] = "done" /\ told[w] = "cancelled" /\ w \notin ready

(* Who has been woken, or told that all is well, has been let through.      *)
WaitFits(w) ==
    w \in AsyncWriters /\ ((pc[w] = "waiting" /\ w \notin waiters) \/ told[w] = "ok")
      => Seq0(w) <= through

(* What is still to be let through lies above what was.                     *)
Above(w) ==
    w \in unnumbered \cup undelivered \cup ready \cup skipped /\ Known(w)
      => Seq0(w) > through

(* A line of the file is on its way, delivered, or of an append that failed *)
(* or was given up.                                                         *)
Placed(w) ==
    Known(w) =>
      \/ w \in unnumbered \cup undelivered \cup ready \cup skipped
      \/ w \in Heard \/ w = drain.item \/ Failing(w)

WritersFit ==
    \A w \in Writers : PcFits(w) /\ WaitFits(w) /\ Above(w) /\ Placed(w)

(* What a drain has in its hand is the last that was let through.           *)
HandFits ==
    /\ drain.phase \in {"deliver", "insert"} <=> drain.item # NoOne
    /\ drain.item # NoOne =>
         /\ Known(drain.item) /\ Seq0(drain.item) = through
         /\ \A w \in Lines(memory) : Seq0(w) < through
         /\ drain.phase = "insert" => told[drain.item] = "cancelled"
         /\ drain.phase = "deliver" /\ drain.item \in AsyncWriters => drain.thread = Loop

MemoryFits == \A w \in Lines(memory) : Known(w) /\ Seq0(w) <= through

SettlerFits ==
    /\ settler # "idle" => \A w \in owed : told[w] = "ok"
    /\ settler \in {"woken", "returned"} => owed \subseteq Lines(memory) \cup {drain.item}

(* The cursor is at the last event that the clients were sent, and never    *)
(* past what the gate has let through.                                      *)
FeedFits ==
    /\ \A w \in Lines(fed) : Known(w) /\ Seq0(w) <= cursor
    /\ cursor <= through
    /\ cursor # 0 => fed # <<>> /\ Seq0(fed[Len(fed)]) = cursor

FeedInv ==
    /\ TypeOK /\ Once /\ through <= Len(disk)
    /\ WritersFit /\ HandFits /\ MemoryFits /\ SettlerFits /\ FeedFits
    /\ DeliveredInOrder

-----------------------------------------------------------------------------
(* The order of the file                                                    *)

LEMMA SeqFound ==
  ASSUME disk \in Seq(Writers), NEW w, Known(w)
  PROVE  Seq0(w) \in 1 .. Len(disk) /\ disk[Seq0(w)] = w
<1>1. \E i \in DOMAIN disk : disk[i] = w
  BY DEF Known, Lines
<1>. QED  BY <1>1 DEF Seq0

LEMMA LeastNumber ==
  ASSUME NEW S \in SUBSET Nat, S # {}
  PROVE  \E n \in S : \A m \in S : n <= m
<1>1. IsWellFoundedOn(OpToRel(<, Nat), Nat)
  BY NatLessThanWellFounded
<1>2. PICK n \in S : \A m \in S : ~(<<m, n>> \in OpToRel(<, Nat))
  BY <1>1, WFMin
<1>3. \A m \in S : ~(m < n)
  BY <1>2 DEF OpToRel
<1>. QED  BY <1>3

LEMMA LowestFound ==
  ASSUME disk \in Seq(Writers), NEW S, S # {}, \A w \in S : Known(w)
  PROVE  Lowest(S) \in S /\ \A v \in S : Seq0(Lowest(S)) <= Seq0(v)
<1>1. {Seq0(w) : w \in S} \in SUBSET Nat /\ {Seq0(w) : w \in S} # {}
  BY SeqFound
<1>2. PICK n \in {Seq0(w) : w \in S} : \A m \in {Seq0(w) : w \in S} : n <= m
  BY <1>1, LeastNumber
<1>3. \E w \in S : \A v \in S : Seq0(w) <= Seq0(v)
  BY <1>2
<1>. QED  BY <1>3 DEF Lowest

(* The number of a line, to speak of it before and after a step.            *)
SeqIn(s, w) == CHOOSE i \in DOMAIN s : s[i] = w

LEMMA NumbersAre ==
  \A w : Seq0(w) = SeqIn(disk, w) /\ Seq0(w)' = SeqIn(disk', w)
  BY DEF Seq0, SeqIn

LEMMA AppendedLines ==
  ASSUME NEW T, NEW s \in Seq(T), NEW x \in T
  PROVE  /\ Append(s, x) \in Seq(T) /\ Lines(Append(s, x)) = Lines(s) \cup {x}
         /\ Append(s, x) # s /\ Append(s, x) # <<>>
         /\ Len(Append(s, x)) = Len(s) + 1 /\ Append(s, x)[Len(s) + 1] = x
         /\ \A i \in DOMAIN s : Append(s, x)[i] = s[i]
         /\ DOMAIN Append(s, x) = DOMAIN s \cup {Len(s) + 1}
         /\ \A i \in DOMAIN s : i \in Nat /\ i < Len(s) + 1
<1>1. /\ Append(s, x) \in Seq(T) /\ Len(s) \in Nat
      /\ Len(Append(s, x)) = Len(s) + 1 /\ Append(s, x)[Len(s) + 1] = x
      /\ \A i \in 1 .. Len(s) : Append(s, x)[i] = s[i]
      /\ DOMAIN s = 1 .. Len(s) /\ DOMAIN Append(s, x) = 1 .. Len(s) + 1
  OBVIOUS
<1>2. Append(s, x) # s /\ Append(s, x) # <<>>
  <2>1. \A n \in Nat : n + 1 # n /\ n + 1 # 0
    OBVIOUS
  <2>2. Len(<<>>) = 0
    OBVIOUS
  <2>3. Len(Append(s, x)) = Len(s) + 1 /\ Len(s) \in Nat
    OBVIOUS
  <2>. QED  BY <2>1, <2>2, <2>3, Zenon
<1>3. 1 .. Len(s) + 1 = 1 .. Len(s) \cup {Len(s) + 1}
  BY <1>1
<1>4. Lines(Append(s, x)) = Lines(s) \cup {x}
  BY <1>1, <1>3 DEF Lines
<1>5. DOMAIN Append(s, x) = DOMAIN s \cup {Len(s) + 1}
  BY <1>1, <1>3
<1>6. \A i \in DOMAIN s : i \in Nat /\ i < Len(s) + 1
  BY <1>1
<1>7. \A i \in DOMAIN s : Append(s, x)[i] = s[i]
  BY <1>1
<1>. QED  BY <1>1, <1>2, <1>4, <1>5, <1>6, <1>7

LEMMA LineWritten ==
  ASSUME disk \in Seq(Writers), Once, NEW w \in Writers, ~Known(w),
         disk' = Append(disk, w)
  PROVE  /\ Once' /\ Lines(disk') = Lines(disk) \cup {w}
         /\ \A v : Known(v) => Seq0(v)' = Seq0(v)
         /\ Seq0(w)' = Len(disk) + 1 /\ Len(disk') = Len(disk) + 1
<1>1. /\ disk' \in Seq(Writers) /\ Lines(disk') = Lines(disk) \cup {w}
      /\ Len(disk) \in Nat /\ Len(disk') = Len(disk) + 1 /\ disk'[Len(disk) + 1] = w
      /\ \A i \in DOMAIN disk : disk'[i] = disk[i] /\ disk'[i] # w /\ i # Len(disk) + 1
      /\ DOMAIN disk' = DOMAIN disk \cup {Len(disk) + 1}
  <2>1. \A i \in DOMAIN disk : disk[i] # w
    BY DEF Known, Lines
  <2>. QED  BY <2>1, AppendedLines
<1>2. Once'
  BY <1>1 DEF Once
<1>3. ASSUME NEW v, v \in Lines(disk')
      PROVE  SeqIn(disk', v) \in DOMAIN disk' /\ disk'[SeqIn(disk', v)] = v
  <2>1. \E i \in DOMAIN disk' : disk'[i] = v
    BY <1>3 DEF Lines
  <2>. QED  BY <2>1 DEF SeqIn
<1>4. ASSUME NEW v, Known(v) PROVE SeqIn(disk', v) = SeqIn(disk, v)
  <2>1. SeqIn(disk, v) \in DOMAIN disk /\ disk[SeqIn(disk, v)] = v
    BY <1>4, SeqFound, NumbersAre
  <2>. QED  BY <1>1, <1>2, <1>3, <1>4, <2>1 DEF Once, Known
<1>5. SeqIn(disk', w) = Len(disk) + 1
  BY <1>1, <1>3
<1>. QED  BY <1>1, <1>2, <1>4, <1>5, NumbersAre

(* A sequence in order that gets a higher event.                            *)
LEMMA AscendingGrows ==
  ASSUME NEW s \in Seq(Writers), NEW x \in Writers, Ascending(s),
         \A w \in Lines(s) : Seq0(w) < Seq0(x)
  PROVE  Ascending(Append(s, x))
<1>1. /\ \A i \in DOMAIN s : Append(s, x)[i] = s[i] /\ s[i] \in Lines(s) /\ i \in Nat /\ i < Len(s) + 1
      /\ Append(s, x)[Len(s) + 1] = x /\ Len(s) \in Nat
      /\ DOMAIN Append(s, x) = DOMAIN s \cup {Len(s) + 1}
  BY AppendedLines DEF Lines
<1>. SUFFICES ASSUME NEW i \in DOMAIN Append(s, x), NEW j \in DOMAIN Append(s, x), i < j
              PROVE  Seq0(Append(s, x)[i]) < Seq0(Append(s, x)[j])
  BY DEF Ascending
<1>2. i \in DOMAIN s
  BY <1>1
<1>3. CASE j \in DOMAIN s
  BY <1>1, <1>2, <1>3 DEF Ascending
<1>4. CASE j = Len(s) + 1
  BY <1>1, <1>2, <1>4
<1>. QED  BY <1>1, <1>3, <1>4

(* The insertion is an append when nothing in memory is higher.             *)
LEMMA InsortAtEnd ==
  ASSUME memory \in Seq(Writers), NEW x \in Writers, Seq0(x) \in Nat,
         \A w \in Lines(memory) : Seq0(w) \in Nat /\ Seq0(w) < Seq0(x)
  PROVE  Insort(x) = Append(memory, x)
<1>. DEFINE S == {0} \cup {i \in DOMAIN memory : Seq0(memory[i]) <= Seq0(x)}
<1>1. S = 0 .. Len(memory)
  <2>1. \A i \in DOMAIN memory : Seq0(memory[i]) <= Seq0(x)
    BY DEF Lines
  <2>2. DOMAIN memory = 1 .. Len(memory) /\ Len(memory) \in Nat
    OBVIOUS
  <2>. QED  BY <2>1, <2>2
<1>2. Max(S) = Len(memory)
  BY <1>1 DEF Max
<1>3. SubSeq(memory, 1, Len(memory)) = memory
  OBVIOUS
<1>4. SubSeq(memory, Len(memory) + 1, Len(memory)) = <<>>
  OBVIOUS
<1>5. memory \o <<x>> \o <<>> = Append(memory, x)
  OBVIOUS
<1>. QED  BY <1>2, <1>3, <1>4, <1>5 DEF Insort

-----------------------------------------------------------------------------
(* Steps of one writer                                                      *)

(* The step is one of w alone: the file, what has been let through and what *)
(* has been delivered stay, and no other writer gets further.               *)
StepOf(w) ==
    /\ disk' = disk /\ through' = through /\ drain' = drain
    /\ memory' = memory /\ heard' = heard /\ cursor' = cursor /\ fed' = fed
    /\ settler' = settler /\ owed' = owed
    /\ told[w] \in {"ok", "cancelled"} => told'[w] = told[w]
    /\ \A v \in Writers \ {w} :
         /\ pc'[v] = pc[v] /\ told'[v] = told[v]
         /\ v \in unnumbered' <=> v \in unnumbered
         /\ v \in undelivered' <=> v \in undelivered
         /\ v \in ready' <=> v \in ready
         /\ v \in skipped' <=> v \in skipped
         /\ v \in waiters' <=> v \in waiters

LEMMA SameNumbers ==
  ASSUME disk' = disk
  PROVE  \A w : Seq0(w)' = Seq0(w)
BY NumbersAre

LEMMA SameOrder ==
  ASSUME disk' = disk, memory' = memory, heard' = heard, fed' = fed
  PROVE  DeliveredInOrder' = DeliveredInOrder
<1>1. Ascending(memory)' = Ascending(memory)
  BY SameNumbers DEF Ascending
<1>2. Ascending([i \in DOMAIN heard |-> heard[i].event])'
        = Ascending([i \in DOMAIN heard |-> heard[i].event])
  BY SameNumbers DEF Ascending
<1>3. Ascending(fed)' = Ascending(fed)
  BY SameNumbers DEF Ascending
<1>4. Heard' = Heard
  BY DEF Heard
<1>. QED  BY <1>1, <1>2, <1>3, <1>4 DEF DeliveredInOrder, Lines

LEMMA WriterSteps ==
  ASSUME FeedInv, NEW w \in Writers, StepOf(w), TypeOK',
         PcFits(w)', WaitFits(w)', Above(w)', Placed(w)'
  PROVE  FeedInv'
<1>1. \A v \in Writers \ {w} : PcFits(v)'
  BY DEF FeedInv, WritersFit, PcFits, StepOf, Known
<1>2. \A v \in Writers \ {w} : WaitFits(v)'
  BY SameNumbers DEF FeedInv, WritersFit, WaitFits, StepOf
<1>3. \A v \in Writers \ {w} : Above(v)'
  BY SameNumbers DEF FeedInv, WritersFit, Above, StepOf, Known
<1>4. \A v \in Writers \ {w} : Placed(v)'
  BY DEF FeedInv, WritersFit, Placed, StepOf, Known, Heard, Failing, Failed
<1>5. WritersFit'
  BY <1>1, <1>2, <1>3, <1>4 DEF WritersFit
<1>6. HandFits'
  <2>1. drain.item # NoOne => drain.item \in Writers
    BY DEF FeedInv, TypeOK, GateTypeOK
  <2>. QED  BY <2>1, SameNumbers DEF FeedInv, HandFits, StepOf, Known, Lines
<1>7. MemoryFits'
  BY SameNumbers DEF FeedInv, MemoryFits, StepOf, Known, Lines
<1>8. SettlerFits'
  BY DEF FeedInv, SettlerFits, StepOf, TypeOK, GateTypeOK
<1>9. FeedFits'
  BY SameNumbers DEF FeedInv, FeedFits, StepOf, Known
<1>10. DeliveredInOrder'
  BY SameOrder DEF FeedInv, StepOf
<1>11. Once' /\ (through <= Len(disk))'
  BY DEF FeedInv, Once, StepOf
<1>. QED  BY <1>5, <1>6, <1>7, <1>8, <1>9, <1>10, <1>11 DEF FeedInv

LEMMA RegisterKeeps ==
  ASSUME FeedInv, NEW w \in Writers, Register(w), UNCHANGED feedVars
  PROVE  FeedInv'
<1>. USE DEF Register, Goto, writerVars, setVars, drainVars, waitVars, outVars, boundVars, feedVars
<1>1. TypeOK'
  BY DEF FeedInv, TypeOK, GateTypeOK, Places, Threads, Home
<1>2. StepOf(w)
  BY DEF FeedInv, WritersFit, PcFits, TypeOK, GateTypeOK, StepOf
<1>3. PcFits(w)'
  BY DEF FeedInv, WritersFit, PcFits, Above, TypeOK, GateTypeOK, Known
<1>4. WaitFits(w)'
  BY SameNumbers DEF FeedInv, WritersFit, PcFits, WaitFits, TypeOK, GateTypeOK
<1>5. Above(w)'
  BY SameNumbers DEF FeedInv, WritersFit, PcFits, Above, TypeOK, GateTypeOK, Known
<1>6. Placed(w)'
  BY DEF FeedInv, WritersFit, PcFits, Placed, TypeOK, GateTypeOK, Known, Heard, Failing, Failed
<1>. QED  BY <1>1, <1>2, <1>3, <1>4, <1>5, <1>6, WriterSteps

LEMMA FlushKeeps ==
  ASSUME FeedInv, NEW w \in Writers, Flush(w), UNCHANGED feedVars
  PROVE  FeedInv'
<1>. USE DEF Flush, Goto, writerVars, setVars, drainVars, waitVars, outVars, boundVars, feedVars
<1>1. TypeOK'
  BY DEF FeedInv, TypeOK, GateTypeOK, Places, Threads, Home
<1>2. StepOf(w)
  BY DEF FeedInv, WritersFit, PcFits, TypeOK, GateTypeOK, StepOf
<1>3. PcFits(w)'
  BY DEF FeedInv, WritersFit, PcFits, Above, TypeOK, GateTypeOK, Known
<1>4. WaitFits(w)'
  BY SameNumbers DEF FeedInv, WritersFit, PcFits, WaitFits, TypeOK, GateTypeOK
<1>5. Above(w)'
  BY SameNumbers DEF FeedInv, WritersFit, PcFits, Above, TypeOK, GateTypeOK, Known
<1>6. Placed(w)'
  BY DEF FeedInv, WritersFit, PcFits, Placed, TypeOK, GateTypeOK, Known, Heard, Failing, Failed
<1>. QED  BY <1>1, <1>2, <1>3, <1>4, <1>5, <1>6, WriterSteps

LEMMA StoreFailsKeeps ==
  ASSUME FeedInv, NEW w \in Writers, StoreFails(w), UNCHANGED feedVars
  PROVE  FeedInv'
<1>. USE DEF StoreFails, Goto, writerVars, setVars, drainVars, waitVars, outVars, boundVars, feedVars
<1>1. TypeOK'
  BY GateBoundAssumption DEF FeedInv, TypeOK, GateTypeOK, Places, Threads, Home
<1>2. StepOf(w)
  BY DEF FeedInv, WritersFit, PcFits, TypeOK, GateTypeOK, StepOf
<1>3. PcFits(w)'
  BY DEF FeedInv, WritersFit, PcFits, Above, TypeOK, GateTypeOK, Known
<1>4. WaitFits(w)'
  BY SameNumbers DEF FeedInv, WritersFit, PcFits, WaitFits, TypeOK, GateTypeOK
<1>5. Above(w)'
  BY SameNumbers DEF FeedInv, WritersFit, PcFits, Above, TypeOK, GateTypeOK, Known
<1>6. Placed(w)'
  BY DEF FeedInv, WritersFit, PcFits, Placed, TypeOK, GateTypeOK, Known, Heard, Failing, Failed
<1>. QED  BY <1>1, <1>2, <1>3, <1>4, <1>5, <1>6, WriterSteps

LEMMA CommitKeeps ==
  ASSUME FeedInv, NEW w \in Writers, Commit(w), UNCHANGED feedVars
  PROVE  FeedInv'
<1>. USE DEF Commit, Goto, CallDrain, Tell, writerVars, setVars, drainVars, waitVars, outVars, boundVars, feedVars
<1>1. TypeOK'
  BY DEF FeedInv, TypeOK, GateTypeOK, Places, Threads, Home
<1>2. StepOf(w)
  BY WriterAssumption DEF FeedInv, WritersFit, PcFits, TypeOK, GateTypeOK, StepOf
<1>3. PcFits(w)'
  BY DEF FeedInv, WritersFit, PcFits, Above, TypeOK, GateTypeOK, Known
<1>4. WaitFits(w)'
  BY WriterAssumption DEF FeedInv, WritersFit, PcFits, WaitFits, TypeOK, GateTypeOK
<1>5. Above(w)'
  BY SameNumbers DEF FeedInv, WritersFit, PcFits, Above, TypeOK, GateTypeOK, Known
<1>6. Placed(w)'
  BY DEF FeedInv, WritersFit, PcFits, Placed, TypeOK, GateTypeOK, Known, Heard, Failing, Failed
<1>. QED  BY <1>1, <1>2, <1>3, <1>4, <1>5, <1>6, WriterSteps

LEMMA ReturnKeeps ==
  ASSUME FeedInv, NEW w \in Writers, Return(w), UNCHANGED feedVars
  PROVE  FeedInv'
<1>. USE DEF Return, Goto, writerVars, setVars, drainVars, waitVars, outVars, boundVars, feedVars
<1>1. TypeOK'
  BY DEF FeedInv, TypeOK, GateTypeOK, Places, Threads, Home
<1>2. StepOf(w)
  BY DEF FeedInv, WritersFit, PcFits, TypeOK, GateTypeOK, StepOf
<1>3. PcFits(w)'
  BY DEF FeedInv, WritersFit, PcFits, Above, TypeOK, GateTypeOK, Known
<1>4. WaitFits(w)'
  BY SameNumbers DEF FeedInv, WritersFit, PcFits, WaitFits, TypeOK, GateTypeOK
<1>5. Above(w)'
  BY SameNumbers DEF FeedInv, WritersFit, PcFits, Above, TypeOK, GateTypeOK, Known
<1>6. Placed(w)'
  BY DEF FeedInv, WritersFit, PcFits, Placed, TypeOK, GateTypeOK, Known, Heard, Failing, Failed
<1>. QED  BY <1>1, <1>2, <1>3, <1>4, <1>5, <1>6, WriterSteps

LEMMA CallbackKeeps ==
  ASSUME FeedInv, NEW w \in Writers, Callback(w), UNCHANGED feedVars
  PROVE  FeedInv'
<1>. USE DEF Callback, Goto, CallDrain, writerVars, setVars, drainVars, waitVars, outVars, boundVars, feedVars
<1>1. TypeOK'
  BY DEF FeedInv, TypeOK, GateTypeOK, Places, Threads, Home
<1>2. StepOf(w)
  BY DEF FeedInv, WritersFit, PcFits, TypeOK, GateTypeOK, StepOf
<1>3. PcFits(w)'
  BY DEF FeedInv, WritersFit, PcFits, Above, TypeOK, GateTypeOK, Known
<1>4. WaitFits(w)'
  BY SameNumbers DEF FeedInv, WritersFit, PcFits, WaitFits, TypeOK, GateTypeOK
<1>5. Above(w)'
  BY SameNumbers DEF FeedInv, WritersFit, PcFits, Above, TypeOK, GateTypeOK, Known
<1>6. Placed(w)'
  BY DEF FeedInv, WritersFit, PcFits, Placed, TypeOK, GateTypeOK, Known, Heard, Failing, Failed
<1>. QED  BY <1>1, <1>2, <1>3, <1>4, <1>5, <1>6, WriterSteps

LEMMA WakeKeeps ==
  ASSUME FeedInv, NEW w \in Writers, Wake(w), UNCHANGED feedVars
  PROVE  FeedInv'
<1>. USE DEF Wake, Goto, CallDrain, writerVars, setVars, drainVars, waitVars, outVars, boundVars, feedVars
<1>1. TypeOK'
  BY DEF FeedInv, TypeOK, GateTypeOK, Places, Threads, Home
<1>2. StepOf(w)
  BY DEF FeedInv, WritersFit, PcFits, TypeOK, GateTypeOK, StepOf
<1>3. PcFits(w)'
  <2>1. Known(w) /\ Seq0(w) \in Nat /\ through \in Nat
    BY SeqFound DEF FeedInv, WritersFit, PcFits, TypeOK, GateTypeOK
  <2>2. ~(Seq0(w) <= through)
    BY <2>1 DEF FeedInv, WritersFit, PcFits, Above
  <2>. QED  BY <2>1, <2>2 DEF FeedInv, WritersFit, PcFits, TypeOK, GateTypeOK, Known
<1>4. WaitFits(w)'
  BY SameNumbers DEF FeedInv, WritersFit, PcFits, WaitFits, TypeOK, GateTypeOK
<1>5. Above(w)'
  BY SameNumbers DEF FeedInv, WritersFit, PcFits, Above, TypeOK, GateTypeOK, Known
<1>6. Placed(w)'
  BY DEF FeedInv, WritersFit, PcFits, Placed, TypeOK, GateTypeOK, Known, Heard, Failing, Failed
<1>. QED  BY <1>1, <1>2, <1>3, <1>4, <1>5, <1>6, WriterSteps

LEMMA RaiseKeeps ==
  ASSUME FeedInv, NEW w \in Writers, Raise(w), UNCHANGED feedVars
  PROVE  FeedInv'
<1>. USE DEF Raise, Goto, Tell, writerVars, setVars, drainVars, waitVars, outVars, boundVars, feedVars
<1>1. TypeOK'
  BY DEF FeedInv, TypeOK, GateTypeOK, Places, Threads, Home
<1>2. StepOf(w)
  BY DEF FeedInv, WritersFit, PcFits, TypeOK, GateTypeOK, StepOf
<1>3. PcFits(w)'
  BY DEF FeedInv, WritersFit, PcFits, Above, TypeOK, GateTypeOK, Known
<1>4. WaitFits(w)'
  BY SameNumbers DEF FeedInv, WritersFit, PcFits, WaitFits, TypeOK, GateTypeOK
<1>5. Above(w)'
  BY SameNumbers DEF FeedInv, WritersFit, PcFits, Above, TypeOK, GateTypeOK, Known
<1>6. Placed(w)'
  BY DEF FeedInv, WritersFit, PcFits, Placed, TypeOK, GateTypeOK, Known, Heard, Failing, Failed
<1>. QED  BY <1>1, <1>2, <1>3, <1>4, <1>5, <1>6, WriterSteps

LEMMA WaitDeliveredKeeps ==
  ASSUME FeedInv, NEW w \in Writers, WaitDelivered(w), UNCHANGED feedVars
  PROVE  FeedInv'
<1>. USE DEF WaitDelivered, Goto, Tell, LetThrough, writerVars, setVars, drainVars, waitVars, outVars, boundVars, feedVars
<1>1. TypeOK'
  BY DEF FeedInv, TypeOK, GateTypeOK, Places, Threads, Home
<1>2. StepOf(w)
  BY DEF FeedInv, WritersFit, PcFits, TypeOK, GateTypeOK, StepOf
<1>3. PcFits(w)'
  BY DEF FeedInv, WritersFit, PcFits, Above, TypeOK, GateTypeOK, Known
<1>4. WaitFits(w)'
  BY SameNumbers DEF FeedInv, WritersFit, PcFits, WaitFits, TypeOK, GateTypeOK
<1>5. Above(w)'
  BY SameNumbers DEF FeedInv, WritersFit, PcFits, Above, TypeOK, GateTypeOK, Known
<1>6. Placed(w)'
  BY DEF FeedInv, WritersFit, PcFits, Placed, TypeOK, GateTypeOK, Known, Heard, Failing, Failed
<1>. QED  BY <1>1, <1>2, <1>3, <1>4, <1>5, <1>6, WriterSteps

LEMMA ResolvedKeeps ==
  ASSUME FeedInv, NEW w \in Writers, Resolved(w), UNCHANGED feedVars
  PROVE  FeedInv'
<1>. USE DEF Resolved, Goto, Tell, writerVars, setVars, drainVars, waitVars, outVars, boundVars, feedVars
<1>1. TypeOK'
  BY DEF FeedInv, TypeOK, GateTypeOK, Places, Threads, Home
<1>2. StepOf(w)
  BY DEF FeedInv, WritersFit, PcFits, TypeOK, GateTypeOK, StepOf
<1>3. PcFits(w)'
  BY DEF FeedInv, WritersFit, PcFits, Above, TypeOK, GateTypeOK, Known
<1>4. WaitFits(w)'
  BY SameNumbers DEF FeedInv, WritersFit, PcFits, WaitFits, TypeOK, GateTypeOK
<1>5. Above(w)'
  BY SameNumbers DEF FeedInv, WritersFit, PcFits, Above, TypeOK, GateTypeOK, Known
<1>6. Placed(w)'
  BY DEF FeedInv, WritersFit, PcFits, Placed, TypeOK, GateTypeOK, Known, Heard, Failing, Failed
<1>. QED  BY <1>1, <1>2, <1>3, <1>4, <1>5, <1>6, WriterSteps

LEMMA CancelWaiterKeeps ==
  ASSUME FeedInv, NEW w \in Writers, CancelWaiter(w), UNCHANGED feedVars
  PROVE  FeedInv'
<1>. USE DEF CancelWaiter, Goto, Tell, GivesUp, CallDrain, writerVars, setVars, drainVars, waitVars, outVars, boundVars, feedVars
<1>1. TypeOK'
  BY GateBoundAssumption DEF FeedInv, TypeOK, GateTypeOK, Places, Threads, Home
<1>2. StepOf(w)
  BY DEF FeedInv, WritersFit, PcFits, TypeOK, GateTypeOK, StepOf
<1>3. PcFits(w)'
  BY DEF FeedInv, WritersFit, PcFits, Above, TypeOK, GateTypeOK, Known
<1>4. WaitFits(w)'
  BY SameNumbers DEF FeedInv, WritersFit, PcFits, WaitFits, TypeOK, GateTypeOK
<1>5. Above(w)'
  BY SameNumbers DEF FeedInv, WritersFit, PcFits, Above, TypeOK, GateTypeOK, Known
<1>6. Placed(w)'
  BY DEF FeedInv, WritersFit, PcFits, Placed, TypeOK, GateTypeOK, Known, Heard, Failing, Failed
<1>. QED  BY <1>1, <1>2, <1>3, <1>4, <1>5, <1>6, WriterSteps

-----------------------------------------------------------------------------
(* Steps of the drain that let nothing through                              *)

LEMMA DrainSteps ==
  ASSUME FeedInv, UNCHANGED <<disk, writerVars, setVars, through, outVars, feedVars>>,
         drain'.item = drain.item, TypeOK', \A w \in Writers : WaitFits(w)',
         HandFits', SettlerFits'
  PROVE  FeedInv'
<1>. USE DEF writerVars, setVars, outVars, feedVars
<1>1. ASSUME NEW w \in Writers PROVE PcFits(w)' /\ Above(w)' /\ Placed(w)'
  <2>1. PcFits(w)'
    BY DEF FeedInv, WritersFit, PcFits, Known
  <2>2. Above(w)'
    BY SameNumbers DEF FeedInv, WritersFit, Above, Known
  <2>3. Placed(w)'
    BY DEF FeedInv, WritersFit, Placed, Known, Heard, Failing, Failed
  <2>. QED  BY <2>1, <2>2, <2>3
<1>2. WritersFit'
  BY <1>1 DEF WritersFit
<1>3. MemoryFits'
  BY SameNumbers DEF FeedInv, MemoryFits, Known, Lines
<1>4. FeedFits'
  BY SameNumbers DEF FeedInv, FeedFits, Known
<1>5. DeliveredInOrder'
  BY SameOrder DEF FeedInv
<1>6. Once' /\ (through <= Len(disk))'
  BY DEF FeedInv, Once
<1>. QED  BY <1>2, <1>3, <1>4, <1>5, <1>6 DEF FeedInv

LEMMA SameHand ==
  ASSUME FeedInv, disk' = disk, through' = through, memory' = memory, told' = told,
         drain'.item = drain.item,
         drain' = drain \/ (drain.item = NoOne /\ drain'.phase \notin {"deliver", "insert"})
  PROVE  HandFits'
BY SameNumbers DEF FeedInv, HandFits, Known, Lines

(* When the gate is idle, all that anybody was told is delivered is.        *)
LEMMA IdleIsSettled ==
  ASSUME FeedInv, GateIdle, NEW w \in Writers, told[w] = "ok"
  PROVE  w \in Lines(memory) \cup {drain.item}
<1>1. Known(w) /\ ~Failing(w)
  BY DEF FeedInv, WritersFit, PcFits, Failing, Failed
<1>2. w \in Heard \/ w = drain.item
  BY <1>1 DEF FeedInv, WritersFit, Placed, GateIdle
<1>. QED  BY <1>2 DEF FeedInv, DeliveredInOrder

LEMMA RunForwardKeeps ==
  ASSUME FeedInv, RunForward, UNCHANGED feedVars
  PROVE  FeedInv'
<1>. USE DEF RunForward, CallDrain, writerVars, setVars, waitVars, outVars, boundVars, feedVars
<1>1. TypeOK'
  <2>1. forwards' \in Nat /\ calls' \subseteq Threads
    BY DEF FeedInv, TypeOK, GateTypeOK, Threads
  <2>. QED  BY <2>1 DEF FeedInv, TypeOK, GateTypeOK
<1>2. \A w \in Writers : WaitFits(w)'
  BY SameNumbers DEF FeedInv, WritersFit, WaitFits
<1>3. HandFits'
  BY SameHand
<1>4. SettlerFits'
  BY DEF FeedInv, SettlerFits
<1>. QED  BY <1>1, <1>2, <1>3, <1>4, DrainSteps

LEMMA BeginDrainKeeps ==
  ASSUME FeedInv, NEW t \in Threads, BeginDrain(t), UNCHANGED feedVars
  PROVE  FeedInv'
<1>. USE DEF BeginDrain, writerVars, setVars, waitVars, outVars, boundVars, feedVars, NoDrain
<1>1. TypeOK'
  <2>1. missed' \in BOOLEAN
    <3>1. CASE drain = NoDrain
      BY <3>1, Zenon DEF FeedInv, TypeOK, GateTypeOK
    <3>2. CASE drain # NoDrain
      BY <3>2, Zenon
    <3>. QED  BY <3>1, <3>2
  <2>2. drain' \in [thread : Threads \cup {NoOne},
                    phase : {"off", "check", "deliver", "insert", "finish"},
                    item : Writers \cup {NoOne}]
    BY DEF FeedInv, TypeOK, GateTypeOK
  <2>. QED  BY <2>1, <2>2 DEF FeedInv, TypeOK, GateTypeOK
<1>2. \A w \in Writers : WaitFits(w)'
  BY SameNumbers DEF FeedInv, WritersFit, WaitFits
<1>3. drain'.item = drain.item
  BY DEF FeedInv, TypeOK, GateTypeOK
<1>4. drain' = drain \/ (drain.item = NoOne /\ drain'.phase \notin {"deliver", "insert"})
  OBVIOUS
<1>5. HandFits'
  BY <1>3, <1>4, SameHand
<1>6. SettlerFits'
  BY <1>3 DEF FeedInv, SettlerFits
<1>. QED  BY <1>1, <1>2, <1>3, <1>5, <1>6, DrainSteps

LEMMA FinishDrainKeeps ==
  ASSUME FeedInv, NEW t \in Threads, FinishDrain(t), UNCHANGED feedVars
  PROVE  FeedInv'
<1>. USE DEF FinishDrain, writerVars, setVars, outVars, boundVars, feedVars, NoDrain
<1>1. TypeOK'
  BY DEF FeedInv, TypeOK, GateTypeOK
<1>2. ASSUME NEW w \in Writers PROVE WaitFits(w)'
  <2>1. CASE pc[w] = "waiting"
    <3>1. Known(w) /\ Seq0(w) \in Nat /\ through \in Nat
      BY <2>1, SeqFound DEF FeedInv, WritersFit, PcFits, TypeOK, GateTypeOK
    <3>. QED  BY <2>1, <3>1, SameNumbers DEF FeedInv, WritersFit, WaitFits
  <2>2. CASE pc[w] # "waiting"
    BY <2>2, SameNumbers DEF FeedInv, WritersFit, WaitFits
  <2>. QED  BY <2>1, <2>2
<1>3. drain.item = NoOne /\ drain'.item = NoOne /\ drain'.phase = "off"
  BY DEF FeedInv, HandFits
<1>4. HandFits'
  BY <1>3, SameHand
<1>5. SettlerFits'
  <2>1. CASE settler = "waiting" /\ GateIdle
    <3>1. \A w \in owed : w \in Writers /\ told[w] = "ok"
      BY <2>1 DEF FeedInv, SettlerFits, TypeOK, GateTypeOK
    <3>2. owed \subseteq Lines(memory) \cup {drain.item}
      BY <2>1, <3>1, IdleIsSettled
    <3>. QED  BY <1>3, <3>1, <3>2 DEF SettlerFits
  <2>2. CASE ~(settler = "waiting" /\ GateIdle)
    BY <1>3, <2>2 DEF FeedInv, SettlerFits
  <2>. QED  BY <2>1, <2>2
<1>. QED  BY <1>1, <1>2, <1>3, <1>4, <1>5, DrainSteps

LEMMA SettleKeeps ==
  ASSUME FeedInv, Settle \/ Settled, UNCHANGED feedVars
  PROVE  FeedInv'
<1>. USE DEF Settle, Settled, SettledNow, writerVars, setVars, drainVars, outVars, boundVars, feedVars
<1>1. TypeOK'
  BY DEF FeedInv, TypeOK, GateTypeOK
<1>2. \A w \in Writers : WaitFits(w)'
  BY SameNumbers DEF FeedInv, WritersFit, WaitFits
<1>3. HandFits'
  BY SameHand
<1>4. SettlerFits'
  <2>1. CASE Settle /\ GateIdle
    <3>1. owed' \subseteq Lines(memory) \cup {drain.item}
      BY <2>1, IdleIsSettled
    <3>. QED  BY <2>1, <3>1 DEF SettlerFits
  <2>2. CASE Settle /\ ~GateIdle
    BY <2>2 DEF SettlerFits
  <2>3. CASE Settled
    BY <2>3 DEF FeedInv, SettlerFits
  <2>. QED  BY <2>1, <2>2, <2>3
<1>. QED  BY <1>1, <1>2, <1>3, <1>4, DrainSteps

-----------------------------------------------------------------------------
(* A line is written                                                        *)

LEMMA WriteLineKeeps ==
  ASSUME FeedInv, NEW w \in Writers, WriteLine(w), UNCHANGED feedVars
  PROVE  FeedInv'
<1>. USE DEF WriteLine, Goto, setVars, drainVars, waitVars, outVars, boundVars, feedVars
<1>1. disk \in Seq(Writers) /\ Len(disk) \in Nat /\ through \in Nat /\ through <= Len(disk)
  BY DEF FeedInv, TypeOK, GateTypeOK
<1>2. ~Known(w)
  BY DEF FeedInv, WritersFit, PcFits
<1>3. /\ Once' /\ Lines(disk') = Lines(disk) \cup {w} /\ Len(disk') = Len(disk) + 1
      /\ Seq0(w)' = Len(disk) + 1
  BY <1>1, <1>2, LineWritten DEF FeedInv
<1>4. \A v : Known(v) => Known(v)' /\ Seq0(v)' = Seq0(v)
  BY <1>1, <1>2, <1>3, LineWritten DEF FeedInv, Known
<1>5. \A v : v # w => (Known(v)' <=> Known(v))
  BY <1>3 DEF Known
<1>6. TypeOK'
  <2>1. disk' \in Seq(Writers)
    BY <1>1
  <2>. QED  BY <2>1 DEF FeedInv, TypeOK, GateTypeOK, Places
<1>7. (through <= Len(disk))'
  BY <1>1, <1>3
<1>8. ASSUME NEW v \in Writers PROVE PcFits(v)' /\ WaitFits(v)' /\ Above(v)' /\ Placed(v)'
  <2>1. PcFits(v)'
    BY <1>3, <1>5 DEF FeedInv, WritersFit, PcFits, TypeOK, GateTypeOK, Known
  <2>2. WaitFits(v)'
    BY <1>4 DEF FeedInv, WritersFit, PcFits, WaitFits, TypeOK, GateTypeOK
  <2>3. Above(v)'
    BY <1>1, <1>3, <1>4, <1>5 DEF FeedInv, WritersFit, Above
  <2>4. Placed(v)'
    BY <1>5 DEF FeedInv, WritersFit, PcFits, Placed, TypeOK, GateTypeOK, Heard, Failing, Failed
  <2>. QED  BY <2>1, <2>2, <2>3, <2>4
<1>9. WritersFit'
  BY <1>8 DEF WritersFit
<1>10. HandFits'
  BY <1>4 DEF FeedInv, HandFits, MemoryFits
<1>11. MemoryFits'
  BY <1>4 DEF FeedInv, MemoryFits
<1>12. SettlerFits'
  BY DEF FeedInv, SettlerFits
<1>13. FeedFits'
  <2>1. cursor # 0 => Known(fed[Len(fed)])
    <3>1. fed \in Seq(Writers)
      BY DEF FeedInv, TypeOK
    <3>2. fed # <<>> => Len(fed) \in DOMAIN fed
      BY <3>1
    <3>. QED  BY <3>2 DEF FeedInv, FeedFits, Lines
  <2>. QED  BY <1>4, <2>1 DEF FeedInv, FeedFits
<1>14. DeliveredInOrder'
  <2>1. \A v \in Lines(memory) \cup Lines(fed) \cup Heard : Seq0(v)' = Seq0(v)
    BY <1>4 DEF FeedInv, MemoryFits, FeedFits, DeliveredInOrder
  <2>2. Ascending(memory)'
    BY <2>1 DEF FeedInv, DeliveredInOrder, Ascending, Lines
  <2>3. Ascending(fed)'
    BY <2>1 DEF FeedInv, DeliveredInOrder, Ascending, Lines
  <2>4. Ascending([i \in DOMAIN heard |-> heard[i].event])'
    BY <2>1 DEF FeedInv, DeliveredInOrder, Ascending, Heard
  <2>. QED  BY <2>2, <2>3, <2>4 DEF FeedInv, DeliveredInOrder, Heard
<1>. QED  BY <1>3, <1>6, <1>7, <1>9, <1>10, <1>11, <1>12, <1>13, <1>14 DEF FeedInv

-----------------------------------------------------------------------------
(* The drain looks for the next event                                       *)

LEMMA HandTaken ==
  ASSUME disk' = disk, memory' = memory, told' = told, NEW n \in Writers, NEW phase,
         phase \in {"deliver", "insert"},
         drain'.item = n, drain'.phase = phase, through' = Seq0(n), Known(n),
         \A w \in Lines(memory) : Seq0(w) < Seq0(n),
         phase = "insert" => told[n] = "cancelled",
         phase = "deliver" /\ n \in AsyncWriters => drain'.thread = Loop
  PROVE  HandFits'
<1>1. n # NoOne
  BY WriterAssumption
<1>. QED  BY <1>1, SameNumbers DEF HandFits, Known, Lines

LEMMA CheckKeeps ==
  ASSUME FeedInv, NEW t \in Threads, Check(t), UNCHANGED feedVars
  PROVE  FeedInv'
<1>. DEFINE next == Lowest(ready \cup skipped)
            Takes == ~(Unsettled \/ ready \cup skipped = {} \/ Overtakes(next))
                       /\ ~ElsewhereOwned(next, t)
<1>. USE DEF writerVars, setVars, waitVars, outVars, boundVars, feedVars
<1>1. drain.item = NoOne /\ drain.thread = t /\ drain.phase = "check"
  BY DEF Check, FeedInv, HandFits
<1>2. CASE ~Takes
  <2>1. /\ drain' = [drain EXCEPT !.phase = "finish", !.item = NoOne]
        /\ UNCHANGED <<disk, pc, told, unnumbered, numbered, undelivered, ready, skipped,
                      through, memory, heard, onLoop, calls, missed, waiters, settler,
                      owed, failures, cancels>>
        /\ forwards' = forwards \/ forwards' = forwards + 1
    BY <1>2 DEF Check
  <2>2. drain'.item = NoOne /\ drain'.phase = "finish"
    BY <2>1 DEF FeedInv, TypeOK, GateTypeOK
  <2>3. TypeOK'
    <3>1. drain' \in [thread : Threads \cup {NoOne},
                      phase : {"off", "check", "deliver", "insert", "finish"},
                      item : Writers \cup {NoOne}]
      BY <2>1 DEF FeedInv, TypeOK, GateTypeOK
    <3>2. forwards' \in Nat
      BY <2>1 DEF FeedInv, TypeOK, GateTypeOK
    <3>. QED  BY <2>1, <3>1, <3>2 DEF FeedInv, TypeOK, GateTypeOK
  <2>4. \A w \in Writers : WaitFits(w)'
    BY <2>1, SameNumbers DEF FeedInv, WritersFit, WaitFits
  <2>5. HandFits'
    BY <1>1, <2>1, <2>2, SameHand
  <2>6. SettlerFits'
    BY <1>1, <2>1, <2>2 DEF FeedInv, SettlerFits
  <2>. QED  BY <1>1, <2>1, <2>2, <2>3, <2>4, <2>5, <2>6, DrainSteps
<1>3. CASE Takes
  <2>1. /\ drain' = [drain EXCEPT !.phase = IF next \in ready THEN "deliver" ELSE "insert",
                                  !.item = next]
        /\ ready' = ready \ {next} /\ skipped' = skipped \ {next} /\ through' = Seq0(next)
        /\ UNCHANGED <<disk, pc, told, unnumbered, numbered, undelivered, memory, heard,
                      onLoop, calls, missed, waiters, settler, owed, failures, cancels, forwards>>
    BY <1>3 DEF Check
  <2>2. /\ unnumbered = {} /\ ready \cup skipped # {}
        /\ \A v \in undelivered : ~(Seq0(v) < Seq0(next))
        /\ next \in ready \cap AsyncWriters => t = Loop
    BY <1>3 DEF Unsettled, Overtakes, ElsewhereOwned
  <2>3. \A w \in ready \cup skipped : w \in Writers /\ Known(w)
    BY DEF FeedInv, WritersFit, PcFits, TypeOK, GateTypeOK
  <2>4. next \in ready \cup skipped /\ \A w \in ready \cup skipped : Seq0(next) <= Seq0(w)
    <3>1. disk \in Seq(Writers)
      BY DEF FeedInv, TypeOK, GateTypeOK
    <3>. QED  BY <2>2, <2>3, <3>1, LowestFound
  <2>5. \A w : Known(w) => Seq0(w) \in 1 .. Len(disk) /\ disk[Seq0(w)] = w
    BY SeqFound DEF FeedInv, TypeOK, GateTypeOK
  <2>6. /\ next \in Writers /\ Known(next) /\ Seq0(next) \in Nat /\ Seq0(next) > through
        /\ Seq0(next) <= Len(disk) /\ through \in Nat /\ Len(disk) \in Nat
    BY <2>3, <2>4, <2>5 DEF FeedInv, WritersFit, Above, TypeOK, GateTypeOK
  <2>7. \A w \in undelivered \cup ready \cup skipped : w # next => Seq0(w) > Seq0(next)
    <3>. SUFFICES ASSUME NEW w \in undelivered \cup ready \cup skipped, w # next
                  PROVE  Seq0(w) > Seq0(next)
      OBVIOUS
    <3>1. w \in Writers /\ Known(w)
      BY DEF FeedInv, WritersFit, PcFits, TypeOK, GateTypeOK
    <3>2. Seq0(w) \in Nat /\ Seq0(w) # Seq0(next)
      BY <2>5, <2>6, <3>1
    <3>3. Seq0(next) <= Seq0(w)
      <4>1. CASE w \in undelivered
        <5>1. ~(Seq0(w) < Seq0(next))
          BY <2>2, <4>1
        <5>. HIDE DEF next
        <5>. QED  BY <2>6, <3>2, <5>1
      <4>2. CASE w \in ready \cup skipped
        BY <2>4, <4>2
      <4>. QED  BY <4>1, <4>2
    <3>. HIDE DEF next
    <3>. QED  BY <2>6, <3>2, <3>3
  <2>8. next \notin undelivered
    BY <2>4 DEF FeedInv, WritersFit, PcFits, TypeOK, GateTypeOK
  <2>9. /\ drain'.item = next /\ drain'.thread = t
        /\ drain'.phase = (IF next \in ready THEN "deliver" ELSE "insert")
    BY <1>1, <2>1 DEF FeedInv, TypeOK, GateTypeOK
  <2>10. TypeOK'
    BY <2>1, <2>6 DEF FeedInv, TypeOK, GateTypeOK
  <2>11. ASSUME NEW w \in Writers PROVE PcFits(w)' /\ WaitFits(w)' /\ Above(w)' /\ Placed(w)'
    <3>1. PcFits(w)'
      BY <2>1 DEF FeedInv, WritersFit, PcFits, Known
    <3>2. WaitFits(w)'
      <4>1. WaitFits(w)' \/ Known(w)
        BY <2>1 DEF WaitFits, FeedInv, WritersFit, PcFits
      <4>. QED  BY <2>1, <2>5, <2>6, <4>1, SameNumbers DEF FeedInv, WritersFit, WaitFits
    <3>3. Above(w)'
      BY <2>1, <2>2, <2>7, <2>8, SameNumbers DEF Above
    <3>4. Placed(w)'
      BY <1>1, <2>1, <2>9, WriterAssumption
      DEF FeedInv, WritersFit, Placed, Known, Heard, Failing, Failed
    <3>. QED  BY <3>1, <3>2, <3>3, <3>4
  <2>12. WritersFit'
    BY <2>11 DEF WritersFit
  <2>13. HandFits'
    <3>1. \A w \in Lines(memory) : Seq0(w) < Seq0(next)
      BY <2>5, <2>6 DEF FeedInv, MemoryFits
    <3>2. next \notin ready => told[next] = "cancelled"
      BY <2>4, <2>6 DEF FeedInv, WritersFit, PcFits
    <3>3. PICK n : n = next
      OBVIOUS
    <3>4. PICK phase : phase = IF next \in ready THEN "deliver" ELSE "insert"
      OBVIOUS
    <3>5. /\ disk' = disk /\ memory' = memory /\ told' = told /\ n \in Writers
          /\ phase \in {"deliver", "insert"}
          /\ drain'.item = n /\ drain'.phase = phase /\ through' = Seq0(n) /\ Known(n)
      BY <2>1, <2>6, <2>9, <3>3, <3>4
    <3>6. /\ \A w \in Lines(memory) : Seq0(w) < Seq0(n)
          /\ phase = "insert" => told[n] = "cancelled"
          /\ phase = "deliver" /\ n \in AsyncWriters => drain'.thread = Loop
      BY <2>2, <2>9, <3>1, <3>2, <3>3, <3>4
    <3>. HIDE DEF next
    <3>. QED  BY <3>5, <3>6, HandTaken
  <2>14. MemoryFits'
    BY <2>1, <2>5, <2>6, SameNumbers DEF FeedInv, MemoryFits, Known, Lines
  <2>15. SettlerFits'
    BY <1>1, <2>1, WriterAssumption DEF FeedInv, SettlerFits, TypeOK, GateTypeOK
  <2>16. FeedFits'
    BY <2>1, <2>6, SameNumbers DEF FeedInv, FeedFits, Known, TypeOK
  <2>17. DeliveredInOrder'
    BY <2>1, SameOrder DEF FeedInv
  <2>18. Once' /\ (through <= Len(disk))'
    BY <2>1, <2>6 DEF FeedInv, Once
  <2>. QED  BY <2>10, <2>12, <2>13, <2>14, <2>15, <2>16, <2>17, <2>18 DEF FeedInv
<1>. QED  BY <1>2, <1>3

-----------------------------------------------------------------------------
(* The drain hands an event over                                            *)

(* To send an event to the clients keeps the order and leaves the cursor at *)
(* the last that was sent.                                                  *)
LEMMA Enqueued ==
  ASSUME FeedInv, NEW w \in Writers, Known(w), Seq0(w) <= through, Enqueue(w)
  PROVE  /\ cursor' \in Nat /\ fed' \in Seq(Writers) /\ cursor' <= through
         /\ Ascending(fed') /\ Lines(fed) \subseteq Lines(fed')
         /\ Seq0(w) = through => w \in Lines(fed')
         /\ \A v \in Lines(fed') : Known(v) /\ Seq0(v) <= cursor'
         /\ cursor' # 0 => fed' # <<>> /\ Seq0(fed'[Len(fed')]) = cursor'
<1>1. /\ disk \in Seq(Writers) /\ fed \in Seq(Writers) /\ cursor \in Nat /\ through \in Nat
      /\ cursor <= through /\ Ascending(fed)
      /\ \A v \in Lines(fed) : Known(v) /\ Seq0(v) <= cursor
      /\ cursor # 0 => fed # <<>> /\ Seq0(fed[Len(fed)]) = cursor
  BY DEF FeedInv, TypeOK, GateTypeOK, FeedFits, DeliveredInOrder
<1>2. \A v : Known(v) => Seq0(v) \in 1 .. Len(disk) /\ disk[Seq0(v)] = v
  BY <1>1, SeqFound
<1>3. Seq0(w) \in Nat /\ Seq0(w) # 0
  BY <1>1, <1>2
<1>4. CASE Seq0(w) <= cursor
  <2>1. cursor' = cursor /\ fed' = fed
    BY <1>4 DEF Enqueue
  <2>2. ASSUME Seq0(w) = through PROVE w \in Lines(fed)
    <3>1. cursor # 0 /\ Seq0(fed[Len(fed)]) = Seq0(w)
      BY <1>1, <1>3, <1>4, <2>2
    <3>2. fed[Len(fed)] \in Lines(fed)
      <4>1. fed # <<>> => Len(fed) \in DOMAIN fed
        BY <1>1
      <4>. QED  BY <1>1, <3>1, <4>1 DEF Lines
    <3>3. fed[Len(fed)] = w
      BY <1>1, <1>2, <3>1, <3>2
    <3>. QED  BY <3>2, <3>3
  <2>. QED  BY <1>1, <2>1, <2>2
<1>5. CASE ~(Seq0(w) <= cursor)
  <2>1. cursor' = Seq0(w) /\ fed' = Append(fed, w)
    BY <1>5 DEF Enqueue
  <2>2. /\ fed' \in Seq(Writers) /\ Lines(fed') = Lines(fed) \cup {w} /\ fed' # <<>>
        /\ Len(fed') = Len(fed) + 1 /\ fed'[Len(fed) + 1] = w
    BY <1>1, <2>1, AppendedLines
  <2>3. \A v \in Lines(fed) : Seq0(v) < Seq0(w)
    BY <1>1, <1>2, <1>3, <1>5
  <2>4. Ascending(fed')
    BY <1>1, <2>1, <2>3, AscendingGrows
  <2>5. \A v \in Lines(fed') : Known(v) /\ Seq0(v) <= cursor'
    BY <1>1, <1>3, <2>1, <2>2, <2>3, <1>2
  <2>6. fed'[Len(fed')] = w
    BY <2>2
  <2>. QED  BY <1>3, <2>1, <2>2, <2>4, <2>5, <2>6
<1>. QED  BY <1>4, <1>5

LEMMA SameAscending ==
  ASSUME disk' = disk
  PROVE  \A s : Ascending(s)' = Ascending(s)
BY SameNumbers DEF Ascending

(* The clients' side of a step that sends w to them.                        *)
LEMMA FeedMoves ==
  ASSUME FeedInv, disk' = disk, through' = through,
         \/ cursor' = cursor /\ fed' = fed
         \/ \E w \in Writers : Known(w) /\ Seq0(w) <= through /\ Enqueue(w)
  PROVE  /\ cursor' \in Nat /\ fed' \in Seq(Writers) /\ FeedFits' /\ Ascending(fed)'
         /\ Lines(fed) \subseteq Lines(fed')
<1>1. CASE cursor' = cursor /\ fed' = fed
  BY <1>1, SameNumbers, SameAscending
  DEF FeedInv, TypeOK, FeedFits, DeliveredInOrder, Known
<1>2. CASE \E w \in Writers : Known(w) /\ Seq0(w) <= through /\ Enqueue(w)
  <2>1. /\ cursor' \in Nat /\ fed' \in Seq(Writers) /\ cursor' <= through
        /\ Ascending(fed') /\ Lines(fed) \subseteq Lines(fed')
        /\ \A v \in Lines(fed') : Known(v) /\ Seq0(v) <= cursor'
        /\ cursor' # 0 => fed' # <<>> /\ Seq0(fed'[Len(fed')]) = cursor'
    BY <1>2, Enqueued
  <2>2. FeedFits'
    BY <2>1, SameNumbers DEF FeedFits, Known
  <2>3. Ascending(fed)'
    BY <2>1, SameAscending
  <2>. QED  BY <2>1, <2>2, <2>3
<1>. QED  BY <1>1, <1>2

LEMMA MirrorKeeps ==
  ASSUME FeedInv, NEW w \in Writers, Mirror(w)
  PROVE  FeedInv'
<1>. USE DEF Mirror, gateVars, writerVars, setVars, drainVars, waitVars, outVars, boundVars
<1>1. Known(w) /\ Seq0(w) <= through /\ Enqueue(w)
  BY DEF FeedInv, WritersFit, PcFits, LetThrough
<1>2. /\ cursor' \in Nat /\ fed' \in Seq(Writers) /\ FeedFits' /\ Ascending(fed)'
      /\ Lines(fed) \subseteq Lines(fed')
  BY <1>1, FeedMoves
<1>3. TypeOK'
  BY <1>2 DEF FeedInv, TypeOK, GateTypeOK
<1>4. ASSUME NEW v \in Writers PROVE PcFits(v)' /\ WaitFits(v)' /\ Above(v)' /\ Placed(v)'
  <2>1. PcFits(v)'
    BY DEF FeedInv, WritersFit, PcFits, Known
  <2>2. WaitFits(v)' /\ Above(v)'
    BY SameNumbers DEF FeedInv, WritersFit, WaitFits, Above, Known
  <2>3. Placed(v)'
    BY DEF FeedInv, WritersFit, Placed, Known, Heard, Failing, Failed
  <2>. QED  BY <2>1, <2>2, <2>3
<1>5. WritersFit'
  BY <1>4 DEF WritersFit
<1>6. HandFits'
  BY SameHand
<1>7. MemoryFits' /\ SettlerFits'
  BY SameNumbers DEF FeedInv, MemoryFits, SettlerFits, Known, Lines
<1>8. DeliveredInOrder'
  BY <1>2, SameAscending DEF FeedInv, DeliveredInOrder, Heard, Lines
<1>9. Once' /\ (through <= Len(disk))'
  BY DEF FeedInv, Once
<1>. QED  BY <1>2, <1>3, <1>5, <1>6, <1>7, <1>8, <1>9 DEF FeedInv

(* A sequence in order that gets a higher event, with the thread.           *)
LEMMA HeardGrows ==
  ASSUME disk \in Seq(Writers), NEW T, NEW h \in Seq([event : Writers, on : T]),
         NEW x \in Writers, NEW t \in T,
         Ascending([i \in DOMAIN h |-> h[i].event]),
         \A i \in DOMAIN h : Seq0(h[i].event) < Seq0(x),
         NEW g, g = Append(h, [event |-> x, on |-> t])
  PROVE  Ascending([i \in DOMAIN g |-> g[i].event])
<1>1. /\ \A i \in DOMAIN h : g[i] = h[i] /\ i \in Nat /\ i < Len(h) + 1
      /\ g[Len(h) + 1].event = x /\ Len(h) \in Nat
      /\ DOMAIN g = DOMAIN h \cup {Len(h) + 1}
  BY AppendedLines
<1>. SUFFICES ASSUME NEW i \in DOMAIN g, NEW j \in DOMAIN g, i < j
              PROVE  Seq0(g[i].event) < Seq0(g[j].event)
  BY DEF Ascending
<1>2. i \in DOMAIN h
  BY <1>1
<1>3. CASE j \in DOMAIN h
  BY <1>1, <1>2, <1>3 DEF Ascending
<1>4. CASE j = Len(h) + 1
  BY <1>1, <1>2, <1>4
<1>. QED  BY <1>1, <1>3, <1>4

LEMMA DeliverKeeps ==
  ASSUME FeedInv, NEW t \in Threads, Deliver(t), UNCHANGED mirrored,
         IF heard' = heard THEN UNCHANGED <<cursor, fed>>
         ELSE Enqueue(heard'[Len(heard')].event)
  PROVE  FeedInv'
<1>. USE DEF writerVars, setVars, waitVars, boundVars
<1>1. PICK x : x = drain.item
  OBVIOUS
<1>2. /\ drain.thread = t /\ drain.phase \in {"deliver", "insert"}
      /\ x \in Writers /\ Known(x) /\ Seq0(x) = through
      /\ \A w \in Lines(memory) : Seq0(w) < through
      /\ drain.phase = "insert" => told[x] = "cancelled"
      /\ drain.phase = "deliver" /\ x \in AsyncWriters => t = Loop
  BY <1>1 DEF FeedInv, HandFits, TypeOK, GateTypeOK, Deliver
<1>3. /\ disk \in Seq(Writers) /\ memory \in Seq(Writers) /\ through \in Nat
      /\ heard \in Seq([event : Writers, on : Threads])
  BY DEF FeedInv, TypeOK, GateTypeOK
<1>4. \A w \in Lines(memory) : Seq0(w) \in Nat
  BY <1>3, SeqFound DEF FeedInv, MemoryFits
<1>5. memory' = Append(memory, x)
  BY <1>1, <1>2, <1>3, <1>4, InsortAtEnd DEF Deliver
<1>6. memory' \in Seq(Writers) /\ Lines(memory') = Lines(memory) \cup {x}
  BY <1>2, <1>3, <1>5, AppendedLines
<1>7. /\ heard' = IF drain.phase = "deliver"
                  THEN Append(heard, [event |-> x, on |-> t]) ELSE heard
      /\ drain' = [drain EXCEPT !.phase = "check", !.item = NoOne]
      /\ UNCHANGED <<onLoop, disk, through, calls, forwards, missed, pc, told, unnumbered,
                    numbered, undelivered, ready, skipped, waiters, settler, owed,
                    failures, cancels>>
  BY <1>1 DEF Deliver
<1>8. drain'.item = NoOne /\ drain'.phase = "check"
  BY <1>7 DEF FeedInv, TypeOK, GateTypeOK
<1>9. /\ heard' \in Seq([event : Writers, on : Threads]) /\ Heard \subseteq Heard'
      /\ drain.phase = "deliver" =>
           Heard' = Heard \cup {x} /\ heard' # heard /\ heard'[Len(heard')].event = x
      /\ Heard' \subseteq Heard \cup {x}
  <2>1. CASE drain.phase = "deliver"
    <3>. DEFINE e == [event |-> x, on |-> t]
    <3>1. heard' = Append(heard, e) /\ e \in [event : Writers, on : Threads] /\ e.event = x
      BY <1>2, <1>7, <2>1
    <3>. HIDE DEF e
    <3>2. /\ heard' \in Seq([event : Writers, on : Threads]) /\ heard' # heard
          /\ Len(heard') = Len(heard) + 1 /\ heard'[Len(heard) + 1] = e
          /\ \A i \in DOMAIN heard : heard'[i] = heard[i]
          /\ DOMAIN heard' = DOMAIN heard \cup {Len(heard) + 1}
      BY <1>3, <3>1, AppendedLines
    <3>3. Heard' = Heard \cup {x}
      BY <3>1, <3>2 DEF Heard
    <3>. QED  BY <3>1, <3>2, <3>3
  <2>2. CASE drain.phase # "deliver"
    BY <1>3, <1>7, <2>2 DEF Heard
  <2>. QED  BY <2>1, <2>2
<1>10. /\ \/ cursor' = cursor /\ fed' = fed
          \/ \E w \in Writers : Known(w) /\ Seq0(w) <= through /\ Enqueue(w)
       /\ drain.phase = "deliver" => Enqueue(x)
  <2>1. CASE drain.phase = "deliver"
    BY <1>2, <1>3, <1>9, <2>1
  <2>2. CASE drain.phase # "deliver"
    BY <1>7, <2>2
  <2>. QED  BY <2>1, <2>2
<1>11. /\ cursor' \in Nat /\ fed' \in Seq(Writers) /\ FeedFits' /\ Ascending(fed)'
       /\ Lines(fed) \subseteq Lines(fed')
  BY <1>7, <1>10, FeedMoves
<1>12. drain.phase = "deliver" => x \in Lines(fed')
  BY <1>2, <1>3, <1>10, Enqueued
<1>13. TypeOK'
  <2>1. drain' \in [thread : Threads \cup {NoOne},
                    phase : {"off", "check", "deliver", "insert", "finish"},
                    item : Writers \cup {NoOne}]
    BY <1>7 DEF FeedInv, TypeOK, GateTypeOK
  <2>. QED  BY <1>6, <1>7, <1>9, <1>11, <2>1 DEF FeedInv, TypeOK, GateTypeOK
<1>14. ASSUME NEW v \in Writers PROVE PcFits(v)' /\ WaitFits(v)' /\ Above(v)' /\ Placed(v)'
  <2>1. PcFits(v)'
    BY <1>7 DEF FeedInv, WritersFit, PcFits, Known
  <2>2. WaitFits(v)' /\ Above(v)'
    BY <1>7, SameNumbers DEF FeedInv, WritersFit, WaitFits, Above, Known
  <2>3. Placed(v)'
    BY <1>1, <1>2, <1>7, <1>9 DEF FeedInv, WritersFit, Placed, Known, Failing, Failed
  <2>. QED  BY <2>1, <2>2, <2>3
<1>15. WritersFit'
  BY <1>14 DEF WritersFit
<1>16. HandFits'
  BY <1>8 DEF HandFits
<1>17. MemoryFits'
  BY <1>2, <1>3, <1>6, <1>7, SameNumbers DEF FeedInv, MemoryFits, Known
<1>18. SettlerFits'
  BY <1>1, <1>6, <1>7 DEF FeedInv, SettlerFits
<1>19. DeliveredInOrder'
  <2>1. Ascending(memory)'
    <3>1. Ascending(memory')
      BY <1>2, <1>3, <1>5, AscendingGrows DEF FeedInv, DeliveredInOrder
    <3>. QED  BY <1>7, <3>1, SameAscending
  <2>2. Ascending([i \in DOMAIN heard |-> heard[i].event])'
    <3>1. CASE drain.phase = "deliver"
      <4>1. \A i \in DOMAIN heard : Seq0(heard[i].event) < Seq0(x)
        BY <1>2 DEF FeedInv, DeliveredInOrder, Heard
      <4>2. Ascending([i \in DOMAIN heard' |-> heard'[i].event])
        BY <1>2, <1>3, <1>7, <3>1, <4>1, HeardGrows DEF FeedInv, DeliveredInOrder
      <4>. QED  BY <1>7, <4>2, SameAscending
    <3>2. CASE drain.phase # "deliver"
      BY <1>7, <3>2, SameAscending DEF FeedInv, DeliveredInOrder
    <3>. QED  BY <3>1, <3>2
  <2>3. Heard' \subseteq Lines(memory') /\ Heard' \subseteq Lines(fed')
    BY <1>6, <1>7, <1>9, <1>11, <1>12 DEF FeedInv, DeliveredInOrder, Heard
  <2>4. \A i \in DOMAIN heard' : heard'[i].event \in AsyncWriters => heard'[i].on = Loop
    <3>1. CASE drain.phase = "deliver"
      <4>1. /\ \A i \in DOMAIN heard : heard'[i] = heard[i]
            /\ DOMAIN heard' = DOMAIN heard \cup {Len(heard) + 1}
            /\ heard'[Len(heard) + 1] = [event |-> x, on |-> t]
        BY <1>2, <1>3, <1>7, <3>1, AppendedLines
      <4>. QED  BY <1>2, <3>1, <4>1 DEF FeedInv, DeliveredInOrder
    <3>2. CASE drain.phase # "deliver"
      BY <1>7, <3>2 DEF FeedInv, DeliveredInOrder
    <3>. QED  BY <3>1, <3>2
  <2>. QED  BY <1>11, <2>1, <2>2, <2>3, <2>4 DEF DeliveredInOrder
<1>20. Once' /\ (through <= Len(disk))'
  BY <1>7 DEF FeedInv, Once
<1>. QED  BY <1>11, <1>13, <1>15, <1>16, <1>17, <1>18, <1>19, <1>20 DEF FeedInv

-----------------------------------------------------------------------------
(* The invariant and what follows from it                                   *)

LEMMA FeedInvStart == Init => FeedInv
<1>. SUFFICES ASSUME Init PROVE FeedInv
  OBVIOUS
<1>. USE DEF Init, GateInit, NoDrain
<1>1. TypeOK
  <2>1. disk \in Seq(Writers) /\ memory \in Seq(Writers) /\ fed \in Seq(Writers)
    OBVIOUS
  <2>2. heard \in Seq([event : Writers, on : Threads])
    OBVIOUS
  <2>3. pc \in [Writers -> Places] /\ told \in [Writers -> {"none", "ok", "raised", "cancelled"}]
    BY DEF Places
  <2>4. failures \in 0..MaxFailures /\ cancels \in 0..MaxCancels
    BY GateBoundAssumption
  <2>5. drain \in [thread : Threads \cup {NoOne},
                   phase : {"off", "check", "deliver", "insert", "finish"},
                   item : Writers \cup {NoOne}]
    OBVIOUS
  <2>6. onLoop \subseteq SyncWriters
    OBVIOUS
  <2>. QED  BY <2>1, <2>2, <2>3, <2>4, <2>5, <2>6 DEF TypeOK, GateTypeOK
<1>2. Once /\ through <= Len(disk)
  BY DEF Once
<1>3. WritersFit
  BY DEF WritersFit, PcFits, WaitFits, Above, Placed, Known, Lines
<1>4. HandFits /\ MemoryFits /\ SettlerFits /\ FeedFits
  BY DEF HandFits, MemoryFits, SettlerFits, FeedFits, Lines
<1>5. DeliveredInOrder
  BY DEF DeliveredInOrder, Ascending, Heard, Lines
<1>. QED  BY <1>1, <1>2, <1>3, <1>4, <1>5 DEF FeedInv

LEMMA FeedInvKept == FeedInv /\ [Next]_vars => FeedInv'
<1>. SUFFICES ASSUME FeedInv, [Next]_vars PROVE FeedInv'
  OBVIOUS
<1>1. ASSUME NEW w \in Writers,
             \/ Register(w) \/ WriteLine(w) \/ Flush(w) \/ Commit(w) \/ Return(w)
             \/ Callback(w) \/ Wake(w) \/ Raise(w) \/ WaitDelivered(w) \/ Resolved(w)
             \/ StoreFails(w) \/ CancelWaiter(w),
             UNCHANGED feedVars
      PROVE  FeedInv'
  BY <1>1, RegisterKeeps, WriteLineKeeps, FlushKeeps, CommitKeeps, ReturnKeeps, CallbackKeeps,
     WakeKeeps, RaiseKeeps, WaitDeliveredKeeps, ResolvedKeeps, StoreFailsKeeps, CancelWaiterKeeps
<1>2. CASE Listen
  <2>1. ASSUME NEW t \in Threads, Deliver(t) PROVE FeedInv'
    BY <1>2, <2>1, DeliverKeeps DEF Listen
  <2>2. CASE heard' = heard
    <3>1. UNCHANGED feedVars
      BY <1>2, <2>2 DEF Listen, feedVars
    <3>. QED  BY <1>1, <1>2, <2>1, <3>1, RunForwardKeeps, BeginDrainKeeps, FinishDrainKeeps,
              CheckKeeps, SettleKeeps DEF Listen, GateStep
  <2>3. CASE heard' # heard
    <3>1. \E t \in Threads : Deliver(t)
      BY <1>2, <2>3 DEF Listen, GateStep, Register, WriteLine, Flush, Commit, Return, Callback,
         Wake, Raise, WaitDelivered, Resolved, BeginDrain, Check, FinishDrain, RunForward,
         Settle, Settled, outVars
    <3>. QED  BY <2>1, <3>1
  <2>. QED  BY <2>2, <2>3
<1>3. CASE \E w \in Writers : Mirror(w)
  BY <1>3, MirrorKeeps
<1>4. CASE GateFault /\ UNCHANGED feedVars
  BY <1>1, <1>4 DEF GateFault
<1>5. CASE UNCHANGED vars
  <2>. USE DEF vars, gateVars, writerVars, setVars, drainVars, waitVars, outVars, boundVars,
               feedVars
  <2>1. TypeOK'
    BY <1>5 DEF FeedInv, TypeOK, GateTypeOK
  <2>2. \A w \in Writers : WaitFits(w)'
    BY <1>5, SameNumbers DEF FeedInv, WritersFit, WaitFits
  <2>3. HandFits' /\ SettlerFits'
    BY <1>5, SameHand DEF FeedInv, SettlerFits
  <2>. QED  BY <1>5, <2>1, <2>2, <2>3, DrainSteps
<1>. QED  BY <1>2, <1>3, <1>4, <1>5 DEF Next

LEMMA FeedInvHolds == Spec => []FeedInv
BY FeedInvStart, FeedInvKept, PTL DEF Spec

-----------------------------------------------------------------------------
(* Every variable of the gate, of the clients' channel and of the writers   *)
(* keeps its type, with any number of drains on any threads.                *)
THEOREM TypeCorrect == Spec => []TypeOK
<1>1. FeedInv => TypeOK
  BY DEF FeedInv
<1>. QED  BY <1>1, FeedInvHolds, PTL

(* _drain_deliveries calls the listeners, and memory and the clients of the *)
(* run get the events, in the order of the file and once, whichever thread  *)
(* drains; the event of a coroutine is announced on its own event loop.     *)
THEOREM FileOrderIsKept == Spec => []DeliveredInOrder
<1>1. FeedInv => DeliveredInOrder
  BY DEF FeedInv
<1>. QED  BY <1>1, FeedInvHolds, PTL

(* append_async returns when all up to its event has been let through, but  *)
(* for appends that failed or were given up; wait_gate_settled returns when *)
(* what had been appended before the call is in memory.                     *)
THEOREM NothingBeforeIsMissing == Spec => []ReturnedIsDelivered
<1>1. ASSUME FeedInv PROVE ReturnedIsDelivered
  <2>1. ASSUME NEW w \in AsyncWriters, told[w] = "ok", NEW v \in Lines(disk), Seq0(v) <= Seq0(w)
        PROVE  \/ v \in Heard \/ v = drain.item
               \/ Failed(v) \/ told[v] = "cancelled"
    <3>1. v \in Writers /\ w \in Writers /\ Known(v) /\ Known(w) /\ Seq0(w) <= through
      <4>1. w \in Writers
        BY DEF Writers
      <4>2. Known(w) /\ Seq0(w) <= through
        BY <1>1, <2>1, <4>1 DEF FeedInv, WritersFit, PcFits, WaitFits
      <4>. QED  BY <1>1, <2>1, <4>1, <4>2 DEF FeedInv, TypeOK, GateTypeOK, Lines, Known
    <3>2. Seq0(v) \in Nat /\ Seq0(w) \in Nat /\ through \in Nat
      BY <1>1, <3>1, SeqFound DEF FeedInv, TypeOK, GateTypeOK
    <3>3. ~(Seq0(v) > through)
      BY <2>1, <3>1, <3>2
    <3>. QED  BY <1>1, <3>1, <3>3 DEF FeedInv, WritersFit, Above, Placed, Failing
  <2>2. settler = "returned" => owed \subseteq Lines(memory) \cup {drain.item}
    BY <1>1 DEF FeedInv, SettlerFits
  <2>. QED  BY <2>1, <2>2 DEF ReturnedIsDelivered
<1>. QED  BY <1>1, FeedInvHolds, PTL
=============================================================================

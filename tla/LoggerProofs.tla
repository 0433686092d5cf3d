---------------------------- MODULE LoggerProofs ----------------------------
(***************************************************************************)
(* Theorems about Logger for tables, objects, threads, tags and files of   *)
(* any number, for careful callers: their tags are shorter than a slot,    *)
(* and the logger is initialised before it is used or never.               *)
(***************************************************************************)
EXTENDS Logger, FiniteSetTheorems, TLAPS

(* The counter's range follows from TagsCounted, not from its own steps.   *)
Typed ==
  /\ g_init \in {0, 1}
  /\ g_activeLevel \in 0..6
  /\ g_userTag \in [Slots -> Slot]
  /\ g_activeUserTag \in Int
  /\ g_fd \in Files \cup {stderr}
  /\ g_fileName \in Files \cup {NoName}
  /\ opened \subseteq Files
  /\ opening \in BOOLEAN
  /\ pc \in [Threads -> {"idle", "printing", "looking", "tagging", "printed"}]
  /\ category \in [Threads -> Slots \cup {NO_CATEGERY}]
  /\ prefix \in [Threads -> Tags \cup {NoTag, PidTid}]
  /\ asked \in [Threads -> Tags \cup {NoTag}]
  /\ held \in [Objects -> SUBSET Holding]

(* A free slot belongs to no object, so that a removal cannot find it.     *)
FreeSlotsClear ==
  \A i \in Slots : ~g_userTag[i].active => g_userTag[i].object \in {0, NoObject}

Kept ==
  \A o \in Objects :
    /\ \A i \in Slots : g_userTag[i].active /\ g_userTag[i].object = o <=>
                          \E h \in held[o] : h.category = i
    /\ \A h \in held[o] : g_userTag[h.category].tag = h.tag

(* The tag that a print was called for is still held, and logPrint leaves  *)
(* no look at the table with anything else.                                *)
StillHeld(t) ==
  \E o \in Objects : [category |-> category[t], tag |-> asked[t]] \in held[o]

OwnTag(t) == asked[t] # NoTag => StillHeld(t) /\ (pc[t] = "printed" => prefix[t] = asked[t])

(* Without a category logPrint gets no further than the counter.           *)
HasSlot(t) == pc[t] \in {"looking", "tagging"} => category[t] # NO_CATEGERY

ReadersHold == \A t \in Threads : HasSlot(t) /\ OwnTag(t)

FileNamed ==
  /\ opened = {g_fd} \ {stderr}
  /\ g_fd # stderr => g_fileName = g_fd
  /\ opening => g_fd = stderr /\ g_fileName # NoName

LInv ==
  /\ Typed
  /\ FreeSlotsClear
  /\ g_activeUserTag = Cardinality(ActiveSlots)
  /\ Kept
  /\ ReadersHold
  /\ FileNamed
-----------------------------------------------------------------------------
(* Slots can be counted.                                                   *)
LEMMA SlotsFinite ==
  ASSUME NEW S, S \subseteq Slots
  PROVE  IsFiniteSet(S) /\ Cardinality(S) \in Nat /\ Cardinality(S) <= MAX_USER_TAG
         /\ (Cardinality(S) = 0 <=> S = {})
<1>1. IsFiniteSet(Slots) /\ Cardinality(Slots) = MAX_USER_TAG
  BY LoggerAssumption, FS_Interval DEF Slots
<1> QED
  BY <1>1, FS_Subset, FS_CardinalityType, FS_EmptySet

(* A logger at the start satisfies the invariant.                          *)
LEMMA InitLInv == Careful /\ Init => LInv
<1> SUFFICES ASSUME Init PROVE LInv
  OBVIOUS
<1>1. ActiveSlots = {}
  BY DEF Init, ActiveSlots
<1>2. g_activeUserTag = Cardinality(ActiveSlots)
  BY <1>1, FS_EmptySet DEF Init
<1>3. Typed
  <2>1. [object |-> 0, tag |-> NoTag, active |-> FALSE] \in Slot
    BY DEF Slot
  <2>2. g_userTag \in [Slots -> Slot]
    BY <2>1 DEF Init
  <2>3. g_activeLevel \in 0..6 /\ g_activeUserTag \in Int /\ g_init \in {0, 1}
    BY DEF Init
  <2>4. /\ g_fd \in Files \cup {stderr} /\ g_fileName \in Files \cup {NoName}
        /\ opened \subseteq Files /\ opening \in BOOLEAN
    BY DEF Init
  <2>5. /\ pc \in [Threads -> {"idle", "printing", "looking", "tagging", "printed"}]
        /\ category \in [Threads -> Slots \cup {NO_CATEGERY}]
        /\ prefix \in [Threads -> Tags \cup {NoTag, PidTid}]
        /\ asked \in [Threads -> Tags \cup {NoTag}]
        /\ held \in [Objects -> SUBSET Holding]
    BY DEF Init
  <2> QED
    BY <2>2, <2>3, <2>4, <2>5 DEF Typed
<1>4. FreeSlotsClear /\ Kept
  BY DEF Init, FreeSlotsClear, Kept
<1>5. ReadersHold /\ FileNamed
  BY DEF Init, ReadersHold, OwnTag, HasSlot, FileNamed
<1> QED
  BY <1>2, <1>3, <1>4, <1>5 DEF LInv

(* A category that is still held is an active slot with the tag asked for, *)
(* and the counter is not 0.                                               *)
LEMMA HeldIsActive ==
  ASSUME LInv, NEW t \in Threads, StillHeld(t)
  PROVE  /\ category[t] \in Slots
         /\ g_activeUserTag # 0
         /\ g_userTag[category[t]].active
         /\ g_userTag[category[t]].tag = asked[t]
<1> USE DEF LInv
<1> DEFINE h == [category |-> category[t], tag |-> asked[t]]
<1>1. PICK o \in Objects : h \in held[o]
  BY DEF StillHeld
<1>2. h \in Holding
  BY <1>1 DEF Typed
<1>3. category[t] \in Slots
  BY <1>2 DEF Holding
<1>4. g_userTag[category[t]].active /\ g_userTag[category[t]].tag = asked[t]
  <2>1. h.category = category[t] /\ h.tag = asked[t]
    OBVIOUS
  <2> HIDE DEF h
  <2> QED
    BY <1>1, <1>3, <2>1 DEF Kept
<1>5. ActiveSlots # {} /\ ActiveSlots \subseteq Slots
  BY <1>3, <1>4 DEF ActiveSlots
<1>6. g_activeUserTag # 0
  BY <1>5, SlotsFinite
<1> QED
  BY <1>3, <1>4, <1>6

(* What is said of the readers survives a step that is another thread's.   *)
LEMMA OthersHold ==
  ASSUME Typed, ReadersHold, UNCHANGED held,
         NEW t \in Threads, NEW u \in Threads, u # t,
         pc'[u] = pc[u], category'[u] = category[u],
         prefix'[u] = prefix[u], asked'[u] = asked[u]
  PROVE  HasSlot(u)' /\ OwnTag(u)'
BY DEF ReadersHold, HasSlot, OwnTag, StillHeld

(* Steps of the printers, which leave the table alone.                     *)
LEMMA PrintStep ==
  ASSUME LInv, Careful, NEW t \in Threads,
         LogPrint(t) \/ LooksAtCounter(t) \/ LooksAtSlot(t) \/ PrintsTag(t) \/ PrintsRest(t)
  PROVE  LInv'
<1> USE DEF LInv
<1>1. UNCHANGED <<registry, file, g_init, g_activeLevel>>
  BY DEF LogPrint, LooksAtCounter, LooksAtSlot, PrintsTag, PrintsRest, GoesOn, Prints
<1>2. FreeSlotsClear' /\ Kept' /\ FileNamed' /\ (g_activeUserTag = Cardinality(ActiveSlots))'
  BY <1>1 DEF FreeSlotsClear, Kept, FileNamed, ActiveSlots, registry, file
<1>3. SUFFICES Typed' /\ HasSlot(t)' /\ OwnTag(t)'
  <2>1. \A u \in Threads \ {t} :
          /\ pc'[u] = pc[u] /\ category'[u] = category[u]
          /\ prefix'[u] = prefix[u] /\ asked'[u] = asked[u]
    BY DEF Typed, LogPrint, LooksAtCounter, LooksAtSlot, PrintsTag, PrintsRest,
       GoesOn, Prints, Takes
  <2>2. \A u \in Threads \ {t} : HasSlot(u)' /\ OwnTag(u)'
    BY <2>1, <1>1, OthersHold DEF registry
  <2> QED
    BY <1>2, <2>2 DEF ReadersHold
<1>4. CASE LogPrint(t)
  <2>1. CASE Takes(t, NO_CATEGERY, NoTag)
    <3>1. Typed'
      BY <1>1, <1>4, <2>1 DEF Typed, LogPrint, Takes, registry, file
    <3>2. pc'[t] = "printing" /\ asked'[t] = NoTag
      BY <1>4, <2>1 DEF Typed, LogPrint, Takes
    <3> QED
      BY <3>1, <3>2 DEF HasSlot, OwnTag
  <2>2. CASE \E o \in Objects : \E h \in held[o] : Takes(t, h.category, h.tag)
    <3>1. PICK o \in Objects : \E h \in held[o] : Takes(t, h.category, h.tag)
      BY <2>2
    <3>2. PICK h \in held[o] : Takes(t, h.category, h.tag)
      BY <3>1
    <3>3. h \in Holding
      BY <3>2 DEF Typed
    <3>4. h.category \in Slots /\ h.tag \in Tags /\ h = [category |-> h.category, tag |-> h.tag]
      BY <3>3 DEF Holding
    <3>5. Typed'
      BY <1>1, <1>4, <3>2, <3>4 DEF Typed, LogPrint, Takes, registry, file
    <3>6. pc'[t] = "printing" /\ category'[t] = h.category /\ asked'[t] = h.tag
      BY <1>4, <3>2 DEF Typed, LogPrint, Takes
    <3>7. StillHeld(t)'
      BY <1>1, <3>2, <3>4, <3>6 DEF StillHeld, registry
    <3> QED
      BY <3>5, <3>6, <3>7 DEF HasSlot, OwnTag
  <2> QED
    BY <1>4, <2>1, <2>2 DEF LogPrint
<1>5. ASSUME NEW next \in {"looking", "tagging"}, GoesOn(t, next), category[t] # NO_CATEGERY
      PROVE  Typed' /\ HasSlot(t)' /\ OwnTag(t)'
  <2>1. Typed'
    BY <1>1, <1>5 DEF Typed, GoesOn, registry, file
  <2>2. pc'[t] = next /\ UNCHANGED <<category, asked, held>>
    BY <1>5 DEF Typed, GoesOn, registry
  <2> QED
    BY <1>5, <2>1, <2>2 DEF ReadersHold, HasSlot, OwnTag, StillHeld
<1>6. ASSUME NEW p \in Tags \cup {NoTag, PidTid}, Prints(t, p), StillHeld(t) => p = asked[t]
      PROVE  Typed' /\ HasSlot(t)' /\ OwnTag(t)'
  <2>1. Typed'
    BY <1>1, <1>6 DEF Typed, Prints, registry, file
  <2>2. pc'[t] = "printed" /\ prefix'[t] = p /\ UNCHANGED <<category, asked, held>>
    BY <1>6 DEF Typed, Prints, registry
  <2> QED
    BY <1>6, <2>1, <2>2 DEF ReadersHold, HasSlot, OwnTag, StillHeld
<1>7. CASE LooksAtCounter(t)
  <2>1. CASE g_activeUserTag # 0 /\ category[t] \in Slots
    <3>1. GoesOn(t, "looking")
      BY <1>7, <2>1 DEF LooksAtCounter
    <3>2. category[t] # NO_CATEGERY
      BY <2>1, LoggerAssumption DEF Slots, NO_CATEGERY
    <3> QED
      BY <1>5, <3>1, <3>2
  <2>2. CASE ~(g_activeUserTag # 0 /\ category[t] \in Slots)
    <3>1. Prints(t, PidTid)
      BY <1>7, <2>2 DEF LooksAtCounter
    <3>2. ~StillHeld(t)
      BY <2>2, HeldIsActive
    <3> QED
      BY <1>6, <3>1, <3>2
  <2> QED
    BY <2>1, <2>2
<1>8. CASE LooksAtSlot(t)
  <2>1. category[t] # NO_CATEGERY
    BY <1>8 DEF LooksAtSlot, ReadersHold, HasSlot
  <2>2. CASE g_userTag[category[t]].active
    <3>1. GoesOn(t, "tagging")
      BY <1>8, <2>2 DEF LooksAtSlot
    <3> QED
      BY <1>5, <2>1, <3>1
  <2>3. CASE ~g_userTag[category[t]].active
    <3>1. Prints(t, PidTid)
      BY <1>8, <2>3 DEF LooksAtSlot
    <3>2. ~StillHeld(t)
      BY <2>3, HeldIsActive
    <3> QED
      BY <1>6, <3>1, <3>2
  <2> QED
    BY <2>2, <2>3
<1>9. CASE PrintsTag(t)
  <2>1. category[t] \in Slots
    BY <1>9 DEF PrintsTag, ReadersHold, HasSlot, Typed
  <2>2. g_userTag[category[t]].tag \in Tags \cup {NoTag, PidTid}
    BY <2>1 DEF Typed, Slot
  <2>3. StillHeld(t) => g_userTag[category[t]].tag = asked[t]
    BY HeldIsActive
  <2> QED
    BY <1>6, <1>9, <2>2, <2>3 DEF PrintsTag
<1>10. CASE PrintsRest(t)
  <2>1. Typed'
    BY <1>1, <1>10 DEF Typed, PrintsRest, Takes, registry, file
  <2>2. pc'[t] = "idle" /\ asked'[t] = NoTag
    BY <1>10 DEF Typed, PrintsRest, Takes
  <2> QED
    BY <2>1, <2>2 DEF HasSlot, OwnTag
<1> QED
  BY <1>4, <1>7, <1>8, <1>9, <1>10

(* Steps of Logger_set_file and Logger_set_level.                          *)
LEMMA FileStep ==
  ASSUME LInv, Careful, SetNoFile \/ SetFile \/ OpensFile \/ Logger_set_level
  PROVE  LInv'
<1> USE DEF LInv
<1>1. UNCHANGED <<registry, print, g_init>>
  BY DEF SetNoFile, SetFile, OpensFile, Logger_set_level
<1>2. FreeSlotsClear' /\ Kept' /\ ReadersHold' /\ (g_activeUserTag = Cardinality(ActiveSlots))'
  BY <1>1 DEF FreeSlotsClear, Kept, ReadersHold, OwnTag, HasSlot, StillHeld,
     ActiveSlots, registry, print
<1>3. ASSUME SetNoFile
      PROVE  Typed' /\ FileNamed'
  BY <1>1, <1>3 DEF Typed, FileNamed, SetNoFile, ClosesFile, registry, print
<1>4. ASSUME SetFile
      PROVE  Typed' /\ FileNamed'
  <2>1. g_fileName' \in Files /\ g_fileName' # NoName
    BY <1>4, LoggerAssumption DEF SetFile
  <2>2. g_fd' = stderr /\ opened' \subseteq Files /\ opened' = {}
    BY <1>4 DEF SetFile, ClosesFile, FileNamed, Typed
  <2> QED
    BY <1>1, <1>4, <2>1, <2>2 DEF Typed, FileNamed, SetFile, registry, print
<1>5. ASSUME OpensFile
      PROVE  Typed' /\ FileNamed'
  <2>1. g_fileName \in Files /\ g_fd = stderr /\ opened = {}
    BY <1>5 DEF OpensFile, FileNamed, Typed
  <2> QED
    BY <1>1, <1>5, <2>1, LoggerAssumption DEF Typed, FileNamed, OpensFile, registry, print
<1>6. ASSUME Logger_set_level
      PROVE  Typed' /\ FileNamed'
  <2>1. PICK n \in SetLevels : g_activeLevel' = IF n <= 0 THEN 0 ELSE IF n > 6 THEN 6 ELSE n
    BY <1>6 DEF Logger_set_level
  <2>2. n \in Int
    BY LoggerAssumption
  <2>3. g_activeLevel' \in 0..6
    BY <2>1, <2>2
  <2> QED
    BY <1>1, <1>6, <2>3 DEF Typed, FileNamed, Logger_set_level, registry, print, file
<1> QED
  BY <1>2, <1>3, <1>4, <1>5, <1>6
-----------------------------------------------------------------------------
(* The first Logger_init finds nothing that it could destroy.              *)
LEMMA InitStep ==
  ASSUME LInv, Careful, Logger_init
  PROVE  LInv'
<1> USE DEF LInv
<1>1. \A i \in Slots : ~g_userTag[i].active
  BY DEF Logger_init, AlreadyInitialised, Unused, Careful, Typed
<1>2. g_fileName = NoName
  BY DEF Logger_init, AlreadyInitialised, Unused, Careful, Typed
<1>3. \A o \in Objects : held[o] = {}
  BY <1>1 DEF Kept, Typed, Holding
<1>4. ActiveSlots' = {}
  BY DEF ActiveSlots, Logger_init, ClearedSlot
<1>5. (g_activeUserTag = Cardinality(ActiveSlots))'
  BY <1>4, FS_EmptySet DEF Logger_init
<1>6. Typed'
  BY DEF Typed, Logger_init, ClearedSlot, Slot, print
<1>7. FreeSlotsClear' /\ Kept'
  BY <1>3 DEF FreeSlotsClear, Kept, Logger_init, ClearedSlot
<1>8. ReadersHold'
  BY DEF ReadersHold, OwnTag, HasSlot, StillHeld, Logger_init, print
<1>9. FileNamed'
  BY <1>2, LoggerAssumption DEF FileNamed, Logger_init, Typed
<1> QED
  BY <1>5, <1>6, <1>7, <1>8, <1>9

(* A tag for an object: the slot was free and is the object's own now.     *)
LEMMA AddStep ==
  ASSUME LInv, Careful, NEW o \in Objects, NEW tag \in Tags, AddUserTag(o, tag)
  PROVE  LInv'
<1> USE DEF LInv
<1>1. PICK i \in Slots :
        /\ IsFree(i)
        /\ g_userTag' = [g_userTag EXCEPT ![i] = FilledSlot(i, o, tag)]
        /\ held' = [held EXCEPT ![o] = @ \cup {[category |-> i, tag |-> tag]}]
  BY DEF AddUserTag, IsFirst
<1>2. ~g_userTag[i].active /\ g_userTag[i].object \in {0, NoObject}
  BY <1>1 DEF FreeSlotsClear, IsFree
<1>3. g_userTag'[i] = [object |-> o, tag |-> tag, active |-> TRUE]
  <2>1. TagLength[tag] \in Nat /\ MAX_TAG_LENGTH \in Nat /\ TagLength[tag] < MAX_TAG_LENGTH
    BY LoggerAssumption DEF Careful
  <2>2. TagLength[tag] <= MAX_TAG_LENGTH /\ TagLength[tag] # MAX_TAG_LENGTH
    BY <2>1
  <2>3. FilledSlot(i, o, tag) = [object |-> o, tag |-> tag, active |-> TRUE]
    BY <2>2 DEF FilledSlot
  <2> QED
    BY <1>1, <2>3 DEF Typed
<1>4. \A j \in Slots \ {i} : g_userTag'[j] = g_userTag[j]
  BY <1>1 DEF Typed
<1>5. Typed'
  <2>1. g_userTag'[i] \in Slot
    BY <1>3 DEF Slot
  <2>2. [category |-> i, tag |-> tag] \in Holding
    BY DEF Holding
  <2> QED
    BY <1>1, <1>3, <2>1, <2>2 DEF Typed, AddUserTag, file, print
<1>6. FreeSlotsClear'
  BY <1>3, <1>4 DEF FreeSlotsClear
<1>7. (g_activeUserTag = Cardinality(ActiveSlots))'
  <2>1. ActiveSlots' = ActiveSlots \cup {i} /\ i \notin ActiveSlots
    BY <1>2, <1>3, <1>4 DEF ActiveSlots
  <2>2. IsFiniteSet(ActiveSlots)
    BY SlotsFinite DEF ActiveSlots
  <2> QED
    BY <2>1, <2>2, FS_AddElement DEF AddUserTag
<1>8. Kept'
  <2> SUFFICES ASSUME NEW p \in Objects
               PROVE  /\ \A j \in Slots : g_userTag'[j].active /\ g_userTag'[j].object = p <=>
                                            \E h \in held'[p] : h.category = j
                      /\ \A h \in held'[p] : g_userTag'[h.category].tag = h.tag
    BY DEF Kept
  <2>1. \A h \in held[p] : h.category \in Slots \ {i}
    BY <1>2 DEF Kept, Typed, Holding
  <2>2. CASE p = o
    <3>1. held'[p] = held[p] \cup {[category |-> i, tag |-> tag]}
      BY <1>1, <2>2 DEF Typed
    <3>2. \A h \in held'[p] : h = [category |-> i, tag |-> tag] \/ h \in held[p]
      BY <3>1
    <3>3. \A h \in held'[p] : g_userTag'[h.category].tag = h.tag
      BY <3>2, <2>1, <1>3, <1>4 DEF Kept
    <3>4. \A j \in Slots \ {i} : (\E h \in held'[p] : h.category = j) <=>
                                  \E h \in held[p] : h.category = j
      BY <3>1, <3>2
    <3>5. \E h \in held'[p] : h.category = i
      <4> DEFINE new == [category |-> i, tag |-> tag]
      <4>1. new \in held'[p] /\ new.category = i
        BY <3>1
      <4> QED
        BY <4>1
    <3>6. ASSUME NEW j \in Slots
          PROVE  g_userTag'[j].active /\ g_userTag'[j].object = p <=>
                   \E h \in held'[p] : h.category = j
      <4>1. CASE j = i
        BY <4>1, <3>5, <2>2, <1>3
      <4>2. CASE j # i
        BY <4>2, <3>4, <1>4 DEF Kept
      <4> QED
        BY <4>1, <4>2
    <3> QED
      BY <3>3, <3>6
  <2>3. CASE p # o
    <3>1. held'[p] = held[p]
      BY <1>1, <2>3 DEF Typed
    <3> QED
      BY <3>1, <2>1, <2>3, <1>3, <1>4 DEF Kept
  <2> QED
    BY <2>2, <2>3
<1>9. ReadersHold'
  <2>1. \A p \in Objects : held[p] \subseteq held'[p]
    BY <1>1 DEF Typed
  <2>2. UNCHANGED print
    BY DEF AddUserTag
  <2> QED
    BY <2>1, <2>2 DEF ReadersHold, OwnTag, HasSlot, StillHeld, print
<1>10. FileNamed'
  BY DEF FileNamed, AddUserTag, file
<1> QED
  BY <1>5, <1>6, <1>7, <1>8, <1>9, <1>10

(* A tag removed: the slot was active, and of the object's holdings only   *)
(* that one goes, and with it the claim of whoever prints with it.         *)
LEMMA RemoveStep ==
  ASSUME LInv, Careful, NEW o \in Objects, RemoveUserTag(o)
  PROVE  LInv'
<1> USE DEF LInv
<1>1. PICK i \in Slots :
        /\ g_userTag[i].object = o
        /\ g_userTag' = [g_userTag EXCEPT ![i] = ClearedSlot(o)]
        /\ held' = [held EXCEPT ![o] = {h \in @ : h.category # i}]
        /\ asked' = [t \in Threads |-> IF category[t] = i THEN NoTag ELSE asked[t]]
  BY DEF RemoveUserTag, IsFirst
<1>2. g_userTag[i].active
  BY <1>1, LoggerAssumption DEF FreeSlotsClear, NoObject
<1>3. g_userTag'[i] = [object |-> NoObject, tag |-> NoTag, active |-> FALSE]
  BY <1>1 DEF Typed, ClearedSlot
<1>4. \A j \in Slots \ {i} : g_userTag'[j] = g_userTag[j]
  BY <1>1 DEF Typed
<1>5. Typed'
  <2>1. g_userTag'[i] \in Slot
    BY <1>3 DEF Slot
  <2> QED
    BY <1>1, <1>3, <2>1 DEF Typed, RemoveUserTag, file
<1>6. FreeSlotsClear'
  BY <1>3, <1>4 DEF FreeSlotsClear
<1>7. (g_activeUserTag = Cardinality(ActiveSlots))'
  <2>1. ActiveSlots' = ActiveSlots \ {i} /\ i \in ActiveSlots
    BY <1>2, <1>3, <1>4 DEF ActiveSlots
  <2>2. IsFiniteSet(ActiveSlots)
    BY SlotsFinite DEF ActiveSlots
  <2> QED
    BY <2>1, <2>2, FS_RemoveElement DEF RemoveUserTag
<1>8. Kept'
  <2> SUFFICES ASSUME NEW p \in Objects
               PROVE  /\ \A j \in Slots : g_userTag'[j].active /\ g_userTag'[j].object = p <=>
                                            \E h \in held'[p] : h.category = j
                      /\ \A h \in held'[p] : g_userTag'[h.category].tag = h.tag
    BY DEF Kept
  <2>1. \A h \in held[p] : h.category \in Slots
    BY DEF Typed, Holding
  <2>2. CASE p = o
    <3>1. held'[p] = {h \in held[p] : h.category # i}
      BY <1>1, <2>2 DEF Typed
    <3> QED
      BY <3>1, <2>1, <2>2, <1>3, <1>4 DEF Kept
  <2>3. CASE p # o
    <3>1. held'[p] = held[p]
      BY <1>1, <2>3 DEF Typed
    <3>2. \A h \in held[p] : h.category # i
      BY <1>1, <2>1, <2>3 DEF Kept
    <3> QED
      BY <3>1, <3>2, <2>1, <1>3, <1>4 DEF Kept
  <2> QED
    BY <2>2, <2>3
<1>9. ReadersHold'
  <2> SUFFICES ASSUME NEW t \in Threads
               PROVE  HasSlot(t)' /\ OwnTag(t)'
    BY DEF ReadersHold
  <2>1. UNCHANGED <<pc, category, prefix>>
    BY DEF RemoveUserTag
  <2>2. HasSlot(t)'
    BY <2>1 DEF ReadersHold, HasSlot
  <2>3. ASSUME asked'[t] # NoTag
        PROVE  StillHeld(t)' /\ (pc'[t] = "printed" => prefix'[t] = asked'[t])
    <3>1. asked'[t] = asked[t] /\ category[t] # i
      BY <1>1, <2>3
    <3> DEFINE h == [category |-> category[t], tag |-> asked[t]]
    <3>2. PICK p \in Objects : h \in held[p]
      BY <2>3, <3>1 DEF ReadersHold, OwnTag, StillHeld
    <3>3. h \in held'[p]
      <4>1. h.category = category[t]
        OBVIOUS
      <4> HIDE DEF h
      <4> QED
        BY <1>1, <3>1, <3>2, <4>1 DEF Typed
    <3> QED
      BY <2>1, <2>3, <3>1, <3>3 DEF ReadersHold, OwnTag, StillHeld
  <2> QED
    BY <2>2, <2>3 DEF OwnTag
<1>10. FileNamed'
  BY DEF FileNamed, RemoveUserTag, file
<1> QED
  BY <1>5, <1>6, <1>7, <1>8, <1>9, <1>10

(* LInv is inductive.                                                      *)
LEMMA NextLInv == Careful /\ LInv /\ [Next]_vars => LInv'
<1> SUFFICES ASSUME Careful, LInv, [Next]_vars PROVE LInv'
  OBVIOUS
<1>1. CASE Logger_init
  BY <1>1, InitStep
<1>2. CASE SetNoFile \/ SetFile \/ OpensFile \/ Logger_set_level
  BY <1>2, FileStep
<1>3. CASE \E o \in Objects : RemoveUserTag(o)
  BY <1>3, RemoveStep
<1>4. CASE \E o \in Objects : \E tag \in Tags : AddUserTag(o, tag)
  BY <1>4, AddStep
<1>5. CASE \E t \in Threads :
             LogPrint(t) \/ LooksAtCounter(t) \/ LooksAtSlot(t) \/ PrintsTag(t) \/ PrintsRest(t)
  BY <1>5, PrintStep
<1>6. CASE UNCHANGED vars
  BY <1>6 DEF vars, registry, file, print, LInv, Typed, FreeSlotsClear, ActiveSlots, Kept,
     ReadersHold, OwnTag, HasSlot, StillHeld, FileNamed
<1> QED
  BY <1>1, <1>2, <1>3, <1>4, <1>5, <1>6 DEF Next
-----------------------------------------------------------------------------
(* The inductive invariant, for every logger and careful callers.          *)
THEOREM LoggerInvariant == Careful /\ Spec => []LInv
<1> SUFFICES ASSUME Careful PROVE Spec => []LInv
  OBVIOUS
<1>1. Init => LInv
  BY InitLInv
<1>2. LInv /\ [Next]_vars => LInv'
  BY NextLInv
<1> QED
  BY <1>1, <1>2, PTL DEF Spec

(* Every variable has its type; the counter never leaves 0..MAX_USER_TAG,  *)
(* although each add and removal changes it without a look.                *)
THEOREM LoggerTypeCorrect == Careful /\ Spec => []TypeOK
<1>1. LInv => TypeOK
  <2> SUFFICES ASSUME LInv PROVE TypeOK
    OBVIOUS
  <2>1. g_activeUserTag \in 0..MAX_USER_TAG
    BY SlotsFinite, LoggerAssumption DEF LInv, ActiveSlots
  <2> QED
    BY <2>1 DEF LInv, Typed, TypeOK
<1> QED
  BY <1>1, LoggerInvariant, PTL

(* The counter is the number of active slots.                              *)
THEOREM CounterOfTags == Careful /\ Spec => []TagsCounted
<1>1. LInv => TagsCounted
  BY DEF LInv, TagsCounted
<1> QED
  BY <1>1, LoggerInvariant, PTL

(* Every object keeps the categories it was given, and their tags.         *)
THEOREM ObjectsKeepCategories == Careful /\ Spec => []CategoriesKept
<1>1. LInv => CategoriesKept
  <2> SUFFICES ASSUME LInv, NEW o \in Objects
               PROVE  /\ {i \in ActiveSlots : g_userTag[i].object = o} = {h.category : h \in held[o]}
                      /\ \A h \in held[o] : g_userTag[h.category].tag = h.tag
    BY DEF CategoriesKept
  <2>1. \A h \in held[o] : h.category \in Slots
    BY DEF LInv, Typed, Holding
  <2> QED
    BY <2>1 DEF LInv, Kept, ActiveSlots
<1> QED
  BY <1>1, LoggerInvariant, PTL

(* Who prints with a category prints the tag it was given for, unless that *)
(* tag is removed while logPrint reads the table.                          *)
THEOREM OwnTagPrinted == Careful /\ Spec => []PrintsOwnTag
<1>1. LInv => PrintsOwnTag
  BY DEF LInv, ReadersHold, OwnTag, PrintsOwnTag
<1> QED
  BY <1>1, LoggerInvariant, PTL

(* At most one log file is open, and it is the one that is named.          *)
THEOREM OneFileOpen == Careful /\ Spec => []OneFile
<1>1. LInv => OneFile
  BY DEF LInv, FileNamed, OneFile
<1> QED
  BY <1>1, LoggerInvariant, PTL
=============================================================================

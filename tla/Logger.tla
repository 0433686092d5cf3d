------------------------------- MODULE Logger -------------------------------
(***************************************************************************)
(* The logger (Logger.h, Logger.cpp): a table of user tags, whose index is *)
(* the category a caller prints with, a counter of the active ones, a      *)
(* level, and a log file.                                                  *)
(*                                                                         *)
(* Logger_init and Logger_set_userTag hold g_mutext and are one step each. *)
(* Nothing else does: logPrint looks at the level, at the counter, at its  *)
(* slot's active and at the slot's tag in steps of their own, with those   *)
(* of other threads between them; Logger_set_file closes one file and      *)
(* opens the next.  Any thread registers and removes tags and prints for   *)
(* any object; the file is set by one thread at a time.                    *)
(***************************************************************************)
EXTENDS Integers, FiniteSets

CONSTANTS
  MAX_USER_TAG,    (* slots of the table                                     *)
  MAX_TAG_LENGTH,  (* bytes of a slot's tag                                  *)
  Threads,
  Objects,         (* what callers pass as object: addresses, so neither 0   *)
                   (* nor size_t(-1)                                         *)
  Tags,            (* what callers pass as userTag ...                       *)
  TagLength,       (* ... and its strlen                                     *)
  NoTag,           (* the empty tag of a slot that was cleared               *)
  PidTid,          (* what logPrint prints where it prints no tag            *)
  Files,           (* paths of log files                                     *)
  stderr, NoName,  (* g_fd at first; the empty g_fileName                    *)
  Levels, SetLevels,   (* levels callers print at; what they set             *)
  InitEarly        (* Logger_init is first called before anything is set     *)

NO_CATEGERY == -1
NoObject    == -1

Slots == 0..(MAX_USER_TAG - 1)

ASSUME LoggerAssumption ==
  /\ MAX_USER_TAG \in Nat \ {0}
  /\ MAX_TAG_LENGTH \in Nat
  /\ Objects \subseteq Nat \ {0}
  /\ TagLength \in [Tags -> Nat]
  /\ NoTag \notin Tags
  /\ PidTid \notin Tags \cup {NoTag}
  /\ stderr \notin Files
  /\ NoName \notin Files
  /\ Levels \subseteq Int /\ SetLevels \subseteq Int
  /\ InitEarly \in BOOLEAN

VARIABLES
  g_init, g_activeLevel,
  g_userTag,        (* each slot's object, tag and active                    *)
  g_activeUserTag,  (* the counter                                           *)
  g_fd, g_fileName,
  opened,           (* the files that are open                               *)
  opening,          (* Logger_set_file is about to open g_fileName           *)
  pc,               (* each thread: "idle", or in logPrint "printing" (the   *)
                    (* time is out), "looking" (the counter was not 0),      *)
                    (* "tagging" (the slot was active) or "printed" (the     *)
                    (* line's prefix is out)                                 *)
  category, prefix, (* ... its argument, and that prefix                     *)
  held,             (* history: the categories each object was given and     *)
                    (* not deprived of since, with their tags                *)
  asked             (* history: the tag a printing thread's category was     *)
                    (* given for, until that tag is removed                  *)

registry == <<g_userTag, g_activeUserTag, held>>
file     == <<g_fd, g_fileName, opened, opening>>
print    == <<pc, category, prefix, asked>>
vars     == <<g_init, g_activeLevel, registry, file, print>>

Slot    == [object : Objects \cup {0, NoObject}, tag : Tags \cup {NoTag}, active : BOOLEAN]
Holding == [category : Slots, tag : Tags]

TypeOK ==
  /\ g_init \in {0, 1}
  /\ g_activeLevel \in 0..6
  /\ g_userTag \in [Slots -> Slot]
  /\ g_activeUserTag \in 0..MAX_USER_TAG
  /\ g_fd \in Files \cup {stderr}
  /\ g_fileName \in Files \cup {NoName}
  /\ opened \subseteq Files
  /\ opening \in BOOLEAN
  /\ pc \in [Threads -> {"idle", "printing", "looking", "tagging", "printed"}]
  /\ category \in [Threads -> Slots \cup {NO_CATEGERY}]
  /\ prefix \in [Threads -> Tags \cup {NoTag, PidTid}]
  /\ asked \in [Threads -> Tags \cup {NoTag}]
  /\ held \in [Objects -> SUBSET Holding]

(* Static storage is zero.                                                 *)
Init ==
  /\ g_init = 0
  /\ g_activeLevel = 2
  /\ g_userTag = [i \in Slots |-> [object |-> 0, tag |-> NoTag, active |-> FALSE]]
  /\ g_activeUserTag = 0
  /\ g_fd = stderr /\ g_fileName = NoName /\ opened = {} /\ opening = FALSE
  /\ pc = [t \in Threads |-> "idle"]
  /\ category = [t \in Threads |-> NO_CATEGERY]
  /\ prefix = [t \in Threads |-> PidTid]
  /\ asked = [t \in Threads |-> NoTag]
  /\ held = [o \in Objects |-> {}]
-----------------------------------------------------------------------------
(***************************************************************************)
(* Variants with one slip each, next to what they vary: every property     *)
(* below fails for one of them.  No specification uses them.               *)
(***************************************************************************)
(* A slot is given away without a look at active.                          *)
AnySlot(i) == TRUE

(* A removed tag's slot keeps its object.                                  *)
StaysOwned(o) == [object |-> o, tag |-> NoTag, active |-> FALSE]

(* Every Logger_init clears the table.                                     *)
NeverInitialised == FALSE

(* The file is closed and g_fd keeps pointing to it.                       *)
ClosesOnly == opened' = opened \ {g_fd} /\ UNCHANGED g_fd
-----------------------------------------------------------------------------
(***************************************************************************)
(* Logger_init, Logger_set_level                                           *)
(***************************************************************************)
ClearedSlot(o) == [object |-> NoObject, tag |-> NoTag, active |-> FALSE]

Unused ==
  /\ \A i \in Slots : ~g_userTag[i].active
  /\ g_fileName = NoName

AlreadyInitialised == g_init > 0

Logger_init ==
  /\ ~AlreadyInitialised
  /\ InitEarly => g_init = 1 \/ Unused
  /\ g_init' = 1
  /\ g_activeUserTag' = 0
  /\ g_fileName' = NoName
  /\ g_userTag' = [i \in Slots |-> ClearedSlot(0)]
  /\ UNCHANGED <<g_activeLevel, g_fd, opened, opening, print, held>>

Logger_set_level ==
  /\ \E n \in SetLevels :
       g_activeLevel' = IF n <= 0 THEN 0 ELSE IF n > 6 THEN 6 ELSE n
  /\ UNCHANGED <<g_init, registry, file, print>>
-----------------------------------------------------------------------------
(***************************************************************************)
(* Logger_set_userTag                                                      *)
(***************************************************************************)
IsFree(i) == ~g_userTag[i].active

IsFirst(i, P) == i \in P /\ \A j \in P : i <= j

(* strcpy of a tag that fills the slot writes its NUL to the next byte,    *)
(* which is active; a longer tag is compared with, not copied.             *)
FilledSlot(i, o, tag) ==
  [object |-> o,
   tag    |-> IF TagLength[tag] <= MAX_TAG_LENGTH THEN tag ELSE g_userTag[i].tag,
   active |-> TagLength[tag] # MAX_TAG_LENGTH]

(* The first free slot's index is the category; -1 when there is none      *)
(* changes nothing.                                                        *)
AddUserTag(o, tag) ==
  /\ \E i \in Slots :
       /\ IsFirst(i, {j \in Slots : IsFree(j)})
       /\ g_userTag' = [g_userTag EXCEPT ![i] = FilledSlot(i, o, tag)]
       /\ held' = [held EXCEPT ![o] = @ \cup {[category |-> i, tag |-> tag]}]
  /\ g_activeUserTag' = g_activeUserTag + 1
  /\ UNCHANGED <<g_init, g_activeLevel, file, print>>

(* userTag NULL: the object's first slot, whether it is active or not, and *)
(* whoever is printing with it.                                            *)
RemoveUserTag(o) ==
  /\ \E i \in Slots :
       /\ IsFirst(i, {j \in Slots : g_userTag[j].object = o})
       /\ g_userTag' = [g_userTag EXCEPT ![i] = ClearedSlot(o)]
       /\ held' = [held EXCEPT ![o] = {h \in @ : h.category # i}]
       /\ asked' = [t \in Threads |-> IF category[t] = i THEN NoTag ELSE asked[t]]
  /\ g_activeUserTag' = g_activeUserTag - 1
  /\ UNCHANGED <<g_init, g_activeLevel, file, pc, category, prefix>>
-----------------------------------------------------------------------------
(***************************************************************************)
(* Logger_set_file                                                         *)
(***************************************************************************)
ClosesFile == opened' = opened \ {g_fd} /\ g_fd' = stderr

(* NULL, which forgets the name of a file that is open only.               *)
SetNoFile ==
  /\ ~opening
  /\ g_fd # stderr
  /\ ClosesFile
  /\ g_fileName' = NoName
  /\ UNCHANGED <<g_init, g_activeLevel, registry, opening, print>>

(* The same name as last time changes nothing, whether it could be opened  *)
(* then or not.                                                            *)
SetFile ==
  /\ ~opening
  /\ \E f \in Files \ {g_fileName} : g_fileName' = f
  /\ IF g_fd # stderr THEN ClosesFile ELSE UNCHANGED <<g_fd, opened>>
  /\ opening' = TRUE
  /\ UNCHANGED <<g_init, g_activeLevel, registry, print>>

(* fopen, which may fail.                                                  *)
OpensFile ==
  /\ opening
  /\ \/ g_fd' = g_fileName /\ opened' = opened \cup {g_fileName}
     \/ UNCHANGED <<g_fd, opened>>
  /\ opening' = FALSE
  /\ UNCHANGED <<g_init, g_activeLevel, registry, g_fileName, print>>
-----------------------------------------------------------------------------
(***************************************************************************)
(* logPrint, by a thread for some object or without a category             *)
(***************************************************************************)
Takes(t, c, tag) ==
  /\ category' = [category EXCEPT ![t] = c]
  /\ asked' = [asked EXCEPT ![t] = tag]

LogPrint(t) ==
  /\ pc[t] = "idle"
  /\ \E level \in Levels : level <= g_activeLevel
  /\ \/ Takes(t, NO_CATEGERY, NoTag)
     \/ \E o \in Objects : \E h \in held[o] : Takes(t, h.category, h.tag)
  /\ pc' = [pc EXCEPT ![t] = "printing"]
  /\ UNCHANGED <<g_init, g_activeLevel, registry, file, prefix>>

GoesOn(t, next) ==
  /\ pc' = [pc EXCEPT ![t] = next]
  /\ UNCHANGED <<g_init, g_activeLevel, registry, file, category, prefix, asked>>

Prints(t, p) ==
  /\ pc' = [pc EXCEPT ![t] = "printed"]
  /\ prefix' = [prefix EXCEPT ![t] = p]
  /\ UNCHANGED <<g_init, g_activeLevel, registry, file, category, asked>>

LooksAtCounter(t) ==
  /\ pc[t] = "printing"
  /\ IF g_activeUserTag # 0 /\ category[t] \in Slots
     THEN GoesOn(t, "looking")
     ELSE Prints(t, PidTid)

LooksAtSlot(t) ==
  /\ pc[t] = "looking"
  /\ IF g_userTag[category[t]].active THEN GoesOn(t, "tagging") ELSE Prints(t, PidTid)

PrintsTag(t) ==
  /\ pc[t] = "tagging"
  /\ Prints(t, g_userTag[category[t]].tag)

PrintsRest(t) ==
  /\ pc[t] = "printed"
  /\ pc' = [pc EXCEPT ![t] = "idle"]
  /\ Takes(t, NO_CATEGERY, NoTag)
  /\ prefix' = [prefix EXCEPT ![t] = PidTid]
  /\ UNCHANGED <<g_init, g_activeLevel, registry, file>>
-----------------------------------------------------------------------------
Next ==
  \/ Logger_init \/ Logger_set_level
  \/ \E o \in Objects : RemoveUserTag(o) \/ \E tag \in Tags : AddUserTag(o, tag)
  \/ SetNoFile \/ SetFile \/ OpensFile
  \/ \E t \in Threads :
       LogPrint(t) \/ LooksAtCounter(t) \/ LooksAtSlot(t) \/ PrintsTag(t) \/ PrintsRest(t)

Spec == Init /\ [][Next]_vars
-----------------------------------------------------------------------------
(***************************************************************************)
(* Properties.  Careful callers have tags that are shorter than a slot and *)
(* do not initialise the logger after they have used it: the premise of    *)
(* the theorems.                                                           *)
(***************************************************************************)
Careful == InitEarly /\ \A tag \in Tags : TagLength[tag] < MAX_TAG_LENGTH

ActiveSlots == {i \in Slots : g_userTag[i].active}

(* The counter, which switches all tags off when it is 0 (Logger.cpp:140), *)
(* is the number of active slots after any sequence of calls, refused      *)
(* ones, removals of what is not there and repeated ones included.         *)
TagsCounted == g_activeUserTag = Cardinality(ActiveSlots)

(* The category an object was given stays its own, with the tag it asked   *)
(* for, until it is removed; one object may hold several (Logger.h:42-47). *)
(* Not so for a tag of MAX_TAG_LENGTH bytes or more (Logger.cpp:78-82).    *)
CategoriesKept ==
  \A o \in Objects :
    /\ {i \in ActiveSlots : g_userTag[i].object = o} = {h.category : h \in held[o]}
    /\ \A h \in held[o] : g_userTag[h.category].tag = h.tag

(* A thread that prints with a category prints the tag that the category   *)
(* was given for, whatever others register and remove between logPrint's   *)
(* looks at the counter, the slot and its tag, none of them under the      *)
(* mutex (Logger.cpp:140-141): unless that one tag is removed meanwhile,   *)
(* when the line may show any tag.                                         *)
PrintsOwnTag ==
  \A t \in Threads : pc[t] = "printed" /\ asked[t] # NoTag => prefix[t] = asked[t]

(* Through changes, failures to open and returns to stderr at most one     *)
(* file is open, the one that is printed to, and its name is remembered.   *)
OneFile ==
  /\ opened = {g_fd} \ {stderr}
  /\ g_fd # stderr => g_fileName = g_fd
=============================================================================

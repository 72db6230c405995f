----------------------------- MODULE StateStore -----------------------------
(***************************************************************************)
(* The state of the project (core/state/index.mjs): STATE.md is read, and  *)
(* replaced by the renaming of a temporary file, without a lock.  What the *)
(* temporary file is called tells a process and a millisecond, so two      *)
(* calls in one process may write to the same one.  An open file stays     *)
(* itself when it is renamed: files are numbered, names lead to them.      *)
(*                                                                         *)
(* Of a state the model keeps its revision, which of the saves it is made  *)
(* of, and whether a text of it holds the mark that ends the state's block.*)
(***************************************************************************)
EXTENDS Naturals, FiniteSets

CONSTANTS
  Caller,      \* calls of a StateStore that may be under way together
  Process,
  Processes,   \* who runs in which process, a subset of [Caller -> Process]
  Inode,       \* files: enough of them for one to be unused
  MaxSaves     \* saves that are begun at most: a bound of the model

ASSUME StateAssumption ==
  /\ Processes \subseteq [Caller -> Process] /\ MaxSaves \in Nat
  /\ 0 \notin Inode

NoFile == 0
Save == 1 .. MaxSaves
Document == [revision : Nat, saves : SUBSET Save, marked : BOOLEAN]
Empty == [revision |-> 0, saves |-> {}, marked |-> FALSE]

VARIABLES
  process,     \* who runs where
  stateMd,     \* the file that STATE.md leads to
  temp,        \* the file that the temporary name of a caller leads to
  text,        \* what is in the files
  caller,      \* the calls
  begun,       \* how many saves were begun
  saved,       \* those whose callers were told so
  raced,       \* of these, those that were made while another call was under way
  clashed      \* and those whose temporary name another call used as well

stateVars == <<process, stateMd, temp, text, caller, begun, saved, raced, clashed>>

-----------------------------------------------------------------------------
NotWriting(pc, draft, save) ==
  [pc |-> pc, draft |-> draft, save |-> save, name |-> 0, file |-> NoFile, shared |-> FALSE]

Away == NotWriting("away", Empty, 0)

Writing(c) == caller[c].pc \in {"write", "rename"}

StateInit ==
  /\ process \in Processes
  /\ stateMd = NoFile /\ temp = [c \in Caller |-> NoFile]
  /\ text = [i \in Inode |-> Empty]
  /\ caller = [c \in Caller |-> Away]
  /\ begun = 0 /\ saved = {} /\ raced = {} /\ clashed = {}

Drafts(c, revision, saves) ==
  /\ caller[c] = Away /\ begun < MaxSaves
  /\ \E marked \in BOOLEAN :
       LET draft == [revision |-> revision, saves |-> saves \cup {begun + 1},
                     marked |-> marked]
       IN  caller' = [caller EXCEPT ![c] = NotWriting("open", draft, begun + 1)]
  /\ begun' = begun + 1
  /\ UNCHANGED <<process, stateMd, temp, text, saved, raced, clashed>>

\* Mutant of MayInit: a state that is there is written anew.
MayInitAgain == TRUE

\* exists: as far as it can see.
MayInit == stateMd = NoFile

\* The revision a caller may name is left out: it is 1.
InitState(c) == MayInit /\ Drafts(c, 1, {})

\* parseStateDocument: an empty file has no block, and the block of a state that
\* holds the mark ends too early.
Readable(i) == text[i] # Empty /\ ~text[i].marked

\* update: load and the mutator.
UpdateState(c) ==
  /\ stateMd # NoFile /\ Readable(stateMd)
  /\ Drafts(c, text[stateMd].revision + 1, text[stateMd].saves)

-----------------------------------------------------------------------------
(* write *)

Spare ==
  {i \in Inode \ {stateMd} :
     \A c \in Caller : Writing(c) => i # caller[c].file /\ i # temp[caller[c].name]}

Unused == CHOOSE i \in Spare : TRUE

\* The temporary file is created, or emptied if there is one of that name.
Opens(c, name, file, shared) ==
  /\ caller' = [d \in Caller |->
       IF d = c THEN [caller[c] EXCEPT !.pc = "write", !.name = name, !.file = file,
                                       !.shared = shared]
       ELSE IF shared /\ Writing(d) /\ caller[d].name = name
            THEN [caller[d] EXCEPT !.shared = TRUE] ELSE caller[d]]
  /\ temp' = [temp EXCEPT ![name] = file]
  /\ text' = [text EXCEPT ![file] = Empty]
  /\ UNCHANGED <<process, stateMd, begun, saved, raced, clashed>>

\* Nobody writes under that name: it is a new one.
NewNames == {n \in Caller : \A d \in Caller : Writing(d) => caller[d].name # n}

OpenTemp(c) ==
  /\ caller[c].pc = "open" /\ Spare # {} /\ NewNames # {}
  /\ Opens(c, CHOOSE name \in NewNames : TRUE, Unused, FALSE)

\* In the same process and the same millisecond.
OpenSameTemp(c) ==
  /\ caller[c].pc = "open" /\ Spare # {}
  /\ \E d \in Caller \ {c} :
       LET name == caller[d].name
       IN  /\ process[d] = process[c] /\ Writing(d)
           /\ Opens(c, name, IF temp[name] = NoFile THEN Unused ELSE temp[name], TRUE)

WriteTemp(c) ==
  /\ caller[c].pc = "write"
  /\ text' = [text EXCEPT ![caller[c].file] = caller[c].draft]
  /\ caller' = [caller EXCEPT ![c].pc = "rename"]
  /\ UNCHANGED <<process, stateMd, temp, begun, saved, raced, clashed>>

Rename(c) ==
  /\ caller[c].pc = "rename" /\ temp[caller[c].name] # NoFile
  /\ stateMd' = temp[caller[c].name]
  /\ temp' = [temp EXCEPT ![caller[c].name] = NoFile]
  /\ saved' = saved \cup {caller[c].save}
  /\ raced' = IF \A d \in Caller \ {c} : caller[d] = Away THEN raced
              ELSE raced \cup {caller[c].save}
  /\ clashed' = IF caller[c].shared THEN clashed \cup {caller[c].save} ELSE clashed
  /\ caller' = [caller EXCEPT ![c] = Away]
  /\ UNCHANGED <<process, text, begun>>

\* The mutator throws, or a file operation: a rename does when somebody else has
\* renamed the file.
ThrowState(c) ==
  /\ caller[c] # Away
  /\ caller' = [caller EXCEPT ![c] = Away]
  /\ UNCHANGED <<process, stateMd, temp, text, begun, saved, raced, clashed>>

StopProcess(p) ==
  /\ \E c \in Caller : process[c] = p /\ caller[c] # Away
  /\ caller' = [c \in Caller |-> IF process[c] = p THEN Away ELSE caller[c]]
  /\ UNCHANGED <<process, stateMd, temp, text, begun, saved, raced, clashed>>

StateNext ==
  \/ \E c \in Caller :
       \/ InitState(c) \/ UpdateState(c)
       \/ OpenTemp(c) \/ OpenSameTemp(c) \/ WriteTemp(c) \/ Rename(c) \/ ThrowState(c)
  \/ \E p \in Process : StopProcess(p)

StateSpec == StateInit /\ [][StateNext]_stateVars

-----------------------------------------------------------------------------
StateTypeOK ==
  /\ stateMd \in Inode \cup {NoFile}
  /\ temp \in [Caller -> Inode \cup {NoFile}]
  /\ text \in [Inode -> Document]

\* A save that somebody was told of is in the state, for all that was saved
\* since, unless another call was under way when it was made or had the same
\* temporary name; the revision counts what the state is made of; and only where
\* calls had the same temporary name is a file without any state put in place.
\* A state that was saved with the mark in a text is there, and lost: nobody
\* can read, update or initialize it again.  (StateStore)
SavesKept ==
  stateMd # NoFile =>
    IF text[stateMd] = Empty THEN clashed # {}
    ELSE /\ saved \subseteq text[stateMd].saves \cup raced \cup clashed
         /\ text[stateMd].revision = Cardinality(text[stateMd].saves)

=============================================================================

------------------------------ MODULE SavedFile -------------------------------
(***************************************************************************)
(* A JSON file that is replaced as a whole: written to a temporary file    *)
(* next to it, which is then renamed (web/persist.go: saveRecords;         *)
(* dl/extra.go: recordHistory).                                            *)
(*                                                                         *)
(* A file holds nothing (truncated), a whole list, or a mix of two lists   *)
(* that does not parse.  A save has three steps, and all saves of a file   *)
(* share one temporary file: saves that meet can truncate, overwrite or    *)
(* rename the file of each other.  fd says which of the two names the      *)
(* inode that a save has opened is found under: a rename of another save   *)
(* moves it on.                                                            *)
(***************************************************************************)
EXTENDS Integers, Sequences, SequencesExt

CONSTANTS Callers,    \* the goroutines that save
          NoFile,     \* content of a file that does not exist
          Empty,      \* content of a truncated file
          Broken      \* content that does not parse

VARIABLES snap,       \* the copy of the list that a caller saves
          saveAt,     \* where a caller is in its save
          fd,         \* where the file is that it has open
          tmpFile,    \* the temporary file
          recFile     \* the file

fileVars == <<tmpFile, recFile>>
saveVars == <<snap, saveAt, fd>>

\* What cannot be read or parsed is no list at all.
Load(file) == IF file \in {NoFile, Empty, Broken} THEN <<>> ELSE file

Saving(c) == saveAt[c] # "no"

\* The list that is saved is copied, under the lock that guards it.
BeginSave(c, list) ==
  /\ snap' = [snap EXCEPT ![c] = list]
  /\ saveAt' = [saveAt EXCEPT ![c] = "open"]
  /\ UNCHANGED <<fd, fileVars>>

\* What a file holds after a whole list is written over old from its start:
\* a longer old content keeps its tail.
Over(old, list) ==
  IF old = Empty \/ (old # Broken /\ Range(old) \subseteq Range(list)) THEN {list}
  ELSE IF old # Broken /\ Range(list) \subseteq Range(old) THEN {Broken}
  ELSE {list, Broken}

\* Variant with the bug: the list is written to the file itself.
OpenFileItself(c) ==
  /\ saveAt[c] = "open"
  /\ recFile' = Empty
  /\ fd' = [fd EXCEPT ![c] = "rec"]
  /\ saveAt' = [saveAt EXCEPT ![c] = "write"]
  /\ UNCHANGED <<snap, tmpFile>>

\* os.WriteFile opens and truncates the temporary file ...
OpenFile(c) ==
  /\ saveAt[c] = "open"
  /\ tmpFile' = Empty
  /\ fd' = [fd EXCEPT ![c] = "tmp"]
  /\ saveAt' = [saveAt EXCEPT ![c] = "write"]
  /\ UNCHANGED <<snap, recFile>>

\* ... and writes the list to what it opened, whatever its name is by now.
WriteFile(c) ==
  /\ saveAt[c] = "write"
  /\ CASE fd[c] = "tmp" -> tmpFile' \in Over(tmpFile, snap[c]) /\ UNCHANGED recFile
       [] fd[c] = "rec" -> recFile' \in Over(recFile, snap[c]) /\ UNCHANGED tmpFile
       [] OTHER         -> UNCHANGED fileVars
  /\ fd' = [fd EXCEPT ![c] = "none"]
  /\ saveAt' = [saveAt EXCEPT ![c] = "rename"]
  /\ UNCHANGED snap

\* os.Rename; with the file already renamed by another save it fails, which
\* nobody acts on.
RenameFile(c) ==
  /\ saveAt[c] = "rename"
  /\ IF tmpFile = NoFile
       THEN UNCHANGED <<fileVars, fd>>
       ELSE /\ recFile' = tmpFile
            /\ tmpFile' = NoFile
            /\ fd' = [d \in Callers |-> CASE fd[d] = "tmp" -> "rec"
                                          [] fd[d] = "rec" -> "gone"
                                          [] OTHER         -> fd[d]]
  /\ saveAt' = [saveAt EXCEPT ![c] = "no"]
  /\ snap' = [snap EXCEPT ![c] = <<>>]

\* The process dies: the files are all that is left.
ForgetSaves ==
  /\ snap' = [c \in Callers |-> <<>>]
  /\ saveAt' = [c \in Callers |-> "no"]
  /\ fd' = [c \in Callers |-> "none"]
  /\ UNCHANGED fileVars
=============================================================================

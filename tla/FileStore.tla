----------------------------- MODULE FileStore -----------------------------
(* What filesystems/fs promises its user, with no disk in sight: a fixed     *)
(* number of handles, each holding no file or a file made of a name and a    *)
(* row of blocks, and one transfer buffer that `R' fills and `W' empties.    *)
(* An operation changes the file it is given and no other.                   *)
EXTENDS Integers

CONSTANTS Handles,   \* places a file can be kept in
          MaxLength, \* longest file, in blocks
          Names,     \* file names
          NoName,    \* no name, borne by a handle with no file
          Data       \* contents of one block

VARIABLES file,   \* [Handles -> the file kept there, or Absent]
          buffer  \* contents of the transfer buffer

vars == <<file, buffer>>

Absent == [name |-> NoName, body |-> <<>>]

Bodies == UNION {[0..(n - 1) -> Data] : n \in 0..MaxLength}

Files == [name : Names, body : Bodies]

Init ==
  /\ file = [h \in Handles |-> Absent]
  /\ buffer \in Data

\* A new file may hold anything: the blocks it is given are not cleared.
Create(name) ==
  /\ \E h \in Handles, body \in Bodies :
       /\ file[h] = Absent
       /\ file' = [file EXCEPT ![h] = [name |-> name, body |-> body]]
  /\ UNCHANGED buffer

\* Names are not unique, so a name stands for any one file that bears it.
Delete(name) ==
  /\ \E h \in Handles :
       /\ file[h] # Absent /\ file[h].name = name
       /\ file' = [file EXCEPT ![h] = Absent]
  /\ UNCHANGED buffer

Read(name, k) ==
  /\ \E h \in Handles :
       /\ file[h] # Absent /\ file[h].name = name
       /\ k \in DOMAIN file[h].body
       /\ buffer' = file[h].body[k]
  /\ UNCHANGED file

Write(name, k) ==
  /\ \E h \in Handles :
       /\ file[h] # Absent /\ file[h].name = name
       /\ k \in DOMAIN file[h].body
       /\ file' = [file EXCEPT ![h].body[k] = buffer]
  /\ UNCHANGED buffer

\* A new run of the program starts with an unknown buffer and the same files.
Restart ==
  /\ buffer' \in Data
  /\ UNCHANGED file

Format ==
  /\ file' = [h \in Handles |-> Absent]
  /\ UNCHANGED buffer

Next ==
  \/ \E name \in Names : Create(name) \/ Delete(name)
  \/ \E name \in Names, k \in 0..(MaxLength - 1) : Read(name, k) \/ Write(name, k)
  \/ Restart
  \/ Format

Spec == Init /\ [][Next]_vars
=============================================================================

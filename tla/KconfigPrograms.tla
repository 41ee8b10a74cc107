--------------------------- MODULE KconfigPrograms ---------------------------
(***************************************************************************)
(* What the configuration programs conf and mconf share: the files, which  *)
(* one program at a time reads and writes, and the record the running      *)
(* program keeps about the symbols.  Each start is a new process, which    *)
(* has parsed the Kconfig files.                                           *)
(***************************************************************************)
EXTENDS KconfigMenus

CONSTANTS
  HandMade,     \* the .config files there may be at first, None for no file
  TypedText,    \* of an int, hex or string: the texts a user may type
  MaxSessions,  \* bound: how often a program is started
  MaxInputs     \* bound: what the user types, in all

VARIABLES
  prog,      \* the program that runs: "none", "conf" or "mconf"
  mem,       \* what it keeps about the symbols
  files,     \* the configuration files, by name
  saved,     \* history: the values each file was written from, None by hand
  sessions,  \* how many programs have been started
  inputs,    \* how often the user has typed something
  synced     \* environment: auto.conf is newer than .config

Name == {".config", "alternate", "minimal"}
shared == <<prog, mem, files, saved, sessions, inputs, synced>>

Values(m) == [s \in Plain |-> m.cur[s]]

InitShared ==
  /\ prog = "none" /\ mem = Unread /\ sessions = 0 /\ inputs = 0
  /\ \E f \in HandMade : files = [n \in Name |-> IF n = ".config" THEN f ELSE None]
  /\ saved = [n \in Name |-> None] /\ synced = FALSE

(* A program is started and reads a file, or finds that there is none.       *)
Begin(p) ==
  /\ prog = "none" /\ sessions < MaxSessions
  /\ prog' = p /\ sessions' = sessions + 1
  /\ UNCHANGED <<files, saved, inputs, synced>>

ReadAtStart(name) ==
  IF files[name] = None THEN ConfReadMissing(Unread) ELSE ConfRead(Unread, files[name], FALSE)

(* What changes a setting, loads or saves is bounded; the empty line and the *)
(* end of input are not.                                                     *)
Types == inputs < MaxInputs /\ inputs' = inputs + 1

(* A file is written from the record m. *)
Writes(name, content, m) ==
  /\ files' = [files EXCEPT ![name] = content]
  /\ saved' = [saved EXCEPT ![name] = Values(m)]
  /\ synced' = (synced /\ name # ".config")

Ends == prog' = "none" /\ mem' = Unread
=============================================================================

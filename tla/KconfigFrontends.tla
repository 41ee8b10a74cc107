--------------------------- MODULE KconfigFrontends ---------------------------
(***************************************************************************)
(* conf and mconf on the same files: the build starts them one after the   *)
(* other, conf as often as anything makes .config newer than auto.conf.    *)
(***************************************************************************)
EXTENDS KconfigConf, KconfigMconf

vars == <<shared, run, tree, screen>>

Init == InitShared /\ InitConf /\ InitMconf

(* All sessions are over. *)
Over == prog = "none" /\ sessions = MaxSessions /\ UNCHANGED vars

Next ==
  \/ NextConf /\ UNCHANGED screen
  \/ NextMconf /\ UNCHANGED <<run, tree>>
  \/ Over

(* While conf runs, one of its steps is always possible, as the absence of   *)
(* deadlocks shows; so this is weak fairness of conf.  Nothing is assumed of *)
(* the user in front of mconf, who may never come to an end.                 *)
ConfRuns == []<>(prog # "conf") \/ []<><<prog = "conf">>_vars

Spec == Init /\ [][Next]_vars /\ ConfRuns

-----------------------------------------------------------------------------
(* The input comes to an end, and so does the program: conf asks, restarts   *)
(* the menu whenever an answer made something else new, and stops.           *)
ConfEnds == prog = "conf" ~> prog = "none"

(* Nothing is asked for twice: a configuration one of the programs has       *)
(* written has an answer to everything oldconfig and silentoldconfig ask.    *)
NothingAskedTwice ==
  prog = "conf" /\ saved[".config"] # None /\ (mode = "oldconfig" \/ sync) => ~again

(* A file is read back to the values it was written from, the texts with     *)
(* quotes and the numbers with ranges included, by either program and when   *)
(* the user loads it over other settings.                                    *)
ReadFrom(name) == saved[name] # None => Values(mem') = saved[name]
ReadsBack ==
  [][/\ prog = "none" /\ prog' = "conf" /\ source' # "minimal" => ReadFrom(source')
     /\ prog = "none" /\ prog' = "mconf" => ReadFrom(".config")
     /\ \A name \in Name : LoadFile(name) /\ files[name] # None => ReadFrom(name)]_vars

(* savedefconfig leaves out what the other settings and the defaults give,   *)
(* and defconfig gets every value back from the rest.                        *)
MinimalSuffices ==
  [][prog = "conf" /\ mode = "defconfig" /\ saved[source] # None /\ saved' # saved
       => saved'[".config"] = saved[source]]_vars

(* What conf --defconfig makes of the file f. *)
Refreshed(f) == Config(WriteReady(AllNewSymbols(ConfRead(Unread, f, FALSE), "defconfig")))

(* A configuration the programs have written is in sync: the check that      *)
(* every build makes (build/toplevel.mk) finds nothing to warn of.           *)
InSync == prog = "none" /\ saved[".config"] # None => Refreshed(files[".config"]) = files[".config"]

(* The text t is the one a file had for s, withdrawn because s was hidden.   *)
Withdrawn(s, t) == ~mem.du[s] /\ mem.def[s] = t

(* What the user enters for an option that is shown is its value from then   *)
(* on: every calculation gives it, and it is in force at once, unless it is  *)
(* the very text that was withdrawn, which sym_set_string_value takes to be  *)
(* in force already (symbol.c:677).                                          *)
TypedTaken ==
  [][On("string") /\ mem.vis[Edited] # no =>
       \A t \in TypedText[Edited] : Enter(t) =>
         /\ Calculated(mem').cur[Edited] = Typed(Edited, t)
         /\ mem'.cur[Edited] = Typed(Edited, t) \/ Withdrawn(Edited, t)]_vars

(* Another target starts from nothing: choosing a value of a choice with     *)
(* "reset" gives what that choice gives in a program that has read nothing.  *)
Fresh(c, s) == SetTristate(ConfReadMissing(Unread), s, yes)
ResetIsFresh ==
  [][\A n \in Menu : Choose(n) /\ mem.cur[SymOf[n]] # yes /\ Resets(mem, SymOf[Top.at])
       => Values(mem') = Values(Fresh(SymOf[Top.at], SymOf[n]))]_vars

(* No object is stale: with auto.conf in place, whatever is not compiled     *)
(* with the present value of a symbol has had its header touched, even if    *)
(* an earlier run stopped halfway through the headers.                       *)
NoStaleObject == synced => \A s \in Plain : s \in touched \/ built[s] = auto[s]
=============================================================================

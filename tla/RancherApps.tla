----------------------------- MODULE RancherApps -----------------------------
(***************************************************************************)
(* One app and one catalog of Rancher, as k8s_plugins/rancher.py installs, *)
(* upgrades and deletes them: it asks whether the app exists, has the      *)
(* command line log in and then install or upgrade it, and waits for it    *)
(* with a command of its own, with the commands of other callers in        *)
(* between.  Rancher refuses to install an app that is there, and to       *)
(* upgrade, delete or wait for one that is not.                            *)
(*                                                                         *)
(* Each caller installs a version and a catalog of its own, named like it. *)
(* MaxFaults bounds the commands that fail, before or after they are       *)
(* executed.                                                               *)
(***************************************************************************)
EXTENDS Naturals

CONSTANTS Callers, None, MaxFaults

VARIABLES
  app,      \* its version, or None
  catalog,  \* whose it is, or None
  call,     \* caller -> [op, at, force, bare, missed, touched, excused]
  faults

vars == <<app, catalog, call, faults>>

Calls == [op : {"none", "install_app", "upgrade_app", "delete_app", "add_catalog",
                "delete_catalog"},
          at : {"ok", "raised", "exists", "install", "upgrade", "delete", "wait", "post",
                "refresh", "unpost"},
          force : BOOLEAN,    \* an argument of install_app
          bare : BOOLEAN,     \* an upgrade without settings
          missed : BOOLEAN,   \* history: what it was to change was not there at first, or,
                              \* for an install, was
          touched : SUBSET {"app", "catalog"},  \* history: others have changed it since
          excused : BOOLEAN]  \* history: a command of it failed

Idle == [op |-> "none", at |-> "ok", force |-> FALSE, bare |-> FALSE, missed |-> FALSE,
         touched |-> {}, excused |-> FALSE]

Init ==
  /\ app = None /\ catalog = None
  /\ call = [c \in Callers |-> Idle]
  /\ faults = MaxFaults

At(c, label) == call[c].at = label
Returned(c) == At(c, "ok") \/ At(c, "raised")
Goto(c, label) == call' = [call EXCEPT ![c].at = label]
Raise(c) == call' = [call EXCEPT ![c].at = "raised"]
Fault == faults > 0 /\ faults' = faults - 1

\* Caller c has Rancher change the app and the catalog; the answer may be lost.
Executed(c, app2, catalog2, label) ==
  /\ app' = app2 /\ catalog' = catalog2
  /\ LET changed == {x \in {"app", "catalog"} : IF x = "app" THEN app2 # app ELSE catalog2 # catalog}
         now == [d \in Callers |->
           IF d = c \/ call[d].op = "none" THEN call[d]
           ELSE [call[d] EXCEPT !.touched = @ \cup changed]]
     IN  \/ call' = [now EXCEPT ![c].at = label] /\ UNCHANGED faults
         \/ call' = [now EXCEPT ![c].at = "raised", ![c].excused = TRUE] /\ Fault

-----------------------------------------------------------------------------
\* The login that precedes every command fails, or the command itself.
CommandFails(c) ==
  /\ ~Returned(c)
  /\ Fault
  /\ call' = [call EXCEPT ![c].at = "raised", ![c].excused = TRUE]
  /\ UNCHANGED <<app, catalog>>

\* Mutant of app_exists: an app that exists is not looked for.
AssumeNew(c) ==
  /\ At(c, "exists")
  /\ Goto(c, "install")
  /\ UNCHANGED <<app, catalog, faults>>

app_exists(c) ==
  /\ At(c, "exists")
  /\ Goto(c, IF app # None /\ call[c].force THEN "upgrade" ELSE "install")
  /\ UNCHANGED <<app, catalog, faults>>

\* The caller may not want to wait for the app; an install that turns into an upgrade
\* waits all the same.
AfterCommand(c) ==
  {"wait"} \cup (IF At(c, "upgrade") /\ call[c].op = "install_app" THEN {} ELSE {"ok"})

Install(c) ==
  /\ At(c, "install")
  /\ IF app = None
     THEN \E next \in AfterCommand(c) : Executed(c, c, catalog, next)
     ELSE Raise(c) /\ UNCHANGED <<app, catalog, faults>>

\* The name and the version of the app are part of the command once for each setting:
\* without settings it names neither, and Rancher shows its help.
Upgrade(c) ==
  /\ At(c, "upgrade")
  /\ \/ /\ call[c].bare
        /\ Raise(c) \/ \E next \in AfterCommand(c) : Goto(c, next)
        /\ UNCHANGED <<app, catalog, faults>>
     \/ /\ ~call[c].bare /\ app # None
        /\ \E next \in AfterCommand(c) : Executed(c, c, catalog, next)
     \/ ~call[c].bare /\ app = None /\ Raise(c) /\ UNCHANGED <<app, catalog, faults>>

wait_for_app(c) ==
  /\ At(c, "wait")
  /\ IF app = None THEN Raise(c) ELSE Goto(c, "ok")
  /\ UNCHANGED <<app, catalog, faults>>

Delete(c) ==
  /\ At(c, "delete")
  /\ IF app # None
     THEN Executed(c, None, catalog, "ok")
     ELSE Raise(c) /\ UNCHANGED <<app, catalog, faults>>

\* Status 409, of a catalog that exists, is fine: it stays what it is.
PostCatalog(c) ==
  /\ At(c, "post")
  /\ IF catalog = None
     THEN Executed(c, app, c, "refresh")
     ELSE Goto(c, "refresh") /\ UNCHANGED <<app, catalog, faults>>

refresh_catalog(c) ==
  /\ At(c, "refresh")
  /\ IF catalog = None THEN Raise(c) ELSE Goto(c, "ok")
  /\ UNCHANGED <<app, catalog, faults>>

\* A POST to the address of the catalog deletes nothing: the assertion holds if there is
\* none.
PostToCatalog(c) ==
  /\ At(c, "unpost")
  /\ IF catalog = None THEN Goto(c, "ok") ELSE Raise(c)
  /\ UNCHANGED <<app, catalog, faults>>

-----------------------------------------------------------------------------
(* The calls.                                                              *)

\* What others have returned is forgotten: the properties are about a call until the next
\* one begins.
Begin(c, op, label, force, bare, missed) ==
  /\ Returned(c)
  /\ call' = [d \in Callers |->
       IF d = c THEN [Idle EXCEPT !.op = op, !.at = label, !.force = force, !.bare = bare,
                                  !.missed = missed]
       ELSE IF Returned(d) THEN Idle ELSE call[d]]
  /\ UNCHANGED <<app, catalog, faults>>

install_app(c) == \E force \in BOOLEAN : Begin(c, "install_app", "exists", force, FALSE, app # None)
upgrade_app(c) == \E bare \in BOOLEAN : Begin(c, "upgrade_app", "upgrade", FALSE, bare, app = None)
delete_app(c) == Begin(c, "delete_app", "delete", FALSE, FALSE, app = None)
add_catalog(c) == Begin(c, "add_catalog", "post", FALSE, FALSE, FALSE)
delete_catalog(c) == Begin(c, "delete_catalog", "unpost", FALSE, FALSE, catalog = None)

Next ==
  \E c \in Callers :
    \/ install_app(c) \/ upgrade_app(c) \/ delete_app(c) \/ add_catalog(c) \/ delete_catalog(c)
    \/ app_exists(c) \/ Install(c) \/ Upgrade(c) \/ wait_for_app(c) \/ Delete(c)
    \/ PostCatalog(c) \/ refresh_catalog(c) \/ PostToCatalog(c) \/ CommandFails(c)

Spec == Init /\ [][Next]_vars

-----------------------------------------------------------------------------
\* Every variable has the type its declaration says.
TypeOK ==
  /\ app \in Callers \cup {None} /\ catalog \in Callers \cup {None}
  /\ call \in [Callers -> Calls]
  /\ faults \in 0..MaxFaults

AppHolds(c) ==
  "app" \notin call[c].touched =>
    /\ At(c, "ok") /\ call[c].op \in {"install_app", "upgrade_app"} /\ ~call[c].bare =>
         app = c
    /\ At(c, "ok") /\ call[c].op = "delete_app" => app = None
    /\ At(c, "raised") /\ ~call[c].excused =>
         /\ call[c].op = "install_app" => call[c].missed /\ ~call[c].force
         /\ call[c].op \in {"upgrade_app", "delete_app"} => call[c].missed \/ call[c].bare

\* Unless others changed the app meanwhile, it has the version that was asked for when an
\* install or an upgrade with settings returns, and is gone when a deletion does.  An
\* install that may force fails only by a failing command or by others, whether the app
\* was there or not; one that may not, only if it was; upgrades and deletions, if it was
\* not.
AppsHold == \A c \in Callers : AppHolds(c)

CatalogHolds(c) ==
  "catalog" \notin call[c].touched =>
    /\ At(c, "ok") /\ call[c].op = "add_catalog" => catalog # None
    /\ ~call[c].excused /\ call[c].op = "delete_catalog" =>
         /\ At(c, "ok") => call[c].missed
         /\ At(c, "raised") => ~call[c].missed

\* A catalog is there when add_catalog returns, though perhaps with the address of another
\* one of its name.  delete_catalog has never deleted one: it returns if there was none,
\* and raises if there was one.
CatalogsHold == \A c \in Callers : CatalogHolds(c)
-----------------------------------------------------------------------------
(* Why they hold.                                                          *)

\* The labels each call goes through.
LabelsOf(c) ==
  /\ At(c, "exists") \/ At(c, "install") => call[c].op = "install_app"
  /\ At(c, "upgrade") \/ At(c, "wait") => call[c].op \in {"install_app", "upgrade_app"}
  /\ At(c, "delete") => call[c].op = "delete_app"
  /\ At(c, "post") \/ At(c, "refresh") => call[c].op = "add_catalog"
  /\ At(c, "unpost") => call[c].op = "delete_catalog"
  /\ call[c].bare => call[c].op = "upgrade_app"

\* As long as nobody else has changed the app, each command finds it as the call has left
\* it, or as it was when the call began.
AppAsLeft(c) ==
  "app" \notin call[c].touched =>
    /\ At(c, "exists") \/ At(c, "install") => (call[c].missed <=> app # None)
    /\ At(c, "install") /\ call[c].force => app = None
    /\ At(c, "upgrade") /\ app = None => call[c].op = "upgrade_app" /\ call[c].missed
    /\ At(c, "delete") /\ app = None => call[c].missed
    /\ At(c, "wait") /\ ~call[c].bare => app = c

\* Nothing deletes a catalog.
CatalogAsLeft(c) ==
  /\ At(c, "refresh") => catalog # None
  /\ "catalog" \notin call[c].touched /\ At(c, "unpost") => (call[c].missed <=> catalog = None)

Inv ==
  /\ TypeOK
  /\ \A c \in Callers :
       LabelsOf(c) /\ AppAsLeft(c) /\ CatalogAsLeft(c) /\ AppHolds(c) /\ CatalogHolds(c)
==============================================================================

-------------------------- MODULE MCPluginConsent --------------------------
(* Small instances of PluginConsent for TLC: a household and a user, a       *)
(* permission p of the plugin's own and a core permission s, and five        *)
(* manifests.  m1 requires p of households and asks the server for s; m2     *)
(* makes p optional and moves s to the users; m3 requires both again, and a  *)
(* household configuration; m4, under m3's version, has no household surface *)
(* and no p; m5 asks what m1 does, and its schema does not compile.          *)
EXTENDS PluginConsent, TLC

CONSTANTS hh, us, r1, r2, r3

AScope == [u \in Units |-> IF u = hh THEN "household" ELSE "user"]

ANumber == [m \in Manifests |-> CASE m = "m1" -> 1 [] m = "m2" -> 2
                              [] m = "m5" -> 4 [] OTHER -> 3]

Of(sc, req1) == [scope |-> sc, required |-> req1]
None == Of("none", FALSE)

ACheck == [m \in Manifests |-> [s \in Slugs |->
    CASE m \in {"m1", "m5"} -> IF s = "p" THEN Of("household", TRUE) ELSE Of("server", FALSE)
      [] m = "m2" -> IF s = "p" THEN Of("household", FALSE) ELSE Of("user", TRUE)
      [] m = "m3" -> IF s = "p" THEN Of("household", TRUE) ELSE Of("server", TRUE)
      [] m = "m4" -> IF s = "p" THEN None ELSE Of("server", TRUE)]]

ADeclares == [m \in Manifests |-> IF m = "m4" THEN {} ELSE {"p"}]
ASurface == [m \in Manifests |-> IF m = "m4" THEN "server" ELSE "household"]
AReach == [m \in Manifests |-> IF m = "m4" THEN {"write"} ELSE {}]
AAccepts == [m \in Manifests |-> CASE m = "m3" -> Configs \ {Empty}
                                   [] m = "m5" -> {}
                                   [] OTHER -> Configs]

(* Bounds: a behaviour is about consent to updates, or about configuration   *)
(* through installs.                                                         *)
Only(ops) == \A r \in Reqs : req[r].op \in ops \cup {"idle"}

At(ms) == ms \cap ({plugin.m, plugin.pending.m} \cup {req[r].next : r \in Reqs}) # {}
Bare(u) == units[u] = NoRow /\ \A s \in Slugs : grants[u][s] = Pending
Unraised == \A s \in Slugs : risk[s] = 0

(* Consent: one unit at a time has anything on record, the user without m3,  *)
(* and only the user once a risk level has been raised, when updates and     *)
(* decisions are all that happens; two updates meet before there are units;  *)
(* nothing is revoked or uninstalled while an update is staged; nothing is   *)
(* configured; an activation compared with the wrong manifest is the end,    *)
(* and so is an uninstallation.  Of the marks that tell installations apart, *)
(* one is enough.                                                            *)
UpdateOps == {"stage", "approve", "reject"}
OneUnit == \E u \in Units :
    /\ \A v \in Units \ {u} : Bare(v)
    /\ \/ Unraised
       \/ u = us /\ Only({"decide", "reenable", "suspend"} \cup UpdateOps)
Updating ==
    /\ Only({"decide", "reenable", "suspend", "revoke", "enableHousehold",
             "setUserEnabled", "uninstall"} \cup UpdateOps)
    /\ OneUnit /\ ~drifted
    /\ Bare(us) \/ ~At({"m3"})
    /\ \/ Cardinality({r \in Reqs : req[r].op \in UpdateOps}) <= 1
       \/ Unraised /\ \A u \in Units : Bare(u)
    /\ \/ plugin.pending = NoStaging
       \/ \A r \in Reqs : req[r].op \notin {"revoke", "uninstall"}
    /\ IF plugin.state = "living" THEN plugin.enabled ELSE Unraised
    /\ plugin.epoch = 2
    /\ plugin.config = Empty /\ \A u \in Units : units[u].config = Empty
    /\ \A r \in Reqs : req[r].config = Empty
    /\ ~At({"m4", "m5"})

(* Configuration: the household's, without m2 and without decisions, and one *)
(* such write at a time; m4 and m5 are not at hand together, and with m5     *)
(* only the household is configured.                                         *)
ConfigOps == {"enableHousehold", "updateHouseholdConfig", "updateConfig",
              "disableHousehold", "setEnabled"}
Installing ==
    /\ Only({"install", "uninstall", "stage"} \cup ConfigOps)
    /\ units[us] = NoRow /\ \A u \in Units, s \in Slugs : grants[u][s] = Pending
    /\ Unraised /\ ~At({"m2"}) /\ plugin.pending = NoStaging
    /\ ~At({"m4"}) \/ ~At({"m5"})
    /\ At({"m5"}) => Only({"install", "uninstall", "stage", "enableHousehold",
                          "updateHouseholdConfig"})
    /\ Cardinality({r \in Reqs : req[r].op \in ConfigOps}) <= 1
    /\ ~units[hh].suspended
    /\ plugin.state = "living" => plugin.enabled \/ plugin.config = Empty

OneThing == Updating \/ Installing

Symmetry == Permutations(Reqs)
=============================================================================

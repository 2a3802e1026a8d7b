---------------------------- MODULE MCComponents ----------------------------
(* Components that share no state, in one run: a behaviour is about one of  *)
(* them, named by focus, and the others stay in their initial states.      *)
EXTENDS MCAlertAnalysis, MCPercolatorSync, MCRuleReview, MCMissedAttacks, MCDeviceDrivers, MCDriverRegistry, MCDeviceStore

VARIABLE focus

Init ==
    /\ focus \in {"analysis", "sync", "review", "missed", "drivers", "registry", "store"}
    /\ AnalysisInit /\ SyncInit /\ ReviewInit /\ MissedInit /\ DriversInit /\ RegistryInit /\ StoreInit
    /\ focus # "review" => retention = 30
    /\ focus # "sync" => \A d \in Devices : devices[d]

Next ==
    /\ UNCHANGED focus
    /\ \/ /\ focus = "analysis" /\ AnalysisNext
          /\ UNCHANGED <<syncVars, reviewVars, missedVars, driverVars, registryVars, storeVars>>
       \/ /\ focus = "sync" /\ SyncNext
          /\ UNCHANGED <<analysisVars, reviewVars, missedVars, driverVars, registryVars, storeVars>>
       \/ /\ focus = "review" /\ ReviewNext
          /\ UNCHANGED <<analysisVars, syncVars, missedVars, driverVars, registryVars, storeVars>>
       \/ /\ focus = "missed" /\ MissedNext
          /\ UNCHANGED <<analysisVars, syncVars, reviewVars, driverVars, registryVars, storeVars>>
       \/ /\ focus = "drivers" /\ DriversNext
          /\ UNCHANGED <<analysisVars, syncVars, reviewVars, missedVars, registryVars, storeVars>>
       \/ /\ focus = "registry" /\ RegistryNext
          /\ UNCHANGED <<analysisVars, syncVars, reviewVars, missedVars, driverVars, storeVars>>
       \/ /\ focus = "store" /\ StoreNext
          /\ UNCHANGED <<analysisVars, syncVars, reviewVars, missedVars, driverVars, registryVars>>

Symmetry == ThreadSymmetry \cup Permutations(Filters)

Spec ==
    Init /\ [][Next]_<<focus, analysisVars, syncVars, reviewVars, missedVars, driverVars, registryVars, storeVars>>

\* The variables of every component have their types.
TypeOK ==
    /\ focus = "analysis" => AnalysisTypeOK
    /\ focus = "sync" => SyncTypeOK
    /\ focus = "review" => ReviewTypeOK
    /\ focus = "drivers" => DriversTypeOK
    /\ focus = "registry" => RegistryTypeOK
    /\ focus = "store" => StoreTypeOK
=============================================================================

-------------------------- MODULE ComponentsProofs --------------------------
(* Theorems about the components that share no state, taken together: each *)
(* behaviour of MCComponents is one of every component, so that what is    *)
(* proved of each of them holds in it.                                     *)
EXTENDS MCComponents, AnalyzerProofs, PercolatorSyncProofs, DeviceProofs

allVars == <<focus, analysisVars, syncVars, reviewVars, missedVars, driverVars, registryVars, storeVars>>

\* A step is a step of the component in focus, and the others stay.
LEMMA StepsAreOfComponents ==
    [Next]_allVars => /\ [AnalysisNext]_analysisVars /\ [SyncNext]_syncVars /\ [ReviewNext]_reviewVars
                      /\ [MissedNext]_missedVars /\ [DriversNext]_driverVars
                      /\ [RegistryNext]_registryVars /\ [StoreNext]_storeVars
  <1> SUFFICES ASSUME [Next]_allVars
               PROVE  /\ [AnalysisNext]_analysisVars /\ [SyncNext]_syncVars /\ [ReviewNext]_reviewVars
                      /\ [MissedNext]_missedVars /\ [DriversNext]_driverVars
                      /\ [RegistryNext]_registryVars /\ [StoreNext]_storeVars
    OBVIOUS
  <1>1. CASE UNCHANGED allVars  BY <1>1 DEF allVars
  <1>2. CASE Next  BY <1>2 DEF Next
  <1> QED  BY <1>1, <1>2

\* Every behaviour of the composition is a behaviour of each component.
THEOREM ComponentsBehave ==
    Spec => AnalysisSpec /\ SyncSpec /\ ReviewSpec /\ MissedSpec /\ DriversSpec /\ RegistrySpec /\ StoreSpec
  <1>1. Init => AnalysisInit /\ SyncInit /\ ReviewInit /\ MissedInit /\ DriversInit /\ RegistryInit /\ StoreInit
    BY DEF Init
  <1> QED
    BY <1>1, StepsAreOfComponents, PTL
    DEF Spec, allVars, AnalysisSpec, SyncSpec, ReviewSpec, MissedSpec, DriversSpec, RegistrySpec, StoreSpec

\* The variables of every component have their types (MCComponents).
THEOREM TypesHold == Spec => []TypeOK
  <1>1. /\ AnalysisTypeOK /\ SyncTypeOK /\ ReviewTypeOK /\ DriversTypeOK /\ RegistryTypeOK /\ StoreTypeOK
        => TypeOK
    BY DEF TypeOK
  <1> QED
    BY <1>1, ComponentsBehave, PushesTypeCorrect, SyncTypesHold, ReviewTyped, DriversTyped, RegistryTypesHold,
       StoreTyped, PTL

\* What each component keeps to on its own, it keeps to next to the others: the analyzer
\* (deduplication, missed attacks, review), the queries, and the responder's devices.
THEOREM PromisesHoldTogether ==
    Spec => /\ [](DroppedWithReason /\ LookupIsComplete /\ RepeatsBounded)
            /\ []CleanJobIsRight
            /\ [](CommonTrafficStaysOut /\ UnreplayedForAReason)
            /\ []FailedForAReason /\ DoubtReturnsForAReason
            /\ [](SuccessIsTrue /\ QuietCallsSucceed /\ NoDoubleEntries) /\ BlocksChangeForAReason
            /\ [](NamesDiffer /\ RequestLeavesTruth)
            /\ [](ScriptGetsWhatWasSaved /\ SecretsStayHidden)
  <1>1. AnalysisSpec => [](DroppedWithReason /\ LookupIsComplete /\ RepeatsBounded)
    BY OnlyRepeatsAreDropped, RecordedAnalysesAreFound, OnlyOverlapsRepeat, PTL
  <1>2. ReviewSpec => [](CommonTrafficStaysOut /\ UnreplayedForAReason)
    BY CommonRulesStayOut, UnreplayedRulesAreExcused, PTL
  <1>3. DriversSpec => [](SuccessIsTrue /\ QuietCallsSucceed /\ NoDoubleEntries)
    BY DriversReportTruth, QuietCallsGetThrough, EntriesStaySingle, PTL
  <1>4. RegistrySpec => [](NamesDiffer /\ RequestLeavesTruth)
    BY NamesStayDifferent, RequestsRepair, PTL
  <1>5. StoreSpec => [](ScriptGetsWhatWasSaved /\ SecretsStayHidden)
    BY ScriptGetsIt, SecretsHidden, PTL
  <1> QED
    BY <1>1, <1>2, <1>3, <1>4, <1>5, ComponentsBehave, CleanJobs, EveryFailureHasAReason, DoubtNeedsAReason,
       BlocksChangeOnlyForAReason, PTL
=============================================================================

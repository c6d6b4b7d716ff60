-------------------------- MODULE GovernanceProofs --------------------------
(***************************************************************************)
(* The theorems of Governance, for every value of its constants.            *)
(***************************************************************************)
EXTENDS Governance, ConfigProofs

\* ConfigInv holds of every configuration the administrator and the
\* admitted users can reach together.
THEOREM GovernanceInvariant == Spec => []ConfigInv
<1>1. ConfigInit => ConfigInv
  BY ConfigInitInv
<1>2. ConfigInv /\ [Next]_configVars => ConfigInv'
  <2> SUFFICES ASSUME ConfigInv, [Next]_configVars PROVE ConfigInv'
    OBVIOUS
  <2>1. CASE AdminStep
    BY <2>1, AdminStepInv
  <2>2. ASSUME NEW owner \in Keys, NEW amount \in Deposits, NEW products \in AdmittedProducts,
               AdmitDeposit(owner, amount, products)
        PROVE  ConfigInv'
    <3>1. amount \in Nat
      BY DepositAssumption
    <3> QED BY <2>2, <3>1, AdmitInv DEF AdmitDeposit
  <2>3. CASE UNCHANGED configVars
    BY <2>3 DEF configVars, ConfigInv, SealedWasCreated, ConfigTypeOK, AdmissionWithinLimit,
                ActiveManifestSealed, MintsDistinct
  <2> QED BY <2>1, <2>2, <2>3 DEF Next
<1> QED BY <1>1, <1>2, PTL DEF Spec

\* The account keeps the types of its struct.  (state.rs, Config and Manifest)
THEOREM GovernanceTypeOK == Spec => []ConfigTypeOK
BY GovernanceInvariant, PTL DEF ConfigInv

\* No order of deposits, purchases and reconfigurations admits more USDC than
\* the limit.  (Config::admit against configure_access)
THEOREM AdmissionBudgetHolds == Spec => []AdmissionWithinLimit
BY GovernanceInvariant, PTL DEF ConfigInv

\* An unpaused program always has a sealed active manifest with stocks.
THEOREM ActiveManifestIsSealed == Spec => []ActiveManifestSealed
BY GovernanceInvariant, PTL DEF ConfigInv

\* Every manifest names each mint at most once.  (validate_stocks)
THEOREM ManifestMintsDistinct == Spec => []MintsDistinct
BY GovernanceInvariant, PTL DEF ConfigInv

\* What was sealed never changes again.  (append_manifest, activate_manifest)
THEOREM SealedManifestsStayFrozen == Spec => SealedManifestFrozen
<1>1. ConfigInv /\ [Next]_configVars
        => [\A m \in ManifestIds : manifests[m].sealed => manifests'[m] = manifests[m]]_configVars
  <2> SUFFICES ASSUME ConfigInv, [Next]_configVars
               PROVE  [\A m \in ManifestIds : manifests[m].sealed => manifests'[m] = manifests[m]]_configVars
    OBVIOUS
  <2> QED BY AdminStepFrozen DEF Next, AdmitDeposit, configVars
<1> QED BY <1>1, GovernanceInvariant, PTL DEF Spec, SealedManifestFrozen

\* Terms of access move only while paused, admission only while not.
THEOREM AccessTermsStable == Spec => AccessChangesOnlyWhilePaused
<1> DEFINE Step == /\ config'.admitted_usdc >= config.admitted_usdc
                   /\ config'.admitted_usdc # config.admitted_usdc => ~config.paused /\ ~config'.paused
                   /\ <<config'.enabled_products, config'.pilot_owner, config'.admission_limit>>
                         # <<config.enabled_products, config.pilot_owner, config.admission_limit>>
                         => config.paused /\ config'.paused
<1>1. ConfigInv /\ [Next]_configVars => [Step]_configVars
  <2> SUFFICES ASSUME ConfigInv, Next PROVE Step
    BY DEF configVars
  <2>1. config.admitted_usdc \in Nat
    BY DEF ConfigInv, ConfigTypeOK, ConfigRecord
  <2>2. CASE AdminStep
    BY <2>1, <2>2, AdminStepAccess DEF ConfigInv
  <2>3. ASSUME NEW owner \in Keys, NEW amount \in Deposits, NEW products \in AdmittedProducts,
               AdmitDeposit(owner, amount, products)
        PROVE  Step
    <3>1. amount \in Nat
      BY DepositAssumption
    <3> QED BY <2>1, <2>3, <3>1
            DEF AdmitDeposit, Admit, CheckProduct, ConfigInv, ConfigTypeOK, ConfigRecord
  <2> QED BY <2>2, <2>3 DEF Next
<1> QED BY <1>1, GovernanceInvariant, PTL DEF Spec, AccessChangesOnlyWhilePaused
=============================================================================

---------------------------- MODULE ConfigProofs ----------------------------
(***************************************************************************)
(* The configuration account, for every set of keys, products, limits and   *)
(* manifests: facts about one administrative step that the proofs of the    *)
(* components built on StockroomConfig cite.                                *)
(***************************************************************************)
EXTENDS StockroomConfig, SequenceTheorems, TLAPS

\* Only a manifest that was created is ever sealed: without it, a creation
\* could overwrite a sealed manifest.
SealedWasCreated == \A m \in ManifestIds : manifests[m].sealed => manifests[m].created

\* What every administrative step preserves together.
ConfigInv ==
    /\ ConfigTypeOK
    /\ SealedWasCreated
    /\ AdmissionWithinLimit
    /\ ActiveManifestSealed
    /\ MintsDistinct

LEMMA ConfigInitInv == ConfigInit => ConfigInv
<1> SUFFICES ASSUME ConfigInit PROVE ConfigInv
  OBVIOUS
<1> USE DEF ConfigInit
<1>1. ConfigTypeOK
  <2>1. config \in ConfigRecord
    BY KeyAssumption, AccessAssumption DEF ConfigRecord, AllProducts
  <2>2. <<>> \in Seq(StockSpec)
    OBVIOUS
  <2> QED BY <2>1, <2>2 DEF ConfigTypeOK, ManifestRecord
<1>2. AdmissionWithinLimit
  BY AccessAssumption DEF AdmissionWithinLimit
<1>3. ActiveManifestSealed
  BY DEF ActiveManifestSealed
<1>4. MintsDistinct
  BY DEF MintsDistinct
<1>5. SealedWasCreated
  BY DEF SealedWasCreated
<1> QED BY <1>1, <1>2, <1>3, <1>4, <1>5 DEF ConfigInv

\* A submission that passes validate_stocks extends a manifest to a list of
\* stocks in which every mint occurs once.
LEMMA ValidStocksExtend ==
  ASSUME NEW stocks \in StockLists, NEW existing \in Seq(StockSpec),
         ValidStocks(stocks, existing)
  PROVE  /\ existing \o stocks \in Seq(StockSpec)
         /\ existing \o stocks # <<>>
         /\ \A i, j \in 1..Len(existing \o stocks) :
               i # j => (existing \o stocks)[i].mint # (existing \o stocks)[j].mint
<1>1. stocks \in Seq(StockSpec)
  BY StockAssumption DEF StockSpec
<1>2. existing \o stocks \in Seq(StockSpec) /\ Len(existing \o stocks) = Len(existing) + Len(stocks)
  BY <1>1
<1>3. stocks # <<>> /\ Len(stocks) > 0
  BY <1>1 DEF ValidStocks
<1> QED BY <1>2, <1>3 DEF ValidStocks

-----------------------------------------------------------------------------
(* One step                                                                 *)

\* Every action of the administrator keeps ConfigInv.
LEMMA AdminStepInv ==
  ASSUME ConfigInv, AdminStep
  PROVE  ConfigInv'
<1> USE DEF ConfigInv, SealedWasCreated
<1>1. CASE \E paused \in BOOLEAN : SetPaused(paused)
  BY <1>1 DEF SetPaused, ConfigTypeOK, ConfigRecord, AdmissionWithinLimit,
              ActiveManifestSealed, MintsDistinct
<1>2. CASE \E products \in ProductSets, pilot \in PilotChoices, limit \in LimitChoices :
              ConfigureAccess(products, pilot, limit)
  <2>1. PICK products \in ProductSets, pilot \in PilotChoices, limit \in LimitChoices :
              ConfigureAccess(products, pilot, limit)
    BY <1>2
  <2>2. products \in SUBSET AllProducts /\ pilot \in Keys \cup {NoKey} /\ limit \in Nat
    BY KeyAssumption, AccessAssumption DEF AllProducts
  <2> QED BY <2>1, <2>2 DEF ConfigureAccess, ConfigTypeOK, ConfigRecord, AdmissionWithinLimit,
                            ActiveManifestSealed, MintsDistinct
<1>3. CASE \E pending \in AdminCandidates : ProposeAdmin(pending)
  BY <1>3, KeyAssumption DEF ProposeAdmin, ConfigTypeOK, ConfigRecord, AdmissionWithinLimit,
              ActiveManifestSealed, MintsDistinct
<1>4. CASE AcceptAdmin
  BY <1>4, KeyAssumption DEF AcceptAdmin, ConfigTypeOK, ConfigRecord, AdmissionWithinLimit,
              ActiveManifestSealed, MintsDistinct
<1>5. CASE \E m \in ManifestIds, stocks \in StockLists : CreateManifest(m, stocks)
  <2>1. PICK m \in ManifestIds, stocks \in StockLists : CreateManifest(m, stocks)
    BY <1>5
  <2>2. stocks \in Seq(StockSpec) /\ <<>> \o stocks = stocks
    BY StockAssumption DEF StockSpec
  <2>3. \A i, j \in 1..Len(stocks) : i # j => stocks[i].mint # stocks[j].mint
    BY <2>1, <2>2 DEF CreateManifest, ValidStocks
  <2>4. ConfigTypeOK'
    BY <2>1, <2>2 DEF CreateManifest, ConfigTypeOK, ManifestRecord
  <2>5. AdmissionWithinLimit'
    BY <2>1 DEF CreateManifest, AdmissionWithinLimit
  <2>6. ActiveManifestSealed'
    BY <2>1 DEF CreateManifest, ActiveManifestSealed, ConfigTypeOK, ConfigRecord, ManifestRecord
  <2>7. MintsDistinct'
    BY <2>1, <2>3 DEF CreateManifest, MintsDistinct, ConfigTypeOK
  <2>8. SealedWasCreated'
    BY <2>1 DEF CreateManifest, ConfigTypeOK, ManifestRecord
  <2> QED BY <2>4, <2>5, <2>6, <2>7, <2>8
<1>6. CASE \E m \in ManifestIds, stocks \in StockLists : AppendManifest(m, stocks)
  <2>1. PICK m \in ManifestIds, stocks \in StockLists : AppendManifest(m, stocks)
    BY <1>6
  <2> DEFINE all == manifests[m].stocks \o stocks
  <2>2. manifests[m].stocks \in Seq(StockSpec)
    BY DEF ConfigTypeOK, ManifestRecord
  <2>3. all \in Seq(StockSpec)
    BY <2>1, <2>2, ValidStocksExtend DEF AppendManifest
  <2>4. \A i, j \in 1..Len(all) : i # j => all[i].mint # all[j].mint
    BY <2>1, <2>2, ValidStocksExtend DEF AppendManifest
  <2>5. manifests' = [manifests EXCEPT ![m].stocks = all]
    BY <2>1 DEF AppendManifest
  <2> HIDE DEF all
  <2>6. ConfigTypeOK'
    BY <2>1, <2>3, <2>5 DEF AppendManifest, ConfigTypeOK, ManifestRecord
  <2>7. AdmissionWithinLimit'
    BY <2>1 DEF AppendManifest, AdmissionWithinLimit
  <2>8. ActiveManifestSealed'
    BY <2>1, <2>5 DEF AppendManifest, ActiveManifestSealed, ConfigTypeOK, ConfigRecord, ManifestRecord
  <2>9. MintsDistinct'
    BY <2>1, <2>4, <2>5 DEF MintsDistinct, ConfigTypeOK, ManifestRecord
  <2>10. SealedWasCreated'
    BY <2>1, <2>5 DEF AppendManifest, ConfigTypeOK, ManifestRecord
  <2> QED BY <2>6, <2>7, <2>8, <2>9, <2>10
<1>7. CASE \E m \in ManifestIds : ActivateManifest(m)
  <2>1. PICK m \in ManifestIds : ActivateManifest(m)
    BY <1>7
  <2>2. ConfigTypeOK'
    BY <2>1 DEF ActivateManifest, ConfigTypeOK, ConfigRecord, ManifestRecord
  <2>3. AdmissionWithinLimit'
    BY <2>1 DEF ActivateManifest, AdmissionWithinLimit, ConfigTypeOK, ConfigRecord
  <2>4. ActiveManifestSealed'
    BY <2>1, ManifestAssumption DEF ActivateManifest, ActiveManifestSealed, ConfigTypeOK,
          ConfigRecord, ManifestRecord
  <2>5. \A n \in ManifestIds : manifests'[n].stocks = manifests[n].stocks
    BY <2>1 DEF ActivateManifest, ConfigTypeOK, ManifestRecord
  <2>6. MintsDistinct'
    BY <2>5 DEF MintsDistinct
  <2>7. SealedWasCreated'
    BY <2>1 DEF ActivateManifest, ConfigTypeOK, ManifestRecord
  <2> QED BY <2>2, <2>3, <2>4, <2>6, <2>7
<1> QED BY <1>1, <1>2, <1>3, <1>4, <1>5, <1>6, <1>7 DEF AdminStep

\* So does the admission of a deposit or a purchase.
LEMMA AdmitInv ==
  ASSUME ConfigInv, NEW owner, NEW amount \in Nat, NEW products,
         Admit(owner, amount, products), UNCHANGED manifests
  PROVE  ConfigInv'
BY DEF ConfigInv, SealedWasCreated, Admit, ConfigTypeOK, ConfigRecord, AdmissionWithinLimit,
       ActiveManifestSealed, MintsDistinct

\* The configuration keeps its invariant when nothing writes it.
LEMMA ConfigFrame == ConfigInv /\ UNCHANGED configVars => ConfigInv'
BY DEF ConfigInv, SealedWasCreated, configVars, ConfigTypeOK, AdmissionWithinLimit,
       ActiveManifestSealed, MintsDistinct

\* An administrative step leaves every sealed manifest as it is.
LEMMA AdminStepFrozen ==
  ASSUME ConfigInv, AdminStep
  PROVE  \A m \in ManifestIds : manifests[m].sealed => manifests'[m] = manifests[m]
<1> SUFFICES ASSUME NEW n \in ManifestIds, manifests[n].sealed PROVE manifests'[n] = manifests[n]
  OBVIOUS
<1> USE DEF ConfigInv, ConfigTypeOK, ManifestRecord, SealedWasCreated
<1>1. ASSUME NEW m \in ManifestIds, NEW stocks, CreateManifest(m, stocks)
      PROVE  manifests'[n] = manifests[n]
  BY <1>1 DEF CreateManifest
<1>2. ASSUME NEW m \in ManifestIds, NEW stocks, AppendManifest(m, stocks)
      PROVE  manifests'[n] = manifests[n]
  BY <1>2 DEF AppendManifest
<1>3. ASSUME NEW m \in ManifestIds, ActivateManifest(m)
      PROVE  manifests'[n] = manifests[n]
  <2>1. CASE m # n
    BY <1>3, <2>1 DEF ActivateManifest
  <2>2. CASE m = n
    <3>1. manifests[n] = [manifests[n] EXCEPT !.sealed = TRUE]
      OBVIOUS
    <3> QED BY <1>3, <2>2, <3>1 DEF ActivateManifest
  <2> QED BY <2>1, <2>2
<1>4. UNCHANGED manifests => manifests'[n] = manifests[n]
  OBVIOUS
<1> QED BY <1>1, <1>2, <1>3, <1>4
        DEF AdminStep, SetPaused, ConfigureAccess, ProposeAdmin, AcceptAdmin

\* An administrative step moves no admitted amount and changes the terms of
\* access only while the program is paused and stays paused.
LEMMA AdminStepAccess ==
  ASSUME ConfigTypeOK, AdminStep
  PROVE  /\ config'.admitted_usdc = config.admitted_usdc
         /\ \/ /\ config'.enabled_products = config.enabled_products
               /\ config'.pilot_owner = config.pilot_owner
               /\ config'.admission_limit = config.admission_limit
            \/ config.paused /\ config'.paused
BY DEF ConfigTypeOK, ConfigRecord, AdminStep, SetPaused, ConfigureAccess, ProposeAdmin,
       AcceptAdmin, CreateManifest, AppendManifest, ActivateManifest
=============================================================================

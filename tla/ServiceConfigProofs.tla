------------------------- MODULE ServiceConfigProofs -------------------------
(***************************************************************************)
(* A request is admitted by one version of the configuration, for any      *)
(* files, codes and requests.                                              *)
(*                                                                         *)
(* The argument follows a version on its way: file, read, config, settings *)
(* each hold a version as a whole, or the Empty that a copy starts with.   *)
(***************************************************************************)
EXTENDS ServiceConfig, TLAPS

Versions == Contents \cup {Empty}

(* A copy holds a version, and so does a Watch that has read one. *)
WholeVersions ==
  /\ file \in Contents \cup {Bad}
  /\ config \in [Copies -> Versions]
  /\ read \in [Copies -> Versions \cup {Bad}]

(* A request holds what one version has of it. *)
OneVersion ==
  /\ asked \in [Requests -> SUBSET Codes]
  /\ settings \in [Requests -> {Get(content) : content \in Versions}]
  /\ request \in [Requests -> {"new", "entered", "admitted", "refused"}]
  /\ admitted = [r \in Requests |-> admitted[r]]

IInv == WholeVersions /\ OneVersion /\ AdmittedByOneVersion

-----------------------------------------------------------------------------
(* Nobody is admitted by the map that a copy starts with. *)
LEMMA EmptyAdmitsNone == Get(Empty) = NoKey /\ ~NoKey.there
BY DEF Get, Empty, Content, NoKey, Key

LEMMA InitIInv == Init => IInv
<1> SUFFICES ASSUME Init PROVE IInv
  OBVIOUS
<1>1. WholeVersions
  BY DEF Init, WholeVersions, Versions
<1>2. NoKey \in {Get(content) : content \in Versions}
  BY EmptyAdmitsNone DEF Versions
<1>3. OneVersion
  BY <1>2 DEF Init, OneVersion
<1>4. AdmittedByOneVersion
  BY DEF Init, AdmittedByOneVersion
<1> QED BY <1>1, <1>3, <1>4 DEF IInv

LEMMA WholeVersionsKept ==
  ASSUME WholeVersions, Next
  PROVE  WholeVersions'
<1>1. CASE Edit
  BY <1>1 DEF Edit, WholeVersions, watching
<1>2. ASSUME NEW k \in Copies, ReadFile(k)
      PROVE  WholeVersions'
  BY <1>2 DEF ReadFile, WholeVersions, Versions
<1>3. ASSUME NEW k \in Copies, SetFromBytes(k)
      PROVE  WholeVersions'
  <2>1. /\ read' = [read EXCEPT ![k] = Empty] /\ UNCHANGED file
        /\ config' = [config EXCEPT ![k] = IF read[k] = Bad THEN config[k] ELSE read[k]]
    BY <1>3 DEF SetFromBytes, Sleep, WholeVersions
  <2>2. read[k] # Bad => read[k] \in Versions
    BY DEF WholeVersions
  <2> QED BY <2>1, <2>2 DEF WholeVersions, Versions
<1>4. ASSUME NEW r \in Requests, GetAppConfig(r) \/ Admit(r) \/ Refuse(r)
      PROVE  WholeVersions'
  BY <1>4 DEF GetAppConfig, Admit, Refuse, WholeVersions, watching
<1> QED BY <1>1, <1>2, <1>3, <1>4 DEF Next

(* A request copies its settings once, and is admitted by what it copied. *)
LEMMA RequestsKept ==
  ASSUME IInv, Next
  PROVE  OneVersion' /\ AdmittedByOneVersion'
<1> USE DEF IInv
<1>1. CASE UNCHANGED serving
  BY <1>1 DEF serving, OneVersion, AdmittedByOneVersion
<1>2. ASSUME NEW r \in Requests, GetAppConfig(r)
      PROVE  OneVersion' /\ AdmittedByOneVersion'
  <2>1. Get(config["middleware"]) \in {Get(content) : content \in Versions}
    BY DEF WholeVersions, Copies
  <2>2. request'[r] = "entered" /\ \A q \in Requests \ {r} : request'[q] = request[q]
    BY <1>2 DEF GetAppConfig, OneVersion
  <2> QED BY <1>2, <2>1, <2>2 DEF GetAppConfig, OneVersion, AdmittedByOneVersion
<1>3. ASSUME NEW r \in Requests, Refuse(r)
      PROVE  OneVersion' /\ AdmittedByOneVersion'
  <2>1. request'[r] = "refused" /\ \A q \in Requests \ {r} : request'[q] = request[q]
    BY <1>3 DEF Refuse, OneVersion
  <2> QED BY <1>3, <2>1 DEF Refuse, OneVersion, AdmittedByOneVersion
<1>4. ASSUME NEW r \in Requests, Admit(r)
      PROVE  OneVersion' /\ AdmittedByOneVersion'
  <2>1. PICK content \in Versions : settings[r] = Get(content)
    BY DEF OneVersion
  <2>2. content \in Contents
    BY <1>4, <2>1, EmptyAdmitsNone DEF Admit, Versions
  <2>3. /\ admitted' = [admitted EXCEPT ![r] = Accepted(Get(content), asked[r])]
        /\ request' = [request EXCEPT ![r] = "admitted"] /\ UNCHANGED <<asked, settings>>
        /\ Get(content).there /\ asked[r] \subseteq Get(content).on
    BY <1>4, <2>1 DEF Admit
  <2>4. admitted'[r] = Accepted(Get(content), asked[r])
    BY <2>3 DEF OneVersion
  <2>5. \A q \in Requests \ {r} : admitted'[q] = admitted[q] /\ request'[q] = request[q]
    BY <2>3 DEF OneVersion
  <2>6. AdmittedByOneVersion'
    <3> SUFFICES ASSUME NEW q \in Requests, request'[q] = "admitted"
                 PROVE  \E c \in Contents :
                          /\ Get(c).there /\ asked[q] \subseteq Get(c).on
                          /\ admitted'[q] = Accepted(Get(c), asked[q])
      BY <2>3 DEF AdmittedByOneVersion
    <3>1. CASE q = r
      BY <2>2, <2>3, <2>4, <3>1
    <3>2. CASE q # r
      BY <2>5, <3>2 DEF AdmittedByOneVersion
    <3> QED BY <3>1, <3>2
  <2>7. OneVersion'
    BY <2>3 DEF OneVersion
  <2> QED BY <2>6, <2>7
<1> QED BY <1>1, <1>2, <1>3, <1>4 DEF Next, Edit, ReadFile, SetFromBytes, Sleep

(* The inductive invariant holds in every reachable state. *)
THEOREM Invariance == Spec => []IInv
<1>1. IInv /\ [Next]_vars => IInv'
  <2> SUFFICES ASSUME IInv, [Next]_vars PROVE IInv'
    OBVIOUS
  <2>1. CASE Next
    BY <2>1, WholeVersionsKept, RequestsKept DEF IInv
  <2>2. CASE UNCHANGED vars
    BY <2>2 DEF vars, watching, serving, IInv, WholeVersions, OneVersion, AdmittedByOneVersion
  <2> QED BY <2>1, <2>2
<1> QED BY <1>1, InitIInv, PTL DEF Spec

(* A request is admitted by one version of the file, whatever the operators  *)
(* write and whenever the file is reread.                                    *)
THEOREM OneVersionAdmits == Spec => []AdmittedByOneVersion
<1>1. IInv => AdmittedByOneVersion
  BY DEF IInv
<1> QED BY <1>1, Invariance, PTL
=============================================================================

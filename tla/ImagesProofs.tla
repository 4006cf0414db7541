---------------------------- MODULE ImagesProofs ----------------------------
(***************************************************************************)
(* Images for any jobs, payloads and references: what is created has its   *)
(* secrets and an image of the reference that it stands for, and the build *)
(* context is whole and there as long as the daemon reads it.              *)
(***************************************************************************)
EXTENDS Images, TLAPS, WellFoundedInduction

-----------------------------------------------------------------------------
(* The inductive invariant, by named parts. *)

SecretsOf(j, n) == \A s \in Service(payload[j], n).secrets : <<n, s>> \in comp[j].resolved

\* Each compiled service has its secrets, and the one at hand those that are not left.
CompInv(j) ==
    /\ comp[j].graph \subseteq ServiceNames(payload[j])
    /\ \A n \in comp[j].graph : SecretsOf(j, n)
    /\ comp[j].pc = "secrets" =>
          /\ comp[j].cur \in ServiceNames(payload[j])
          /\ \A s \in Service(payload[j], comp[j].cur).secrets \ comp[j].left :
                <<comp[j].cur, s>> \in comp[j].resolved
    /\ comp[j].pc = "compiled" => comp[j].graph = ServiceNames(payload[j])

\* A job that executes has a compiled and valid graph.
GraphInv(j) ==
    /\ job[j].pc # "none" => comp[j].pc = "compiled"
    /\ job[j].pc \notin {"none", "failed"} => Valid(payload[j], comp[j].graph)

\* It is at a service of its graph, which buildImage gets if and only if it is to be built.
AtInv(j) ==
    /\ job[j].pc \in {"pull", "download", "create"} \cup BuildPcs => job[j].cur \in comp[j].graph
    /\ job[j].pc = "pull" => ~Service(payload[j], job[j].cur).build
    /\ job[j].pc \in {"download"} \cup BuildPcs => Service(payload[j], job[j].cur).build

\* As long as an extraction is not given up, all of its files are whole.
ExtractInv(j) ==
    /\ job[j].total <= MaxExtractedBytes + 1
    /\ job[j].pc \in {"extract", "tar", "build", "stream"} =>
          job[j].whole /\ job[j].total <= MaxExtractedBytes

\* The directory is there from the download to the last deferred call, and its walk is
\* that of the service at hand, between TarDirectory and the close of the pipe.
TarInv(j) ==
    /\ tmp[j] = "there" <=> job[j].pc \in BuildPcs
    /\ \A n \in Names : tar[j][n] = "walking" =>
          job[j].cur = n /\ job[j].pc \in {"build", "stream", "close"}

\* Under a reference is what was pulled by it or built for it, by whichever job.
Under(r, i) ==
    \/ i = [pulled |-> r]
    \/ /\ i \in Builds
       /\ BuildTag[payload[i.by].slug, i.name, payload[i.by].ref] = r
       /\ Service(payload[i.by], i.name).build

ImagesInv == \A r \in References : images[r] # NoImage => Under(r, images[r])

\* A container e at d runs what is under its reference.
Own(d, e) ==
    LET p == payload[e.by]
        s == Service(p, d[2])
        r == IF s.build THEN BuildTag[p.slug, d[2], p.ref] ELSE s.image
    IN p.slug = d[1] /\ Under(r, e.image)

\* A container was created by a job that executes.
CtrInv ==
    \A c \in Slugs \X Names : ctr[c] # NoCtr =>
        LET j == ctr[c].by IN
        /\ comp[j].pc = "compiled"
        /\ Valid(payload[j], comp[j].graph)

JobsInv == \A j \in Jobs : /\ CompInv(j) /\ GraphInv(j) /\ AtInv(j)
                           /\ ExtractInv(j) /\ TarInv(j)

IInv == TypeOK /\ JobsInv /\ ImagesInv /\ CtrInv /\ RunsItsReference

-----------------------------------------------------------------------------
(* Payloads. *)

\* A set of natural numbers has a least element.
LEMMA LeastNat ==
    ASSUME NEW T, T \subseteq Nat, T # {}
    PROVE  \E x \in T : \A y \in T : x <= y
<1> DEFINE Less == {ss \in Nat \X Nat : ss[1] < ss[2]}
<1>1. OpToRel(<, Nat) = Less
  BY Zenon DEF OpToRel
<1>2. IsWellFoundedOn(Less, Nat)
  BY <1>1, NatLessThanWellFounded, Zenon
<1>3. PICK x \in T : \A y \in T : ~(<<y, x>> \in Less)
  BY <1>2, WFMin, Zenon
<1>4. ASSUME NEW y \in T
      PROVE  x <= y
  <2>1. y \in Nat /\ x \in Nat
    OBVIOUS
  <2>2. <<y, x>> \in Nat \X Nat
    BY <2>1
  <2>3. ~(<<y, x>>[1] < <<y, x>>[2])
    BY <1>3, <2>2, Zenon
  <2> QED BY <2>1, <2>3
<1> QED BY <1>4

\* A name of the payload has a service: the last that is called so.
LEMMA ServiceIsNamed ==
    ASSUME NEW p \in Payloads, NEW n \in ServiceNames(p)
    PROVE  Service(p, n) \in ServicePayloads
<1>1. p.services \in Seq(ServicePayloads)
  BY CompilerAssumption
<1> DEFINE Named == {i \in DOMAIN p.services : p.services[i].name = n}
           Last(i) == /\ p.services[i].name = n
                      /\ \A k \in DOMAIN p.services : p.services[k].name = n => k <= i
           T == {Len(p.services) - i : i \in Named}
<1>2. DOMAIN p.services = 1 .. Len(p.services) /\ Len(p.services) \in Nat
  BY <1>1
<1>3. T \subseteq Nat
  BY <1>2
<1>4. T # {}
  BY DEF ServiceNames
<1>5. PICK x \in T : \A y \in T : x <= y
  BY <1>3, <1>4, LeastNat
<1>6. PICK i \in Named : x = Len(p.services) - i
  BY <1>5
<1>7. Last(i)
  <2>1. ASSUME NEW k \in DOMAIN p.services, p.services[k].name = n
        PROVE  k <= i
    <3>1. Len(p.services) - k \in T
      BY <2>1
    <3>2. Len(p.services) - i <= Len(p.services) - k
      BY <3>1, <1>5, <1>6
    <3> QED BY <3>2, <1>2
  <2> QED BY <2>1
<1>8. \E k \in DOMAIN p.services : Last(k)
  BY <1>7
<1> DEFINE m == CHOOSE k \in DOMAIN p.services : Last(k)
<1>9. m \in DOMAIN p.services
  BY <1>8
<1>10. Service(p, n) = p.services[m]
  BY DEF Service
<1> HIDE DEF m
<1>11. p.services[m] \in ServicePayloads
  BY <1>1, <1>2, <1>9
<1> QED BY <1>10, <1>11

LEMMA NamesAreTyped ==
    ASSUME NEW p \in Payloads
    PROVE  ServiceNames(p) \subseteq Names
<1> SUFFICES ASSUME NEW i \in DOMAIN p.services
             PROVE  p.services[i].name \in Names
  BY DEF ServiceNames
<1>1. p.services \in Seq(ServicePayloads)
  BY CompilerAssumption
<1>2. p.services[i] \in ServicePayloads
  BY <1>1
<1> QED BY <1>2 DEF ServicePayloads

-----------------------------------------------------------------------------
(* Types. *)

LEMMA CompFields ==
    ASSUME TypeOK, NEW j \in Jobs
    PROVE  /\ comp[j] \in CompRecords
           /\ payload[j] \in Payloads
           /\ comp[j].graph \subseteq Names
           /\ comp[j].cur \in Names
           /\ comp[j].left \subseteq Secrets
           /\ comp[j].resolved \subseteq Names \X Secrets
BY DEF TypeOK, CompilerTypeOK, CompRecords

LEMMA JobFields ==
    ASSUME TypeOK, NEW j \in Jobs
    PROVE  /\ job[j] \in JobRecords
           /\ job[j].done \subseteq Names
           /\ job[j].cur \in Names
           /\ job[j].archive \in Seq(Nat)
           /\ job[j].archive \in Archives
           /\ job[j].entry \in Nat
           /\ job[j].total \in Nat
           /\ job[j].whole \in BOOLEAN
           /\ job[j].err \in BOOLEAN
BY ImagesAssumption DEF TypeOK, JobRecords

LEMMA SlugIsTyped ==
    ASSUME TypeOK, NEW j \in Jobs
    PROVE  payload[j].slug \in Slugs /\ payload[j].ref \in Refs
<1>1. payload[j] \in Payloads
  BY CompFields
<1> QED BY <1>1, CompilerAssumption

LEMMA IdleIsTyped == Idle \in JobRecords
<1>1. (CHOOSE n \in Names : TRUE) \in Names
  BY CompilerAssumption
<1>2. (CHOOSE a \in Archives : TRUE) \in Archives
  BY ImagesAssumption
<1> QED BY <1>1, <1>2 DEF Idle, JobRecords

LEMMA InitInvariant == Init => IInv
<1> SUFFICES ASSUME Init PROVE IInv
  OBVIOUS
<1>1. TypeOK
  <2>1. (CHOOSE n \in Names : TRUE) \in Names
    BY CompilerAssumption
  <2>2. CompilerTypeOK
    BY <2>1 DEF Init, CompilerInit, CompilerTypeOK, CompRecords
  <2>3. job \in [Jobs -> JobRecords]
    BY IdleIsTyped DEF Init
  <2> QED BY <2>2, <2>3 DEF Init, TypeOK
<1>2. JobsInv
  <2> SUFFICES ASSUME NEW j \in Jobs
               PROVE  CompInv(j) /\ GraphInv(j) /\ AtInv(j) /\ ExtractInv(j) /\ TarInv(j)
    BY DEF JobsInv
  <2>1. job[j].pc = "none" /\ job[j].total = 0 /\ tmp[j] = "none"
        /\ \A n \in Names : tar[j][n] = "none"
    BY DEF Init, Idle
  <2>2. comp[j].pc = "none" /\ comp[j].graph = {}
    BY DEF Init, CompilerInit
  <2>3. CompInv(j)
    BY <2>2 DEF CompInv
  <2>4. GraphInv(j) /\ AtInv(j) /\ TarInv(j)
    BY <2>1 DEF GraphInv, AtInv, TarInv, BuildPcs
  <2>5. ExtractInv(j)
    BY <2>1, ImagesAssumption DEF ExtractInv
  <2> QED BY <2>3, <2>4, <2>5
<1>3. ImagesInv /\ CtrInv /\ RunsItsReference
  BY DEF Init, ImagesInv, CtrInv, RunsItsReference
<1> QED BY <1>1, <1>2, <1>3 DEF IInv

-----------------------------------------------------------------------------
(* What the steps of a compilation, and of a job, leave alone. *)

LEMMA CompFrame ==
    ASSUME IInv, NEW j \in Jobs, NEW r \in CompRecords,
           comp[j].pc # "compiled",
           comp' = [comp EXCEPT ![j] = r],
           UNCHANGED <<payload, job, dockerVars, tmp, tar>>,
           CompInv(j)'
    PROVE  IInv'
<1> USE DEF dockerVars
<1>1. TypeOK'
  BY DEF IInv, TypeOK, CompilerTypeOK
<1>2. \A i \in Jobs \ {j} : comp'[i] = comp[i]
  BY DEF IInv, TypeOK, CompilerTypeOK
<1>3. job[j].pc = "none"
  BY DEF IInv, JobsInv, GraphInv
<1>4. JobsInv'
  <2> SUFFICES ASSUME NEW i \in Jobs
               PROVE  (CompInv(i) /\ GraphInv(i) /\ AtInv(i) /\ ExtractInv(i) /\ TarInv(i))'
    BY DEF JobsInv
  <2>1. CompInv(i) /\ GraphInv(i) /\ AtInv(i) /\ ExtractInv(i) /\ TarInv(i)
    BY DEF IInv, JobsInv
  <2>2. (ExtractInv(i) /\ TarInv(i))'
    BY <2>1 DEF ExtractInv, TarInv
  <2>3. CASE i = j
    BY <1>3, <2>2, <2>3 DEF GraphInv, AtInv, BuildPcs
  <2>4. CASE i # j
    <3>1. comp'[i] = comp[i]
      BY <1>2, <2>4
    <3>2. CompInv(i)'
      BY <2>1, <3>1 DEF CompInv, SecretsOf
    <3>3. (GraphInv(i) /\ AtInv(i))'
      BY <2>1, <3>1 DEF GraphInv, AtInv
    <3> QED BY <2>2, <3>2, <3>3
  <2> QED BY <2>3, <2>4
<1>5. CtrInv'
  <2> SUFFICES ASSUME NEW c \in Slugs \X Names, ctr[c] # NoCtr
               PROVE  /\ comp'[ctr[c].by].pc = "compiled"
                      /\ Valid(payload[ctr[c].by], comp'[ctr[c].by].graph)
    BY DEF CtrInv
  <2>1. ctr[c].by \in Jobs
    BY DEF IInv, TypeOK, Containers
  <2>2. /\ comp[ctr[c].by].pc = "compiled"
        /\ Valid(payload[ctr[c].by], comp[ctr[c].by].graph)
    BY DEF IInv, CtrInv
  <2>3. comp'[ctr[c].by] = comp[ctr[c].by]
    BY <1>2, <2>1, <2>2
  <2> QED BY <2>2, <2>3
<1>6. ImagesInv'
  BY DEF IInv, ImagesInv, Under
<1>7. RunsItsReference'
  BY DEF IInv, RunsItsReference
<1> QED BY <1>1, <1>4, <1>5, <1>6, <1>7 DEF IInv

LEMMA OwnIs ==
    RunsItsReference <=> \A d \in Slugs \X Names : ctr[d] # NoCtr => Own(d, ctr[d])
BY DEF RunsItsReference, Own, Under

LEMMA OwnStays ==
    ASSUME UNCHANGED compVars,
           \A d \in Slugs \X Names : ctr'[d] # NoCtr => Own(d, ctr'[d])
    PROVE  RunsItsReference'
BY DEF RunsItsReference, Own, Under, compVars

LEMMA DockerFrame ==
    ASSUME IInv, UNCHANGED <<compVars, dockerVars>>
    PROVE  /\ images' \in [References -> DockerImages \cup {NoImage}]
           /\ ctr' \in [Slugs \X Names -> Containers \cup {NoCtr}]
           /\ ImagesInv' /\ CtrInv' /\ RunsItsReference'
<1> USE DEF dockerVars, compVars, IInv
<1>1. /\ images' \in [References -> DockerImages \cup {NoImage}]
      /\ ctr' \in [Slugs \X Names -> Containers \cup {NoCtr}]
  BY DEF TypeOK
<1>2. ImagesInv'
  BY DEF ImagesInv, Under
<1>3. CtrInv'
  BY DEF CtrInv
<1>4. RunsItsReference'
  BY DEF RunsItsReference
<1> QED BY <1>1, <1>2, <1>3, <1>4

TarStates == {"none", "walking", "closed"}
TmpStates == {"none", "there", "left"}

LEMMA JobFrame ==
    ASSUME IInv, NEW j \in Jobs, NEW r \in JobRecords,
           job' = [job EXCEPT ![j] = r],
           UNCHANGED compVars,
           tmp' \in [Jobs -> TmpStates],
           tar' \in [Jobs -> [Names -> TarStates]],
           \A i \in Jobs \ {j} : tmp'[i] = tmp[i] /\ tar'[i] = tar[i],
           (GraphInv(j) /\ AtInv(j) /\ ExtractInv(j) /\ TarInv(j))',
           images' \in [References -> DockerImages \cup {NoImage}],
           ctr' \in [Slugs \X Names -> Containers \cup {NoCtr}],
           ImagesInv' /\ CtrInv' /\ RunsItsReference'
    PROVE  IInv'
<1> USE DEF compVars
<1>1. TypeOK'
  <2>1. job' \in [Jobs -> JobRecords]
    BY DEF IInv, TypeOK
  <2>2. CompilerTypeOK'
    BY DEF IInv, TypeOK, CompilerTypeOK
  <2> QED BY <2>1, <2>2 DEF TypeOK, TarStates, TmpStates
<1>2. JobsInv'
  <2> SUFFICES ASSUME NEW i \in Jobs
               PROVE  (CompInv(i) /\ GraphInv(i) /\ AtInv(i) /\ ExtractInv(i) /\ TarInv(i))'
    BY DEF JobsInv
  <2>1. CompInv(i) /\ GraphInv(i) /\ AtInv(i) /\ ExtractInv(i) /\ TarInv(i)
    BY DEF IInv, JobsInv
  <2>2. CompInv(i)'
    BY <2>1 DEF CompInv, SecretsOf
  <2>3. CASE i = j
    BY <2>2, <2>3
  <2>4. CASE i # j
    <3>1. job'[i] = job[i] /\ tmp'[i] = tmp[i] /\ tar'[i] = tar[i]
      BY <2>4 DEF IInv, TypeOK
    <3>2. (GraphInv(i) /\ AtInv(i))'
      BY <2>1, <3>1 DEF GraphInv, AtInv
    <3>3. (ExtractInv(i) /\ TarInv(i))'
      BY <2>1, <3>1 DEF ExtractInv, TarInv
    <3> QED BY <2>2, <3>2, <3>3
  <2> QED BY <2>3, <2>4
<1> QED BY <1>1, <1>2 DEF IInv

\* A step that changes only the job's record.
LEMMA LocalFrame ==
    ASSUME IInv, NEW j \in Jobs, NEW r \in JobRecords,
           job' = [job EXCEPT ![j] = r],
           UNCHANGED <<compVars, dockerVars, tmp, tar>>,
           (GraphInv(j) /\ AtInv(j) /\ ExtractInv(j) /\ TarInv(j))'
    PROVE  IInv'
<1>1. tmp' \in [Jobs -> TmpStates] /\ tar' \in [Jobs -> [Names -> TarStates]]
  BY DEF IInv, TypeOK, TarStates, TmpStates
<1>2. \A i \in Jobs \ {j} : tmp'[i] = tmp[i] /\ tar'[i] = tar[i]
  OBVIOUS
<1> QED BY <1>1, <1>2, DockerFrame, JobFrame

-----------------------------------------------------------------------------
(* The steps of a compilation. *)

\* A step that only moves on, but not to a compiled graph.
LEMMA CompMoves ==
    ASSUME IInv, NEW j \in Jobs, NEW pc \in {"services", "failed"},
           comp[j].pc # "compiled",
           comp' = [comp EXCEPT ![j] = [comp[j] EXCEPT !.pc = pc]],
           UNCHANGED <<payload, job, dockerVars, tmp, tar>>
    PROVE  IInv'
<1> DEFINE r == [comp[j] EXCEPT !.pc = pc]
<1>1. TypeOK
  BY DEF IInv
<1>2. comp[j] \in CompRecords
  BY <1>1, CompFields
<1>3. r \in CompRecords
  BY <1>2 DEF CompRecords
<1>4. r.pc = pc /\ r.graph = comp[j].graph /\ r.resolved = comp[j].resolved
  BY <1>2 DEF CompRecords
<1>5. comp'[j] = r
  BY <1>1 DEF TypeOK, CompilerTypeOK
<1>6. CompInv(j)
  BY DEF IInv, JobsInv
<1> HIDE DEF r
<1>7. CompInv(j)'
  BY <1>4, <1>5, <1>6 DEF CompInv, SecretsOf
<1> QED BY <1>3, <1>7, CompFrame DEF r

LEMMA FailKeeps ==
    ASSUME IInv, NEW j \in Jobs, comp[j].pc # "compiled", Fail(j),
           UNCHANGED <<payload, job, dockerVars, tmp, tar>>
    PROVE  IInv'
<1>1. comp' = [comp EXCEPT ![j] = [comp[j] EXCEPT !.pc = "failed"]]
  BY DEF Fail
<1> QED BY <1>1, CompMoves

LEMMA ConvertKeeps ==
    ASSUME IInv, NEW j \in Jobs, Convert(j), UNCHANGED <<job, dockerVars, tmp, tar>>
    PROVE  IInv'
<1>1. CASE payload[j].id
  <2>1. comp' = [comp EXCEPT ![j] = [comp[j] EXCEPT !.pc = "services"]]
    BY <1>1 DEF Convert
  <2> QED BY <2>1, CompMoves DEF Convert
<1>2. CASE ~payload[j].id
  BY <1>2, FailKeeps DEF Convert
<1> QED BY <1>1, <1>2

LEMMA ResolveFailsKeeps ==
    ASSUME IInv, NEW j \in Jobs, ResolveFails(j), UNCHANGED <<job, dockerVars, tmp, tar>>
    PROVE  IInv'
BY FailKeeps DEF ResolveFails

LEMMA CompileNextKeeps ==
    ASSUME IInv, NEW j \in Jobs, CompileNext(j), UNCHANGED <<job, dockerVars, tmp, tar>>
    PROVE  IInv'
<1>1. PICK n \in ServiceNames(payload[j]) \ comp[j].graph :
          comp' = [comp EXCEPT ![j] = [@ EXCEPT !.pc = "secrets", !.cur = n,
                                                !.left = Service(payload[j], n).secrets]]
  BY DEF CompileNext
<1> DEFINE r == [comp[j] EXCEPT !.pc = "secrets", !.cur = n,
                                !.left = Service(payload[j], n).secrets]
<1>2. TypeOK /\ comp[j] \in CompRecords /\ payload[j] \in Payloads
  BY CompFields DEF IInv
<1>3. Service(payload[j], n) \in ServicePayloads
  BY <1>2, ServiceIsNamed
<1>4. Service(payload[j], n).secrets \subseteq Secrets
  BY <1>3 DEF ServicePayloads
<1>5. n \in Names
  BY <1>2, NamesAreTyped
<1>6. r \in CompRecords
  BY <1>2, <1>4, <1>5 DEF CompRecords
<1>7. /\ r.pc = "secrets" /\ r.cur = n /\ r.left = Service(payload[j], n).secrets
      /\ r.graph = comp[j].graph /\ r.resolved = comp[j].resolved
  BY <1>2 DEF CompRecords
<1>8. comp' = [comp EXCEPT ![j] = r] /\ comp'[j] = r
  BY <1>1, <1>2 DEF TypeOK, CompilerTypeOK
<1>9. CompInv(j)
  BY DEF IInv, JobsInv
<1>10. comp[j].pc # "compiled" /\ UNCHANGED payload
  BY DEF CompileNext
<1> HIDE DEF r
<1>11. CompInv(j)'
  BY <1>7, <1>8, <1>9, <1>10 DEF CompInv, SecretsOf
<1> QED BY <1>6, <1>8, <1>10, <1>11, CompFrame

LEMMA ResolveKeeps ==
    ASSUME IInv, NEW j \in Jobs, Resolve(j), UNCHANGED <<job, dockerVars, tmp, tar>>
    PROVE  IInv'
<1>1. PICK s \in comp[j].left :
          comp' = [comp EXCEPT ![j] = [@ EXCEPT !.left = comp[j].left \ {s},
                                  !.resolved = comp[j].resolved \cup {<<comp[j].cur, s>>}]]
  BY DEF Resolve
<1> DEFINE r == [comp[j] EXCEPT !.left = comp[j].left \ {s},
                                !.resolved = comp[j].resolved \cup {<<comp[j].cur, s>>}]
<1>2. /\ TypeOK /\ comp[j] \in CompRecords /\ comp[j].cur \in Names
      /\ comp[j].left \subseteq Secrets /\ comp[j].resolved \subseteq Names \X Secrets
  BY CompFields DEF IInv
<1>3. r \in CompRecords
  <2>1. comp[j].left \ {s} \in SUBSET Secrets
    BY <1>2
  <2>2. comp[j].resolved \cup {<<comp[j].cur, s>>} \in SUBSET (Names \X Secrets)
    BY <1>2
  <2> QED BY <1>2, <2>1, <2>2 DEF CompRecords
<1>4. /\ r.pc = comp[j].pc /\ r.cur = comp[j].cur /\ r.graph = comp[j].graph
      /\ r.left = comp[j].left \ {s}
      /\ r.resolved = comp[j].resolved \cup {<<comp[j].cur, s>>}
  BY <1>2 DEF CompRecords
<1>5. comp' = [comp EXCEPT ![j] = r] /\ comp'[j] = r
  BY <1>1, <1>2 DEF TypeOK, CompilerTypeOK
<1>6. CompInv(j)
  BY DEF IInv, JobsInv
<1>7. comp[j].pc = "secrets" /\ UNCHANGED payload
  BY DEF Resolve
<1> HIDE DEF r
<1>8. CompInv(j)'
  BY <1>4, <1>5, <1>6, <1>7 DEF CompInv, SecretsOf
<1> QED BY <1>3, <1>5, <1>7, <1>8, CompFrame

LEMMA CompileServiceKeeps ==
    ASSUME IInv, NEW j \in Jobs, CompileService(j), UNCHANGED <<job, dockerVars, tmp, tar>>
    PROVE  IInv'
<1> DEFINE r == [comp[j] EXCEPT !.pc = "services", !.graph = comp[j].graph \cup {comp[j].cur}]
<1>1. TypeOK /\ comp[j] \in CompRecords /\ comp[j].cur \in Names /\ comp[j].graph \subseteq Names
  BY CompFields DEF IInv
<1>2. r \in CompRecords
  BY <1>1 DEF CompRecords
<1>3. /\ r.pc = "services" /\ r.graph = comp[j].graph \cup {comp[j].cur}
      /\ r.resolved = comp[j].resolved
  BY <1>1 DEF CompRecords
<1>4. comp' = [comp EXCEPT ![j] = r] /\ comp'[j] = r
  BY <1>1 DEF TypeOK, CompilerTypeOK, CompileService
<1>5. CompInv(j)
  BY DEF IInv, JobsInv
<1>6. comp[j].pc = "secrets" /\ comp[j].left = {} /\ UNCHANGED payload
  BY DEF CompileService
<1> HIDE DEF r
<1>7. CompInv(j)'
  BY <1>3, <1>4, <1>5, <1>6 DEF CompInv, SecretsOf
<1> QED BY <1>2, <1>4, <1>6, <1>7, CompFrame

LEMMA CompiledKeeps ==
    ASSUME IInv, NEW j \in Jobs, Compiled(j), UNCHANGED <<job, dockerVars, tmp, tar>>
    PROVE  IInv'
<1> DEFINE r == [comp[j] EXCEPT !.pc = "compiled"]
<1>1. TypeOK /\ comp[j] \in CompRecords
  BY CompFields DEF IInv
<1>2. r \in CompRecords
  BY <1>1 DEF CompRecords
<1>3. r.pc = "compiled" /\ r.graph = comp[j].graph /\ r.resolved = comp[j].resolved
  BY <1>1 DEF CompRecords
<1>4. comp' = [comp EXCEPT ![j] = r] /\ comp'[j] = r
  BY <1>1 DEF TypeOK, CompilerTypeOK, Compiled
<1>5. CompInv(j)
  BY DEF IInv, JobsInv
<1>6. /\ comp[j].pc = "services" /\ UNCHANGED payload
      /\ ServiceNames(payload[j]) = comp[j].graph
  BY DEF Compiled
<1> HIDE DEF r
<1>7. CompInv(j)'
  BY <1>3, <1>4, <1>5, <1>6 DEF CompInv, SecretsOf
<1> QED BY <1>2, <1>4, <1>6, <1>7, CompFrame

-----------------------------------------------------------------------------
(* The steps of a job that change nothing but its record. *)

\* What the invariant says of a job whose record is r, whose directory is `there', and whose
\* walks are w.
Fits(j, r, there, w) ==
    /\ r.pc # "none" => comp[j].pc = "compiled"
    /\ r.pc \notin {"none", "failed"} => Valid(payload[j], comp[j].graph)
    /\ r.pc \in {"pull", "download", "create"} \cup BuildPcs => r.cur \in comp[j].graph
    /\ r.pc = "pull" => ~Service(payload[j], r.cur).build
    /\ r.pc \in {"download"} \cup BuildPcs => Service(payload[j], r.cur).build
    /\ r.total <= MaxExtractedBytes + 1
    /\ r.pc \in {"extract", "tar", "build", "stream"} =>
          r.whole /\ r.total <= MaxExtractedBytes
    /\ there = "there" <=> r.pc \in BuildPcs
    /\ \A n \in Names : w[n] = "walking" =>
          r.cur = n /\ r.pc \in {"build", "stream", "close"}

LEMMA FitsNow ==
    ASSUME IInv, NEW j \in Jobs
    PROVE  Fits(j, job[j], tmp[j], tar[j])
<1>1. GraphInv(j) /\ AtInv(j) /\ ExtractInv(j) /\ TarInv(j)
  BY DEF IInv, JobsInv
<1> QED BY <1>1 DEF Fits, GraphInv, AtInv, ExtractInv, TarInv

LEMMA FitsThen ==
    ASSUME IInv, NEW j \in Jobs, NEW r,
           job' = [job EXCEPT ![j] = r], UNCHANGED compVars,
           Fits(j, r, tmp'[j], tar'[j])
    PROVE  (GraphInv(j) /\ AtInv(j) /\ ExtractInv(j) /\ TarInv(j))'
<1>1. job'[j] = r
  BY DEF IInv, TypeOK
<1>2. (GraphInv(j) /\ AtInv(j))'
  BY <1>1 DEF Fits, GraphInv, AtInv, compVars
<1>3. (ExtractInv(j) /\ TarInv(j))'
  BY <1>1 DEF Fits, ExtractInv, TarInv
<1> QED BY <1>2, <1>3

LEMMA LocalStep ==
    ASSUME IInv, NEW j \in Jobs, NEW r \in JobRecords,
           job' = [job EXCEPT ![j] = r],
           UNCHANGED <<compVars, dockerVars, tmp, tar>>,
           Fits(j, r, tmp[j], tar[j])
    PROVE  IInv'
<1>1. tmp'[j] = tmp[j] /\ tar'[j] = tar[j]
  OBVIOUS
<1>2. Fits(j, r, tmp'[j], tar'[j])
  BY <1>1
<1>3. (GraphInv(j) /\ AtInv(j) /\ ExtractInv(j) /\ TarInv(j))'
  BY <1>2, FitsThen
<1> QED BY <1>3, LocalFrame

JobPcs == {"none", "next", "pull", "download", "create", "ok", "failed"} \cup BuildPcs

LEMMA GotoIs ==
    ASSUME TypeOK, NEW j \in Jobs, NEW pc \in JobPcs, Goto(j, pc)
    PROVE  LET r == [job[j] EXCEPT !.pc = pc] IN
           /\ r \in JobRecords
           /\ job' = [job EXCEPT ![j] = r]
           /\ r.pc = pc /\ r.cur = job[j].cur /\ r.total = job[j].total
           /\ r.whole = job[j].whole
<1>1. job[j] \in JobRecords
  BY JobFields
<1> QED BY <1>1 DEF JobRecords, JobPcs, Goto

LEMMA Moves ==
    ASSUME IInv, NEW j \in Jobs, NEW pc \in JobPcs, Goto(j, pc),
           UNCHANGED <<compVars, dockerVars, tmp, tar>>,
           Fits(j, [job[j] EXCEPT !.pc = pc], tmp[j], tar[j])
    PROVE  IInv'
<1>1. TypeOK
  BY DEF IInv
<1> QED BY <1>1, GotoIs, LocalStep

LEMMA ExecuteKeeps ==
    ASSUME IInv, NEW j \in Jobs, Execute(j)
    PROVE  IInv'
<1>1. TypeOK /\ Fits(j, job[j], tmp[j], tar[j])
  BY FitsNow DEF IInv
<1>2. job[j].pc = "none" /\ comp[j].pc = "compiled"
  BY DEF Execute
<1>3. CASE Valid(payload[j], comp[j].graph) /\ Goto(j, "next")
  <2>1. Fits(j, [job[j] EXCEPT !.pc = "next"], tmp[j], tar[j])
    BY <1>1, <1>2, <1>3, GotoIs DEF Fits, JobPcs, BuildPcs
  <2> QED BY <1>3, <2>1, Moves DEF Execute, JobPcs
<1>4. CASE Goto(j, "failed")
  <2>1. Fits(j, [job[j] EXCEPT !.pc = "failed"], tmp[j], tar[j])
    BY <1>1, <1>2, <1>4, GotoIs DEF Fits, JobPcs, BuildPcs
  <2> QED BY <1>4, <2>1, Moves DEF Execute, JobPcs
<1> QED BY <1>3, <1>4 DEF Execute

LEMMA CompletedKeeps ==
    ASSUME IInv, NEW j \in Jobs, Completed(j)
    PROVE  IInv'
<1>1. TypeOK /\ Fits(j, job[j], tmp[j], tar[j])
  BY FitsNow DEF IInv
<1>2. job[j].pc = "next" /\ Goto(j, "ok")
  BY DEF Completed
<1>3. Fits(j, [job[j] EXCEPT !.pc = "ok"], tmp[j], tar[j])
  BY <1>1, <1>2, GotoIs DEF Fits, JobPcs, BuildPcs
<1> QED BY <1>2, <1>3, Moves DEF Completed, JobPcs

LEMMA DownloadFailsKeeps ==
    ASSUME IInv, NEW j \in Jobs, DownloadFails(j)
    PROVE  IInv'
<1>1. TypeOK /\ Fits(j, job[j], tmp[j], tar[j])
  BY FitsNow DEF IInv
<1>2. job[j].pc = "download" /\ Goto(j, "failed")
  BY DEF DownloadFails
<1>3. Fits(j, [job[j] EXCEPT !.pc = "failed"], tmp[j], tar[j])
  BY <1>1, <1>2, GotoIs DEF Fits, JobPcs, BuildPcs
<1> QED BY <1>2, <1>3, Moves DEF DownloadFails, JobPcs

LEMMA ExtractedKeeps ==
    ASSUME IInv, NEW j \in Jobs, Extracted(j)
    PROVE  IInv'
<1>1. TypeOK /\ Fits(j, job[j], tmp[j], tar[j])
  BY FitsNow DEF IInv
<1>2. job[j].pc = "extract" /\ Goto(j, "tar")
  BY DEF Extracted
<1>3. Fits(j, [job[j] EXCEPT !.pc = "tar"], tmp[j], tar[j])
  BY <1>1, <1>2, GotoIs DEF Fits, JobPcs, BuildPcs
<1> QED BY <1>2, <1>3, Moves DEF Extracted, JobPcs, BuildPcs

LEMMA ImageBuildKeeps ==
    ASSUME IInv, NEW j \in Jobs, ImageBuild(j)
    PROVE  IInv'
<1>1. TypeOK /\ Fits(j, job[j], tmp[j], tar[j])
  BY FitsNow DEF IInv
<1>2. job[j].pc = "build" /\ Goto(j, "stream")
  BY DEF ImageBuild
<1>3. Fits(j, [job[j] EXCEPT !.pc = "stream"], tmp[j], tar[j])
  BY <1>1, <1>2, GotoIs DEF Fits, JobPcs, BuildPcs
<1> QED BY <1>2, <1>3, Moves DEF ImageBuild, JobPcs, BuildPcs

LEMMA NextServiceKeeps ==
    ASSUME IInv, NEW j \in Jobs, NextService(j)
    PROVE  IInv'
<1>1. PICK n \in comp[j].graph \ job[j].done :
          job' = [job EXCEPT ![j] = [@ EXCEPT !.cur = n,
                    !.pc = IF Service(payload[j], n).build THEN "download" ELSE "pull"]]
  BY DEF NextService
<1> DEFINE pc == IF Service(payload[j], n).build THEN "download" ELSE "pull"
           r == [job[j] EXCEPT !.cur = n, !.pc = pc]
<1>2. /\ TypeOK /\ Fits(j, job[j], tmp[j], tar[j])
      /\ job[j] \in JobRecords /\ comp[j].graph \subseteq Names
  BY FitsNow, JobFields, CompFields DEF IInv
<1>3. r \in JobRecords
  BY <1>2 DEF JobRecords
<1>4. r.pc = pc /\ r.cur = n /\ r.total = job[j].total /\ r.whole = job[j].whole
  BY <1>2 DEF JobRecords
<1>5. job' = [job EXCEPT ![j] = r]
  BY <1>1, <1>2 DEF TypeOK
<1>6. job[j].pc = "next" /\ UNCHANGED <<compVars, dockerVars, tmp, tar>>
  BY DEF NextService
<1> HIDE DEF r
<1>7. Fits(j, r, tmp[j], tar[j])
  BY <1>2, <1>4, <1>6 DEF Fits, BuildPcs
<1> QED BY <1>3, <1>5, <1>6, <1>7, LocalStep

\* A regular file that ends before the limit was read to its end.
LEMMA ExtractKeeps ==
    ASSUME IInv, NEW j \in Jobs, Extract(j)
    PROVE  IInv'
<1> DEFINE size    == job[j].archive[job[j].entry + 1]
           written == Smaller(size, Limit(j))
           total   == job[j].total + written
           over    == total > MaxExtractedBytes
           whole   == job[j].whole /\ written = size
           pc      == IF over THEN "close" ELSE "extract"
           r == [job[j] EXCEPT !.entry = job[j].entry + 1, !.total = total,
                               !.whole = whole, !.err = over, !.pc = pc]
<1>1. /\ TypeOK /\ Fits(j, job[j], tmp[j], tar[j]) /\ job[j] \in JobRecords
      /\ job[j].archive \in Seq(Nat) /\ job[j].entry \in Nat /\ job[j].total \in Nat
      /\ job[j].whole \in BOOLEAN
  BY FitsNow, JobFields DEF IInv
<1>2. /\ job[j].pc = "extract" /\ job[j].entry < Len(job[j].archive)
      /\ UNCHANGED <<compVars, dockerVars, tmp, tar>>
      /\ job' = [job EXCEPT ![j] = r]
  BY <1>1 DEF Extract, TypeOK
<1>3. job[j].whole /\ job[j].total <= MaxExtractedBytes
  BY <1>1, <1>2 DEF Fits
<1>4. size \in Nat
  <2>1. job[j].entry + 1 \in 1 .. Len(job[j].archive)
    BY <1>1, <1>2
  <2>2. \A k \in 1 .. Len(job[j].archive) : job[j].archive[k] \in Nat
    BY <1>1
  <2> QED BY <2>1, <2>2
<1> HIDE DEF size
<1>5. /\ total \in Nat /\ total <= MaxExtractedBytes + 1
      /\ ~over => written = size
  <2>1. Limit(j) \in Nat /\ job[j].total + Limit(j) = MaxExtractedBytes + 1
    BY <1>1, <1>3, ImagesAssumption DEF Limit
  <2>2. written \in Nat /\ written <= Limit(j) /\ (written # size => written = Limit(j))
    BY <2>1, <1>4 DEF Smaller
  <2> HIDE DEF written
  <2> QED BY <1>1, <2>1, <2>2, ImagesAssumption
<1>6. over \in BOOLEAN /\ whole \in BOOLEAN /\ (~over => whole)
  BY <1>3, <1>5
<1>7. pc \in {"close", "extract"} /\ (pc = "extract" => ~over)
  OBVIOUS
<1> HIDE DEF written, total, over, whole, pc
<1>8. r \in JobRecords
  <2>1. job[j].entry + 1 \in Nat
    BY <1>1
  <2> QED BY <2>1, <1>1, <1>5, <1>6, <1>7 DEF JobRecords, BuildPcs
<1>9. r.pc = pc /\ r.cur = job[j].cur /\ r.total = total /\ r.whole = whole
  BY <1>1 DEF JobRecords
<1> HIDE DEF r
<1>10. ~over => total <= MaxExtractedBytes
  BY <1>5, ImagesAssumption DEF over
<1>11. Fits(j, r, tmp[j], tar[j])
  BY <1>1, <1>2, <1>5, <1>6, <1>7, <1>9, <1>10 DEF Fits, BuildPcs
<1> QED BY <1>2, <1>8, <1>11, LocalStep

LEMMA AbandonKeeps ==
    ASSUME IInv, NEW j \in Jobs, job[j].pc = "extract", Abandon(j),
           UNCHANGED <<compVars, dockerVars, tmp, tar>>
    PROVE  IInv'
<1> DEFINE r == [job[j] EXCEPT !.pc = "close", !.err = TRUE]
<1>1. TypeOK /\ Fits(j, job[j], tmp[j], tar[j]) /\ job[j] \in JobRecords
  BY FitsNow, JobFields DEF IInv
<1>2. r \in JobRecords
  BY <1>1 DEF JobRecords, BuildPcs
<1>3. /\ r.pc = "close" /\ r.cur = job[j].cur /\ r.total = job[j].total
      /\ r.whole = job[j].whole
  BY <1>1 DEF JobRecords
<1>4. job' = [job EXCEPT ![j] = r]
  BY <1>1 DEF Abandon, TypeOK
<1> HIDE DEF r
<1>5. Fits(j, r, tmp[j], tar[j])
  BY <1>1, <1>3 DEF Fits, BuildPcs
<1> QED BY <1>2, <1>4, <1>5, LocalStep

-----------------------------------------------------------------------------
(* The steps that change the directory or its walk. *)

LEMMA WorkStep ==
    ASSUME IInv, NEW j \in Jobs, NEW r \in JobRecords,
           job' = [job EXCEPT ![j] = r],
           UNCHANGED <<compVars, dockerVars>>,
           NEW there \in TmpStates, NEW w \in [Names -> TarStates],
           tmp' = [tmp EXCEPT ![j] = there],
           tar' = [tar EXCEPT ![j] = w],
           Fits(j, r, there, w)
    PROVE  IInv'
<1>1. tmp \in [Jobs -> TmpStates] /\ tar \in [Jobs -> [Names -> TarStates]]
  BY DEF IInv, TypeOK, TarStates, TmpStates
<1>2. /\ tmp' \in [Jobs -> TmpStates] /\ tar' \in [Jobs -> [Names -> TarStates]]
      /\ tmp'[j] = there /\ tar'[j] = w
      /\ \A i \in Jobs \ {j} : tmp'[i] = tmp[i] /\ tar'[i] = tar[i]
  BY <1>1
<1>3. UNCHANGED compVars /\ UNCHANGED dockerVars
  OBVIOUS
<1>4. Fits(j, r, tmp'[j], tar'[j])
  BY <1>2
<1>5. (GraphInv(j) /\ AtInv(j) /\ ExtractInv(j) /\ TarInv(j))'
  BY <1>3, <1>4, FitsThen
<1> QED BY <1>2, <1>3, <1>5, DockerFrame, JobFrame

LEMMA WorkFields ==
    ASSUME TypeOK, NEW j \in Jobs
    PROVE  /\ tmp[j] \in TmpStates
           /\ tar[j] \in [Names -> TarStates]
           /\ tmp = [tmp EXCEPT ![j] = tmp[j]]
           /\ tar = [tar EXCEPT ![j] = tar[j]]
BY DEF TypeOK, TarStates, TmpStates

LEMMA DownloadKeeps ==
    ASSUME IInv, NEW j \in Jobs, Download(j)
    PROVE  IInv'
<1>1. PICK a \in Archives :
          job' = [job EXCEPT ![j] = [@ EXCEPT !.pc = "extract", !.archive = a, !.entry = 0,
                                              !.total = 0, !.whole = TRUE]]
  BY DEF Download
<1> DEFINE r == [job[j] EXCEPT !.pc = "extract", !.archive = a, !.entry = 0, !.total = 0,
                               !.whole = TRUE]
<1>2. TypeOK /\ Fits(j, job[j], tmp[j], tar[j]) /\ job[j] \in JobRecords
  BY FitsNow, JobFields DEF IInv
<1>3. r \in JobRecords
  BY <1>2 DEF JobRecords, BuildPcs
<1>4. r.pc = "extract" /\ r.cur = job[j].cur /\ r.total = 0 /\ r.whole = TRUE
  BY <1>2 DEF JobRecords
<1>5. /\ job[j].pc = "download" /\ UNCHANGED <<compVars, dockerVars, tar>>
      /\ tmp' = [tmp EXCEPT ![j] = "there"]
  BY DEF Download
<1>6. job' = [job EXCEPT ![j] = r]
  BY <1>1, <1>2 DEF TypeOK
<1> HIDE DEF r
<1>7. Fits(j, r, "there", tar[j])
  BY <1>2, <1>4, <1>5, ImagesAssumption DEF Fits, BuildPcs
<1>8. tar[j] \in [Names -> TarStates] /\ tar' = [tar EXCEPT ![j] = tar[j]]
  BY <1>2, <1>5, WorkFields
<1>9. "there" \in TmpStates
  BY DEF TmpStates
<1> QED BY <1>3, <1>5, <1>6, <1>7, <1>8, <1>9, WorkStep

LEMMA TarDirectoryKeeps ==
    ASSUME IInv, NEW j \in Jobs, TarDirectory(j)
    PROVE  IInv'
<1> DEFINE r == [job[j] EXCEPT !.pc = "build"]
           w == [tar[j] EXCEPT ![job[j].cur] = "walking"]
<1>1. /\ TypeOK /\ Fits(j, job[j], tmp[j], tar[j]) /\ job[j] \in JobRecords
      /\ tar[j] \in [Names -> TarStates] /\ tmp[j] \in TmpStates
      /\ tmp = [tmp EXCEPT ![j] = tmp[j]]
  BY FitsNow, JobFields, WorkFields DEF IInv
<1>2. job[j].pc = "tar" /\ Goto(j, "build") /\ UNCHANGED <<compVars, dockerVars, tmp>>
  BY DEF TarDirectory
<1>3. /\ r \in JobRecords /\ job' = [job EXCEPT ![j] = r]
      /\ r.pc = "build" /\ r.cur = job[j].cur /\ r.total = job[j].total
      /\ r.whole = job[j].whole
  BY <1>1, <1>2, GotoIs DEF JobPcs, BuildPcs
<1>4. tar' = [tar EXCEPT ![j] = w]
  BY <1>1 DEF TarDirectory, TypeOK
<1>5. w \in [Names -> TarStates]
  BY <1>1 DEF TarStates
<1>6. \A n \in Names : w[n] = "walking" => n = job[j].cur
  BY <1>1, <1>2 DEF Fits
<1> HIDE DEF r, w
<1>7. Fits(j, r, tmp[j], w)
  BY <1>1, <1>2, <1>3, <1>6 DEF Fits, BuildPcs
<1> QED BY <1>1, <1>2, <1>3, <1>4, <1>5, <1>7, WorkStep

LEMMA ClosePipeKeeps ==
    ASSUME IInv, NEW j \in Jobs, ClosePipe(j)
    PROVE  IInv'
<1> DEFINE r == [job[j] EXCEPT !.pc = "remove"]
           n == job[j].cur
           w == [tar[j] EXCEPT ![n] = IF tar[j][n] = "walking" THEN "closed" ELSE tar[j][n]]
<1>1. /\ TypeOK /\ Fits(j, job[j], tmp[j], tar[j]) /\ job[j] \in JobRecords /\ n \in Names
      /\ tar[j] \in [Names -> TarStates] /\ tmp[j] \in TmpStates
      /\ tmp = [tmp EXCEPT ![j] = tmp[j]]
  BY FitsNow, JobFields, WorkFields DEF IInv
<1>2. job[j].pc = "close" /\ Goto(j, "remove") /\ UNCHANGED <<compVars, dockerVars, tmp>>
  BY DEF ClosePipe
<1>3. /\ r \in JobRecords /\ job' = [job EXCEPT ![j] = r]
      /\ r.pc = "remove" /\ r.cur = job[j].cur /\ r.total = job[j].total
      /\ r.whole = job[j].whole
  BY <1>1, <1>2, GotoIs DEF JobPcs, BuildPcs
<1>4. tar' = [tar EXCEPT ![j] = w]
  BY <1>1 DEF ClosePipe, TypeOK
<1>5. w \in [Names -> TarStates]
  BY <1>1 DEF TarStates
<1>6. \A m \in Names : w[m] # "walking"
  BY <1>1, <1>2 DEF Fits
<1> HIDE DEF r, w
<1>7. Fits(j, r, tmp[j], w)
  BY <1>1, <1>2, <1>3, <1>6 DEF Fits, BuildPcs
<1> QED BY <1>1, <1>2, <1>3, <1>4, <1>5, <1>7, WorkStep

LEMMA RemoveAllKeeps ==
    ASSUME IInv, NEW j \in Jobs, RemoveAll(j)
    PROVE  IInv'
<1> DEFINE pc == IF job[j].err THEN "failed" ELSE "create"
           r == [Idle EXCEPT !.pc = pc, !.done = job[j].done, !.cur = job[j].cur]
<1>1. /\ TypeOK /\ Fits(j, job[j], tmp[j], tar[j]) /\ job[j] \in JobRecords
      /\ job[j].cur \in Names /\ job[j].done \subseteq Names
  BY FitsNow, JobFields DEF IInv
<1>2. r \in JobRecords
  BY <1>1, IdleIsTyped DEF JobRecords
<1>3. r.pc = pc /\ r.cur = job[j].cur /\ r.total = 0
  BY DEF Idle
<1>4. /\ job[j].pc = "remove" /\ UNCHANGED <<compVars, dockerVars, tar>>
      /\ job' = [job EXCEPT ![j] = r]
  BY DEF RemoveAll, Returns
<1>7. PICK gone \in {"none", "left"} : tmp' = [tmp EXCEPT ![j] = gone]
  BY DEF RemoveAll
<1>8. gone \in TmpStates
  BY DEF TmpStates
<1> HIDE DEF r
<1>5. Fits(j, r, gone, tar[j])
  BY <1>1, <1>3, <1>4, ImagesAssumption DEF Fits, BuildPcs
<1>6. tar[j] \in [Names -> TarStates] /\ tar' = [tar EXCEPT ![j] = tar[j]]
  BY <1>1, <1>4, WorkFields
<1> QED BY <1>2, <1>4, <1>5, <1>6, <1>7, <1>8, WorkStep

LEMMA TarStepKeeps ==
    ASSUME IInv, NEW j \in Jobs, NEW n \in Names, TarStep(j, n)
    PROVE  IInv'
<1> DEFINE r == job[j]
           w == [tar[j] EXCEPT ![n] = "none"]
<1>1. /\ TypeOK /\ Fits(j, job[j], tmp[j], tar[j]) /\ job[j] \in JobRecords
      /\ tar[j] \in [Names -> TarStates] /\ tmp[j] \in TmpStates
      /\ tmp = [tmp EXCEPT ![j] = tmp[j]]
  BY FitsNow, JobFields, WorkFields DEF IInv
<1>2. UNCHANGED <<compVars, dockerVars, tmp, job>>
  BY DEF TarStep
<1>3. job' = [job EXCEPT ![j] = r]
  BY <1>1, <1>2 DEF TypeOK
<1>4. tar' = [tar EXCEPT ![j] = w]
  BY <1>1 DEF TarStep, TypeOK
<1>5. w \in [Names -> TarStates]
  BY <1>1 DEF TarStates
<1>6. \A m \in Names : w[m] = "walking" => tar[j][m] = "walking"
  BY <1>1
<1> HIDE DEF w
<1>7. Fits(j, r, tmp[j], w)
  BY <1>1, <1>6 DEF Fits
<1> QED BY <1>1, <1>2, <1>3, <1>4, <1>5, <1>7, WorkStep

-----------------------------------------------------------------------------
(* The steps that change the daemon's images and containers. *)

LEMMA DockerStep ==
    ASSUME IInv, NEW j \in Jobs, NEW r \in JobRecords,
           job' = [job EXCEPT ![j] = r],
           UNCHANGED <<compVars, tmp, tar>>,
           Fits(j, r, tmp[j], tar[j]),
           images' \in [References -> DockerImages \cup {NoImage}],
           ctr' \in [Slugs \X Names -> Containers \cup {NoCtr}],
           ImagesInv' /\ CtrInv' /\ RunsItsReference'
    PROVE  IInv'
<1>1. tmp' \in [Jobs -> TmpStates] /\ tar' \in [Jobs -> [Names -> TarStates]]
  BY DEF IInv, TypeOK, TarStates, TmpStates
<1>2. \A i \in Jobs : tmp'[i] = tmp[i] /\ tar'[i] = tar[i]
  OBVIOUS
<1>3. Fits(j, r, tmp'[j], tar'[j])
  BY <1>2
<1>4. UNCHANGED compVars
  OBVIOUS
<1>5. (GraphInv(j) /\ AtInv(j) /\ ExtractInv(j) /\ TarInv(j))'
  BY <1>3, <1>4, FitsThen
<1> QED BY <1>1, <1>2, <1>4, <1>5, JobFrame

LEMMA DockerTypes ==
    ASSUME IInv
    PROVE  /\ images \in [References -> DockerImages \cup {NoImage}]
           /\ ctr \in [Slugs \X Names -> Containers \cup {NoCtr}]
BY DEF IInv, TypeOK

\* The service that a job is at, and what its validation says of it.
LEMMA CurrentIsValid ==
    ASSUME IInv, NEW j \in Jobs, job[j].pc \in {"pull", "create"}
    PROVE  /\ Current(j) \in ServicePayloads
           /\ Current(j) = Service(payload[j], job[j].cur)
           /\ Current(j).image # NoImage \/ Current(j).build
<1>1. /\ job[j].cur \in comp[j].graph /\ Valid(payload[j], comp[j].graph)
      /\ comp[j].graph \subseteq ServiceNames(payload[j])
  BY FitsNow DEF Fits, IInv, JobsInv, CompInv
<1>2. payload[j] \in Payloads
  BY CompFields DEF IInv
<1>3. Service(payload[j], job[j].cur) \in ServicePayloads
  BY <1>1, <1>2, ServiceIsNamed
<1> QED BY <1>1, <1>3 DEF Current, Valid

\* What comes under a reference, if it is of the reference, and what is there already.
LEMMA MayTagKeeps ==
    ASSUME IInv, NEW r \in References, NEW i \in DockerImages, Under(r, i), MayTag(r, i),
           UNCHANGED <<compVars, ctr>>
    PROVE  /\ images' \in [References -> DockerImages \cup {NoImage}]
           /\ (ImagesInv /\ CtrInv /\ RunsItsReference)'
<1>1. images' = images \/ images' = [images EXCEPT ![r] = i]
  <2>1. DOMAIN images \cup {r} = DOMAIN images
    BY DockerTypes
  <2> QED BY <2>1 DEF MayTag
<1>2. images' \in [References -> DockerImages \cup {NoImage}]
  BY <1>1, DockerTypes
<1>3. ImagesInv'
  <2> SUFFICES ASSUME NEW q \in References, images'[q] # NoImage
               PROVE  Under(q, images'[q])
    BY DEF ImagesInv, Under, compVars
  <2>1. Under(q, images'[q])
    <3>1. CASE images'[q] = images[q]
      BY <3>1 DEF IInv, ImagesInv
    <3>2. CASE images'[q] # images[q]
      <4>1. q = r /\ images'[q] = i
        BY <1>1, <3>2, DockerTypes
      <4> QED BY <4>1
    <3> QED BY <3>1, <3>2
  <2> QED BY <2>1
<1>4. CtrInv'
  BY DEF IInv, CtrInv, compVars
<1>5. RunsItsReference'
  BY DEF IInv, RunsItsReference, compVars
<1> QED BY <1>2, <1>3, <1>4, <1>5

LEMMA PullKeeps ==
    ASSUME IInv, NEW j \in Jobs, Pull(j)
    PROVE  IInv'
<1> DEFINE q == Current(j).image
           i == [pulled |-> q]
<1>1. /\ TypeOK /\ Fits(j, job[j], tmp[j], tar[j]) /\ IInv
  BY FitsNow DEF IInv
<1>2. job[j].pc = "pull" /\ UNCHANGED <<compVars, ctr, tmp, tar>> /\ MayTag(q, i)
  BY DEF Pull
<1>3. q \in References /\ i \in DockerImages /\ Under(q, i)
  <2>1. ~Current(j).build
    BY <1>1, <1>2 DEF Fits, Current
  <2>2. q \in References
    BY <1>2, <2>1, CurrentIsValid DEF ServicePayloads
  <2> QED BY <2>2 DEF DockerImages, Pulled, Under
<1> HIDE DEF q, i
<1>4. /\ images' \in [References -> DockerImages \cup {NoImage}]
      /\ (ImagesInv /\ CtrInv /\ RunsItsReference)'
  BY <1>2, <1>3, MayTagKeeps
<1>5. \A pc \in {"create", "failed"} : Goto(j, pc) => IInv'
  <2> SUFFICES ASSUME NEW pc \in {"create", "failed"}, Goto(j, pc)
               PROVE  IInv'
    OBVIOUS
  <2> DEFINE r == [job[j] EXCEPT !.pc = pc]
  <2>1. /\ r \in JobRecords /\ job' = [job EXCEPT ![j] = r]
        /\ r.pc = pc /\ r.cur = job[j].cur /\ r.total = job[j].total
        /\ r.whole = job[j].whole
    BY <1>1, GotoIs DEF JobPcs
  <2> HIDE DEF r
  <2>2. Fits(j, r, tmp[j], tar[j])
    BY <1>1, <1>2, <2>1 DEF Fits, BuildPcs
  <2> QED BY <1>2, <1>4, <2>1, <2>2, DockerTypes, DockerStep
<1> QED BY <1>5 DEF Pull

\* The daemon has built, or not, when the call or its output ends.
LEMMA BuildKeeps ==
    ASSUME IInv, NEW j \in Jobs, job[j].pc \in {"build", "stream"}, MayBuild(j),
           NEW err \in BOOLEAN,
           job' = [job EXCEPT ![j] = [@ EXCEPT !.pc = "close", !.err = err]],
           UNCHANGED <<compVars, ctr, tmp, tar>>
    PROVE  IInv'
<1> DEFINE r == [job[j] EXCEPT !.pc = "close", !.err = err]
           t == ImageTag(j, job[j].cur)
           b == [by |-> j, name |-> job[j].cur]
<1>1. /\ TypeOK /\ Fits(j, job[j], tmp[j], tar[j]) /\ job[j] \in JobRecords
      /\ job[j].cur \in Names
  BY FitsNow, JobFields DEF IInv
<1>2. /\ r \in JobRecords /\ r.pc = "close" /\ r.cur = job[j].cur
      /\ r.total = job[j].total /\ r.whole = job[j].whole
  BY <1>1 DEF JobRecords, BuildPcs
<1>3. job' = [job EXCEPT ![j] = r]
  BY <1>1 DEF TypeOK
<1>4. t \in References
  <2>1. <<payload[j].slug, job[j].cur, payload[j].ref>> \in Slugs \X Names \X Refs
    BY <1>1, SlugIsTyped
  <2> QED BY <2>1, ImagesAssumption DEF ImageTag
<1>5. b \in Builds /\ b.by = j /\ b.name = job[j].cur
  BY <1>1 DEF Builds
<1>6. Service(payload[j], job[j].cur).build
  BY <1>1 DEF Fits, BuildPcs
<1>7. Under(t, b) /\ b \in DockerImages /\ MayTag(t, b)
  BY <1>5, <1>6 DEF Under, ImageTag, DockerImages, MayBuild
<1> HIDE DEF r, t, b
<1>8. /\ images' \in [References -> DockerImages \cup {NoImage}]
      /\ (ImagesInv /\ CtrInv /\ RunsItsReference)'
  BY <1>4, <1>7, MayTagKeeps
<1>9. Fits(j, r, tmp[j], tar[j])
  BY <1>1, <1>2 DEF Fits, BuildPcs
<1>10. ctr' \in [Slugs \X Names -> Containers \cup {NoCtr}]
  BY DockerTypes
<1> QED BY <1>2, <1>3, <1>8, <1>9, <1>10, DockerStep

LEMMA StreamEndsKeeps ==
    ASSUME IInv, NEW j \in Jobs, StreamEnds(j)
    PROVE  IInv'
BY BuildKeeps DEF StreamEnds

LEMMA ImageBuildFailsKeeps ==
    ASSUME IInv, NEW j \in Jobs, ImageBuildFails(j)
    PROVE  IInv'
BY BuildKeeps DEF ImageBuildFails, Abandon

\* What a container gets is what is under its reference.
LEMMA ImageIsUnder ==
    ASSUME IInv, NEW j \in Jobs, job[j].pc = "create", ImageFor(j) # NoImage
    PROVE  /\ ImageFor(j) \in DockerImages
           /\ LET s == Service(payload[j], job[j].cur) IN
              Under(IF s.build THEN BuildTag[payload[j].slug, job[j].cur, payload[j].ref]
                               ELSE s.image, ImageFor(j))
<1>1. /\ Current(j) \in ServicePayloads /\ Current(j) = Service(payload[j], job[j].cur)
      /\ Current(j).image # NoImage \/ Current(j).build
  BY CurrentIsValid
<1>2. ImageRef(j) \in References
  <2>1. CASE Current(j).build
    <3>1. <<payload[j].slug, job[j].cur, payload[j].ref>> \in Slugs \X Names \X Refs
      BY SlugIsTyped, JobFields DEF IInv
    <3> QED BY <2>1, <3>1, ImagesAssumption DEF ImageRef, ImageTag
  <2>2. CASE ~Current(j).build
    BY <1>1, <2>2 DEF ImageRef, ServicePayloads
  <2> QED BY <2>1, <2>2
<1>3. ImageFor(j) = images[ImageRef(j)]
  BY DEF ImageFor
<1>4. ImageFor(j) \in DockerImages /\ Under(ImageRef(j), ImageFor(j))
  BY <1>2, <1>3, DockerTypes DEF IInv, ImagesInv
<1>5. ImageRef(j) = IF Current(j).build
                    THEN BuildTag[payload[j].slug, job[j].cur, payload[j].ref]
                    ELSE Current(j).image
  BY DEF ImageRef, ImageTag
<1> QED BY <1>1, <1>4, <1>5

LEMMA CreateContainerKeeps ==
    ASSUME IInv, NEW j \in Jobs, CreateContainer(j)
    PROVE  IInv'
<1> DEFINE c == <<payload[j].slug, job[j].cur>>
           new == [by |-> j, image |-> ImageFor(j)]
<1>1. /\ TypeOK /\ Fits(j, job[j], tmp[j], tar[j]) /\ job[j] \in JobRecords
      /\ job[j].cur \in Names /\ job[j].done \subseteq Names
  BY FitsNow, JobFields DEF IInv
<1>2. job[j].pc = "create" /\ UNCHANGED <<compVars, images, tmp, tar>>
  BY DEF CreateContainer
<1>3. c \in Slugs \X Names /\ c[1] = payload[j].slug /\ c[2] = job[j].cur
  BY <1>1, SlugIsTyped
<1>4. ImagesInv'
  BY <1>2 DEF IInv, ImagesInv, Under, compVars
<1>5. images' \in [References -> DockerImages \cup {NoImage}]
  BY <1>2, DockerTypes
<1>6. comp[j].pc = "compiled" /\ Valid(payload[j], comp[j].graph)
  BY <1>1, <1>2 DEF Fits
<1>7. CASE /\ ImageFor(j) # NoImage
           /\ ctr' = [ctr EXCEPT ![c] = new]
           /\ job' = [job EXCEPT ![j] = [@ EXCEPT !.pc = "next",
                                             !.done = job[j].done \cup {job[j].cur}]]
  <2> DEFINE r == [job[j] EXCEPT !.pc = "next", !.done = job[j].done \cup {job[j].cur}]
  <2>1. r \in JobRecords
    BY <1>1 DEF JobRecords
  <2>2. /\ r.pc = "next" /\ r.cur = job[j].cur /\ r.total = job[j].total
        /\ r.whole = job[j].whole
    BY <1>1 DEF JobRecords
  <2>3. job' = [job EXCEPT ![j] = r]
    BY <1>1, <1>7 DEF TypeOK
  <2> HIDE DEF r
  <2>4. Fits(j, r, tmp[j], tar[j])
    BY <1>1, <1>2, <2>2 DEF Fits, BuildPcs
  <2>5. new \in Containers /\ new.by = j /\ new.image = ImageFor(j)
    BY <1>2, <1>7, ImageIsUnder DEF Containers
  <2> HIDE DEF new, c
  <2>6. ctr' \in [Slugs \X Names -> Containers \cup {NoCtr}]
    BY <1>7, <2>5, DockerTypes
  <2>7. ASSUME NEW d \in Slugs \X Names
        PROVE  ctr'[d] = IF d = c THEN new ELSE ctr[d]
    BY <1>7, DockerTypes
  <2>8. CtrInv'
    <3> SUFFICES ASSUME NEW d \in Slugs \X Names, ctr'[d] # NoCtr
                 PROVE  /\ comp[ctr'[d].by].pc = "compiled"
                        /\ Valid(payload[ctr'[d].by], comp[ctr'[d].by].graph)
      BY <1>2 DEF CtrInv, compVars
    <3>1. CASE d = c
      BY <1>6, <2>5, <2>7, <3>1
    <3>2. CASE d # c
      BY <2>7, <3>2 DEF IInv, CtrInv
    <3> QED BY <3>1, <3>2
  <2>9. RunsItsReference'
    <3>1. ASSUME NEW d \in Slugs \X Names, ctr'[d] # NoCtr
          PROVE  Own(d, ctr'[d])
      <4>1. CASE d = c
        <5>1. Own(c, new)
          BY <1>2, <1>3, <1>7, <2>5, ImageIsUnder DEF Own
        <5> QED BY <2>7, <4>1, <5>1
      <4>2. CASE d # c
        <5>1. ctr[d] # NoCtr /\ ctr'[d] = ctr[d]
          BY <2>7, <3>1, <4>2
        <5>2. Own(d, ctr[d])
          BY <5>1, OwnIs DEF IInv
        <5> QED BY <5>1, <5>2
      <4> QED BY <4>1, <4>2
    <3> QED BY <1>2, <3>1, OwnStays
  <2> QED BY <1>2, <1>4, <1>5, <2>1, <2>3, <2>4, <2>6, <2>8, <2>9, DockerStep
<1>8. CASE ctr' \in {ctr, [ctr EXCEPT ![c] = NoCtr]} /\ Goto(j, "failed")
  <2> DEFINE r == [job[j] EXCEPT !.pc = "failed"]
  <2>1. /\ r \in JobRecords /\ job' = [job EXCEPT ![j] = r]
        /\ r.pc = "failed" /\ r.cur = job[j].cur /\ r.total = job[j].total
        /\ r.whole = job[j].whole
    BY <1>1, <1>8, GotoIs DEF JobPcs
  <2> HIDE DEF r, c
  <2>2. Fits(j, r, tmp[j], tar[j])
    BY <1>1, <1>2, <2>1 DEF Fits, BuildPcs
  <2>3. ctr' \in [Slugs \X Names -> Containers \cup {NoCtr}]
    BY <1>8, DockerTypes
  <2>4. \A d \in Slugs \X Names : ctr'[d] # NoCtr => ctr[d] = ctr'[d]
    BY <1>8, DockerTypes
  <2>5. CtrInv'
    BY <1>2, <2>4 DEF IInv, CtrInv, compVars
  <2>6. RunsItsReference'
    <3>1. ASSUME NEW d \in Slugs \X Names, ctr'[d] # NoCtr
          PROVE  Own(d, ctr'[d])
      BY <2>4, <3>1, OwnIs DEF IInv
    <3> QED BY <1>2, <3>1, OwnStays
  <2> QED BY <1>2, <1>4, <1>5, <2>1, <2>2, <2>3, <2>5, <2>6, DockerStep
<1> QED BY <1>7, <1>8 DEF CreateContainer

-----------------------------------------------------------------------------
(* The theorems. *)

LEMMA StepInvariant == IInv /\ [Next]_vars => IInv'
<1> SUFFICES ASSUME IInv, [Next]_vars PROVE IInv'
  OBVIOUS
<1>1. CASE UNCHANGED vars
  <2> USE <1>1 DEF vars, compVars
  <2>1. TypeOK'
    BY DEF IInv, TypeOK, CompilerTypeOK
  <2>2. JobsInv'
    BY DEF IInv, JobsInv, CompInv, SecretsOf, GraphInv, AtInv, ExtractInv, TarInv
  <2>3. UNCHANGED <<compVars, dockerVars>>
    BY DEF dockerVars
  <2> QED BY <2>1, <2>2, <2>3, DockerFrame DEF IInv
<1>2. ASSUME NEW j \in Jobs, JobStep(j)
      PROVE  IInv'
  <2>1. CASE CompileStep(j) /\ UNCHANGED <<job, dockerVars, tmp, tar>>
    BY <2>1, ConvertKeeps, CompileNextKeeps, ResolveKeeps, ResolveFailsKeeps,
       CompileServiceKeeps, CompiledKeeps DEF CompileStep
  <2>2. CASE Execute(j)
    BY <2>2, ExecuteKeeps
  <2>3. CASE NextService(j)
    BY <2>3, NextServiceKeeps
  <2>4. CASE Completed(j)
    BY <2>4, CompletedKeeps
  <2>5. CASE Pull(j)
    BY <2>5, PullKeeps
  <2>6. CASE Download(j)
    BY <2>6, DownloadKeeps
  <2>7. CASE DownloadFails(j)
    BY <2>7, DownloadFailsKeeps
  <2>8. CASE Extract(j)
    BY <2>8, ExtractKeeps
  <2>9. CASE Extracted(j)
    BY <2>9, ExtractedKeeps
  <2>10. CASE ExtractFails(j)
    BY <2>10, AbandonKeeps DEF ExtractFails
  <2>11. CASE TarDirectory(j)
    BY <2>11, TarDirectoryKeeps
  <2>12. CASE ImageBuild(j)
    BY <2>12, ImageBuildKeeps
  <2>13. CASE ImageBuildFails(j)
    BY <2>13, ImageBuildFailsKeeps
  <2>14. CASE StreamEnds(j)
    BY <2>14, StreamEndsKeeps
  <2>15. CASE ClosePipe(j)
    BY <2>15, ClosePipeKeeps
  <2>16. CASE RemoveAll(j)
    BY <2>16, RemoveAllKeeps
  <2>17. CASE CreateContainer(j)
    BY <2>17, CreateContainerKeeps
  <2> QED BY <1>2, <2>1, <2>2, <2>3, <2>4, <2>5, <2>6, <2>7, <2>8, <2>9, <2>10, <2>11,
             <2>12, <2>13, <2>14, <2>15, <2>16, <2>17 DEF JobStep
<1>3. ASSUME NEW j \in Jobs, NEW n \in Names, TarStep(j, n)
      PROVE  IInv'
  BY <1>3, TarStepKeeps
<1> QED BY <1>1, <1>2, <1>3 DEF Next

\* The inductive invariant holds in every reachable state, whichever calls of the daemon,
\* the kernel and the network fail.
THEOREM Invariance == Spec => []IInv
BY InitInvariant, StepInvariant, PTL DEF Spec

\* Every variable keeps its type: in particular nothing runs without an image.
THEOREM TypeCorrect == Spec => []TypeOK
<1>1. IInv => TypeOK
  BY DEF IInv
<1> QED BY <1>1, Invariance, PTL

\* A container exists only for deployments that validate and have all of their secrets.
THEOREM SecretsAreResolved == Spec => []SecretsResolved
<1>1. IInv => SecretsResolved
  <2> SUFFICES ASSUME IInv, NEW c \in Slugs \X Names, ctr[c] # NoCtr
               PROVE  LET p == payload[ctr[c].by] IN
                      /\ Valid(p, ServiceNames(p))
                      /\ \A n \in ServiceNames(p) : \A s \in Service(p, n).secrets :
                            <<n, s>> \in comp[ctr[c].by].resolved
    BY DEF SecretsResolved
  <2> DEFINE j == ctr[c].by
  <2>1. j \in Jobs
    BY DockerTypes DEF Containers
  <2>2. comp[j].pc = "compiled" /\ Valid(payload[j], comp[j].graph)
    BY DEF IInv, CtrInv
  <2>3. CompInv(j)
    BY <2>1 DEF IInv, JobsInv
  <2>4. comp[j].graph = ServiceNames(payload[j])
    BY <2>2, <2>3 DEF CompInv
  <2> QED BY <2>2, <2>3, <2>4 DEF CompInv, SecretsOf
<1> QED BY <1>1, Invariance, PTL

\* A container runs what was pulled or built under the reference of its service, whatever
\* references and tags coincide.
THEOREM ReferencesAreRun == Spec => []RunsItsReference
<1>1. IInv => RunsItsReference
  BY DEF IInv
<1> QED BY <1>1, Invariance, PTL

\* A build context is sent only when each file was extracted to its end within the limit.
THEOREM ExtractionIsWhole == Spec => []ExtractedWhole
<1>1. IInv => ExtractedWhole
  BY DEF IInv, JobsInv, ExtractInv, ExtractedWhole
<1> QED BY <1>1, Invariance, PTL

\* The directory outlives the walk of it, and buildImage leaves none behind untried.
THEOREM ContextsAreIntact == Spec => []ContextIntact
<1>1. IInv => ContextIntact
  <2> SUFFICES ASSUME IInv, NEW j \in Jobs
               PROVE  /\ (\E n \in Names : tar[j][n] = "walking") => tmp[j] = "there"
                      /\ tmp[j] = "there" => job[j].pc \in BuildPcs
    BY DEF ContextIntact
  <2>1. TarInv(j)
    BY DEF IInv, JobsInv
  <2> QED BY <2>1 DEF TarInv, BuildPcs
<1> QED BY <1>1, Invariance, PTL

=============================================================================

------------------------------ MODULE Compiler ------------------------------
(***************************************************************************)
(* From the payload of an apply to a compiled graph: the conversion in     *)
(* processDeployment, which keeps neither networks nor volumes, Compile    *)
(* with its secrets, each fetched from the kernel by a call that may fail, *)
(* and Validate.  Services and environments are Go maps, walked in any     *)
(* order.                                                                  *)
(***************************************************************************)
EXTENDS Naturals, Sequences

CONSTANTS
    Jobs,       \* the goroutines that process an apply
    Payloads,   \* what an event may carry
    Slugs, Names, Refs, Secrets, Networks,
    References, \* of images
    NoImage     \* the empty string for an image

ServicePayloads ==
    [name : Names, image : References \cup {NoImage}, build : BOOLEAN,
     secrets : SUBSET Secrets,      \* that its environment refers to
     networks : SUBSET Networks]

ASSUME CompilerAssumption ==
    /\ Payloads \subseteq
          [id : BOOLEAN, slug : Slugs, ref : Refs, url : BOOLEAN,   \* with an ID, an archive
           services : Seq(ServicePayloads), networks : SUBSET Networks]
    /\ NoImage \notin References
    /\ Names # {}

VARIABLES
    payload,    \* payload[j]: of the job j
    comp        \* comp[j]: its compilation

compVars == <<payload, comp>>

CompRecords ==
    [pc : {"none", "services", "secrets", "compiled", "failed"},
     graph : SUBSET Names,              \* compiled
     cur : Names,                       \* being compiled
     left : SUBSET Secrets,             \* of it: still to resolve
     resolved : SUBSET (Names \X Secrets)]

CompilerTypeOK ==
    /\ payload \in [Jobs -> Payloads]
    /\ comp \in [Jobs -> CompRecords]

CompilerInit ==
    /\ payload \in [Jobs -> Payloads]
    /\ comp = [j \in Jobs |-> [pc |-> "none", graph |-> {}, cur |-> CHOOSE n \in Names : TRUE,
                               left |-> {}, resolved |-> {}]]

-----------------------------------------------------------------------------
ServiceNames(p) == {p.services[i].name : i \in DOMAIN p.services}

\* The services of the payload become a map: of two with one name the later stays.
Service(p, n) ==
    p.services[CHOOSE i \in DOMAIN p.services :
        /\ p.services[i].name = n
        /\ \A k \in DOMAIN p.services : p.services[k].name = n => k <= i]

\* Of the payload's networks the specification gets none, nor does the graph.
GraphNetworks(p) == {}

\* Mutant: an image is not asked for.
ImageUnchecked(p, graph) ==
    /\ p.id
    /\ graph # {}
    /\ \A n \in graph : Service(p, n).networks \subseteq GraphNetworks(p)

Valid(p, graph) ==
    /\ p.id
    /\ graph # {}
    /\ \A n \in graph :
          /\ Service(p, n).image # NoImage \/ Service(p, n).build
          /\ Service(p, n).networks \subseteq GraphNetworks(p)

-----------------------------------------------------------------------------
Fail(j) == comp' = [comp EXCEPT ![j].pc = "failed"]

Convert(j) ==
    /\ comp[j].pc = "none"
    /\ IF payload[j].id THEN comp' = [comp EXCEPT ![j].pc = "services"] ELSE Fail(j)
    /\ UNCHANGED payload

CompileNext(j) ==
    /\ comp[j].pc = "services"
    /\ \E n \in ServiceNames(payload[j]) \ comp[j].graph :
          comp' = [comp EXCEPT ![j] = [@ EXCEPT !.pc = "secrets", !.cur = n,
                                                !.left = Service(payload[j], n).secrets]]
    /\ UNCHANGED payload

\* Mutant: the reference stays as it is.
KeepReference(j) ==
    /\ comp[j].pc = "secrets"
    /\ \E s \in comp[j].left :
          comp' = [comp EXCEPT ![j] = [@ EXCEPT !.left = comp[j].left \ {s}]]
    /\ UNCHANGED payload

\* GetSecret answers for one of the references.
Resolve(j) ==
    /\ comp[j].pc = "secrets"
    /\ \E s \in comp[j].left :
          comp' = [comp EXCEPT ![j] = [@ EXCEPT !.left = comp[j].left \ {s},
                                  !.resolved = comp[j].resolved \cup {<<comp[j].cur, s>>}]]
    /\ UNCHANGED payload

\* One reference that cannot be resolved fails the whole compilation.
ResolveFails(j) ==
    /\ comp[j].pc = "secrets"
    /\ comp[j].left # {}
    /\ Fail(j)
    /\ UNCHANGED payload

CompileService(j) ==
    /\ comp[j].pc = "secrets"
    /\ comp[j].left = {}
    /\ comp' = [comp EXCEPT ![j] = [@ EXCEPT !.pc = "services",
                                             !.graph = comp[j].graph \cup {comp[j].cur}]]
    /\ UNCHANGED payload

Compiled(j) ==
    /\ comp[j].pc = "services"
    /\ ServiceNames(payload[j]) = comp[j].graph
    /\ comp' = [comp EXCEPT ![j].pc = "compiled"]
    /\ UNCHANGED payload

CompileStep(j) ==
    \/ Convert(j) \/ CompileNext(j) \/ Resolve(j) \/ ResolveFails(j)
    \/ CompileService(j) \/ Compiled(j)

=============================================================================

------------------------------- MODULE Images -------------------------------
(***************************************************************************)
(* From a compiled graph to containers: Execute with buildImage, where     *)
(* each job downloads and extracts its source, streams it to the daemon    *)
(* through the goroutine of tarDirectory and gets a tag, and with pulls.   *)
(* Jobs share the daemon: its containers, and its images under one         *)
(* namespace of references, those that payloads name as well as the tags   *)
(* of builds.  What follows the creation of a container is in Deployer.    *)
(***************************************************************************)
EXTENDS Compiler

CONSTANTS
    MaxExtractedBytes,  \* the limit of an extraction
    Archives,           \* sizes of the files of an archive
    BuildTag,           \* "<slug>/<service>:<ref>", which may be any reference
    NoCtr               \* no container of a name

ASSUME ImagesAssumption ==
    /\ MaxExtractedBytes \in Nat
    /\ Archives \subseteq Seq(Nat)
    /\ Archives # {}
    /\ BuildTag \in [Slugs \X Names \X Refs -> References]

Pulled == [pulled : References]         \* what the registry has under a reference
Builds == [by : Jobs, name : Names]     \* what a build makes, by its job and service
DockerImages == Pulled \cup Builds

Containers == [by : Jobs, image : DockerImages]

ASSUME NothingIsDistinct ==
    /\ NoImage \notin DockerImages
    /\ NoCtr \notin Containers

VARIABLES
    job,        \* job[j]: Execute, and the service it is at
    images,     \* images[r]: the image that the daemon has under r
    tmp,        \* tmp[j]: the temporary directory of its build, "left" if not removable
    tar,        \* tar[j][n]: the goroutine that walks it for service n, and its pipe
    ctr         \* ctr[d, n]: whose container runs under the name, and which image

vars == <<compVars, job, images, tmp, tar, ctr>>
dockerVars == <<images, ctr>>

BuildPcs == {"extract", "tar", "build", "stream", "close", "remove"}

JobRecords ==
    [pc : {"none", "next", "pull", "download", "create", "ok", "failed"} \cup BuildPcs,
     done : SUBSET Names,       \* services with a container
     cur : Names,
     archive : Archives,
     entry : Nat,               \* files extracted of it
     total : Nat,               \* totalWritten
     whole : BOOLEAN,           \* each of them to its end
     err : BOOLEAN]             \* what buildImage returns after its deferred calls

Idle == [pc |-> "none", done |-> {}, cur |-> CHOOSE n \in Names : TRUE,
         archive |-> CHOOSE a \in Archives : TRUE, entry |-> 0, total |-> 0, whole |-> TRUE,
         err |-> FALSE]

TypeOK ==
    /\ CompilerTypeOK
    /\ job \in [Jobs -> JobRecords]
    /\ images \in [References -> DockerImages \cup {NoImage}]
    /\ tmp \in [Jobs -> {"none", "there", "left"}]
    /\ tar \in [Jobs -> [Names -> {"none", "walking", "closed"}]]
    /\ ctr \in [Slugs \X Names -> Containers \cup {NoCtr}]

Init ==
    /\ CompilerInit
    /\ job = [j \in Jobs |-> Idle]
    /\ images = [r \in References |-> NoImage]
    /\ tmp = [j \in Jobs |-> "none"]
    /\ tar = [j \in Jobs |-> [n \in Names |-> "none"]]
    /\ ctr = [c \in Slugs \X Names |-> NoCtr]

-----------------------------------------------------------------------------
Goto(j, pc) == job' = [job EXCEPT ![j].pc = pc]

\* Mutant: the tag has no ref.
LatestTag(j, n) == BuildTag[payload[j].slug, n, CHOOSE r \in Refs : TRUE]

\* An empty ref is "local".
ImageTag(j, n) == BuildTag[payload[j].slug, n, payload[j].ref]

Current(j) == Service(payload[j], job[j].cur)

\* NewRunner, Ping and Validate.
Execute(j) ==
    /\ job[j].pc = "none"
    /\ comp[j].pc = "compiled"
    /\ \/ Valid(payload[j], comp[j].graph) /\ Goto(j, "next")
       \/ Goto(j, "failed")
    /\ UNCHANGED <<compVars, dockerVars, tmp, tar>>

NextService(j) ==
    /\ job[j].pc = "next"
    /\ \E n \in comp[j].graph \ job[j].done :
          job' = [job EXCEPT ![j] = [@ EXCEPT !.cur = n,
                    !.pc = IF Service(payload[j], n).build THEN "download" ELSE "pull"]]
    /\ UNCHANGED <<compVars, dockerVars, tmp, tar>>

Completed(j) ==
    /\ job[j].pc = "next"
    /\ job[j].done = comp[j].graph
    /\ Goto(j, "ok")
    /\ UNCHANGED <<compVars, dockerVars, tmp, tar>>

\* The daemon takes r for the image, or has failed before that.
MayTag(r, image) ==
    \/ UNCHANGED images
    \/ images' = [q \in DOMAIN images \cup {r} |-> IF q = r THEN image ELSE images[q]]

\* ImagePull, which may have pulled although it fails; an error in its stream is not looked
\* at.
Pull(j) ==
    /\ job[j].pc = "pull"
    /\ Goto(j, "create") \/ Goto(j, "failed")
    /\ MayTag(Current(j).image, [pulled |-> Current(j).image])
    /\ UNCHANGED <<compVars, ctr, tmp, tar>>

\* The download and the temporary directory.
Download(j) ==
    /\ job[j].pc = "download"
    /\ payload[j].url
    /\ \E a \in Archives :
          job' = [job EXCEPT ![j] = [@ EXCEPT !.pc = "extract", !.archive = a, !.entry = 0,
                                              !.total = 0, !.whole = TRUE]]
    /\ tmp' = [tmp EXCEPT ![j] = "there"]
    /\ UNCHANGED <<compVars, dockerVars, tar>>

DownloadFails(j) ==
    /\ job[j].pc = "download"
    /\ Goto(j, "failed")
    /\ UNCHANGED <<compVars, dockerVars, tmp, tar>>

\* buildImage returns an error: what it has deferred comes next.
Abandon(j) == job' = [job EXCEPT ![j] = [@ EXCEPT !.pc = "close", !.err = TRUE]]

Smaller(a, b) == IF a < b THEN a ELSE b

\* Mutant: the limit without the byte that shows that it was passed.
ExactLimit(j) == MaxExtractedBytes - job[j].total

Limit(j) == MaxExtractedBytes - job[j].total + 1

\* A regular file, through the LimitReader.
Extract(j) ==
    /\ job[j].pc = "extract"
    /\ job[j].entry < Len(job[j].archive)
    /\ LET size    == job[j].archive[job[j].entry + 1]
           written == Smaller(size, Limit(j))
           total   == job[j].total + written
           over    == total > MaxExtractedBytes
       IN job' = [job EXCEPT ![j] =
                    [@ EXCEPT !.entry = job[j].entry + 1,
                              !.total = total,
                              !.whole = job[j].whole /\ written = size,
                              !.err = over,
                              !.pc = IF over THEN "close" ELSE "extract"]]
    /\ UNCHANGED <<compVars, dockerVars, tmp, tar>>

\* The end of the archive; the Dockerfile is there.
Extracted(j) ==
    /\ job[j].pc = "extract"
    /\ job[j].entry = Len(job[j].archive)
    /\ Goto(j, "tar")
    /\ UNCHANGED <<compVars, dockerVars, tmp, tar>>

\* The archive is broken, a file cannot be written, or the Dockerfile is missing.
ExtractFails(j) ==
    /\ job[j].pc = "extract"
    /\ Abandon(j)
    /\ UNCHANGED <<compVars, dockerVars, tmp, tar>>

TarDirectory(j) ==
    /\ job[j].pc = "tar"
    /\ tar' = [tar EXCEPT ![j][job[j].cur] = "walking"]
    /\ Goto(j, "build")
    /\ UNCHANGED <<compVars, dockerVars, tmp>>

\* The daemon answers; it may still read the context.
ImageBuild(j) ==
    /\ job[j].pc = "build"
    /\ Goto(j, "stream")
    /\ UNCHANGED <<compVars, dockerVars, tmp, tar>>

MayBuild(j) == MayTag(ImageTag(j, job[j].cur), [by |-> j, name |-> job[j].cur])

\* The call fails, on either side of the connection.
ImageBuildFails(j) ==
    /\ job[j].pc = "build"
    /\ MayBuild(j)
    /\ Abandon(j)
    /\ UNCHANGED <<compVars, ctr, tmp, tar>>

\* The end of the output: the image is built, or an error in the stream is not looked at.
StreamEnds(j) ==
    /\ job[j].pc = "stream"
    /\ MayBuild(j)
    /\ job' = [job EXCEPT ![j] = [@ EXCEPT !.pc = "close", !.err = FALSE]]
    /\ UNCHANGED <<compVars, ctr, tmp, tar>>

\* Mutant: the pipe is left open.
LeavePipe(j) ==
    /\ job[j].pc = "close"
    /\ Goto(j, "remove")
    /\ UNCHANGED <<compVars, dockerVars, tmp, tar>>

\* The deferred calls, last first: the pipe's end is closed,
ClosePipe(j) ==
    /\ job[j].pc = "close"
    /\ tar' = [tar EXCEPT ![j][job[j].cur] = IF @ = "walking" THEN "closed" ELSE @]
    /\ Goto(j, "remove")
    /\ UNCHANGED <<compVars, dockerVars, tmp>>

\* buildImage returns; its local variables are gone.
Returns(j) ==
    job' = [job EXCEPT ![j] = [Idle EXCEPT !.pc = IF job[j].err THEN "failed" ELSE "create",
                                           !.done = job[j].done, !.cur = job[j].cur]]

\* Mutant: the directory is removed at the end only, not by a deferred call.
RemoveAtEnd(j) ==
    /\ job[j].pc = "remove"
    /\ \/ job[j].err /\ UNCHANGED tmp
       \/ ~job[j].err /\ tmp' = [tmp EXCEPT ![j] = "none"]
    /\ Returns(j)
    /\ UNCHANGED <<compVars, dockerVars, tar>>

\* and the directory is removed, or stays for good, as nobody looks at the error.
RemoveAll(j) ==
    /\ job[j].pc = "remove"
    /\ \E gone \in {"none", "left"} : tmp' = [tmp EXCEPT ![j] = gone]
    /\ Returns(j)
    /\ UNCHANGED <<compVars, dockerVars, tar>>

\* imageRef, and what the daemon has under it, if anything.
ImageRef(j) ==
    IF Current(j).build THEN ImageTag(j, job[j].cur) ELSE Current(j).image

ImageFor(j) == images[ImageRef(j)]

\* ContainerRemove by name and ContainerCreate: without the image it is an error.
CreateContainer(j) ==
    /\ job[j].pc = "create"
    /\ LET c == <<payload[j].slug, job[j].cur>>
       IN \/ /\ ImageFor(j) # NoImage
             /\ ctr' = [ctr EXCEPT ![c] = [by |-> j, image |-> ImageFor(j)]]
             /\ job' = [job EXCEPT ![j] = [@ EXCEPT !.pc = "next",
                                               !.done = job[j].done \cup {job[j].cur}]]
          \/ /\ ctr' \in {ctr, [ctr EXCEPT ![c] = NoCtr]}
             /\ Goto(j, "failed")
    /\ UNCHANGED <<compVars, images, tmp, tar>>

JobStep(j) ==
    \/ CompileStep(j) /\ UNCHANGED <<job, dockerVars, tmp, tar>>
    \/ Execute(j) \/ NextService(j) \/ Completed(j) \/ Pull(j) \/ Download(j)
    \/ DownloadFails(j) \/ Extract(j) \/ Extracted(j) \/ ExtractFails(j) \/ TarDirectory(j)
    \/ ImageBuild(j) \/ ImageBuildFails(j) \/ StreamEnds(j) \/ ClosePipe(j) \/ RemoveAll(j)
    \/ CreateContainer(j)

\* The goroutine of tarDirectory ends when the daemon has read all or the pipe is closed.
TarStep(j, n) ==
    /\ \/ tar[j][n] = "walking" /\ job[j].pc \in {"build", "stream"} /\ job[j].cur = n
       \/ tar[j][n] = "closed"
    /\ tar' = [tar EXCEPT ![j][n] = "none"]
    /\ UNCHANGED <<compVars, job, dockerVars, tmp>>

Next == \E j \in Jobs : JobStep(j) \/ \E n \in Names : TarStep(j, n)

Spec == Init /\ [][Next]_vars

\* Fairness: the goroutines run, and each call of the daemon, the kernel and the network
\* returns (the download has a timeout, secrets and pulls may fail).
FairSpec ==
    /\ Spec
    /\ \A j \in Jobs : WF_vars(JobStep(j)) /\ \A n \in Names : WF_vars(TarStep(j, n))

-----------------------------------------------------------------------------
\* No container is created for a deployment of which any service has an unresolved secret
\* ("partial deployments with missing secrets", compiler.go:148), an unknown network or
\* neither image nor build.
SecretsResolved ==
    \A c \in Slugs \X Names : ctr[c] # NoCtr =>
        LET p == payload[ctr[c].by] IN
        /\ Valid(p, ServiceNames(p))
        /\ \A n \in ServiceNames(p) : \A s \in Service(p, n).secrets :
              <<n, s>> \in comp[ctr[c].by].resolved

\* A container runs what was pulled or built under the one reference that its service stands
\* for: by another job if it comes between, or if the errors of the own pull or build are in
\* their streams.  Nothing more holds, as a service's image and the tag of a build may be one
\* reference (runner.go:110, 150, 357, 434).
RunsItsReference ==
    \A c \in Slugs \X Names : ctr[c] # NoCtr =>
        LET p == payload[ctr[c].by]
            s == Service(p, c[2])
            i == ctr[c].image
            r == IF s.build THEN BuildTag[p.slug, c[2], p.ref] ELSE s.image
        IN /\ p.slug = c[1]
           /\ \/ i = [pulled |-> r]
              \/ /\ i \in Builds
                 /\ BuildTag[payload[i.by].slug, i.name, payload[i.by].ref] = r
                 /\ Service(payload[i.by], i.name).build

\* What is sent to the daemon was extracted to the end of each file, and no more than the
\* limit and one byte is ever on disk (runner.go:497, 540-547).
ExtractedWhole ==
    \A j \in Jobs :
        /\ job[j].total <= MaxExtractedBytes + 1
        /\ job[j].pc \in {"tar", "build", "stream"} =>
              job[j].whole /\ job[j].total <= MaxExtractedBytes

\* As long as the daemon may read it the directory is there, and no job leaves one behind
\* that it has not tried to remove (the order of the deferred calls, 391-411).
ContextIntact ==
    \A j \in Jobs :
        /\ (\E n \in Names : tar[j][n] = "walking") => tmp[j] = "there"
        /\ tmp[j] = "there" => job[j].pc \in BuildPcs

\* The goroutine of tarDirectory ends, also if the daemon stops reading (444-483).
TarEnds == \A j \in Jobs : \A n \in Names : tar[j][n] # "none" ~> tar[j][n] = "none"

=============================================================================

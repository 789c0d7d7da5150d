------------------------------ MODULE Promote ------------------------------
(***************************************************************************)
(* Promote in src/ais/tgtifimpl.go: a file of the local file system becomes *)
(* an object.  The target that owns the object copies the file to a work   *)
(* file, or takes the file itself as the work file when it lies on the     *)
(* object's mountpath and is to be deleted anyway, and then installs the   *)
(* work file at the final path; any other target sends the file to the     *)
(* owner.  Promote holds no lock between its steps, so calls for the same  *)
(* object interleave with each other and with PutObject, FinalizeObj and   *)
(* EvictObject, which are modelled as single steps on the same object.     *)
(*                                                                         *)
(* putObjInfo.putObject and finalize, copyObjInfo.putRemote and            *)
(* DeleteObject are not among the sources; they follow the written         *)
(* specification (4.3, 4.4).                                               *)
(***************************************************************************)
EXTENDS Naturals, FiniteSets

CONSTANTS
    Callers,     \* the calls that run concurrently
    Sources,     \* the paths files are promoted from
    SameMpath,   \* the sources that lie on the mountpath of the object
    Contents,    \* what a file can hold
    Original,    \* Original[s]: what the file at s holds to begin with
    Params,      \* the PromoteParams the calls are made with
    NoFile,      \* there is no file at a path
    NoCksum,     \* a nil checksum
    MaxFaults    \* bound on the failures injected

VARIABLES
    file,       \* file[s]: what the file at source path s holds, or NoFile
    work,       \* work[c]: what the work file generated by call c holds
    obj,        \* the object at the final path: content and stored checksum
    promoted,   \* the sources whose file was installed or sent to the owner
    call,       \* call[c]: where call c stands, its parameters and locals
    faults      \* the failures injected so far

pvars == <<file, work, obj, promoted, call, faults>>

\* The checksum of a content; two contents never share one.
CksumOf(x) == <<"cksum", x>>
Cksums     == {CksumOf(x) : x \in Contents}

PromoteParams ==
    [SrcFQN : Sources, DeleteSrc : BOOLEAN, OverwriteDst : BOOLEAN,
     Cksum : Cksums \cup {NoCksum}]

ASSUME /\ SameMpath \subseteq Sources
       /\ Original \in [Sources -> Contents]
       /\ Params \subseteq PromoteParams
       /\ MaxFaults \in Nat

OwtPut     == "OwtPut"
OwtMigrate == "OwtMigrate"

NoObject == [content |-> NoFile, cksum |-> NoCksum]
Objects  == [content : Contents, cksum : Cksums]

NoParams == [SrcFQN |-> NoFile, DeleteSrc |-> FALSE, OverwriteDst |-> FALSE,
             Cksum |-> NoCksum]

\* A call that has not been made: no work file name, no checksum in the LOM,
\* nothing returned.
Idle == [pc |-> "idle", p |-> NoParams, workFQN |-> "none",
         cksum |-> NoCksum, res |-> "none"]

-----------------------------------------------------------------------------

Fault ==
    /\ faults < MaxFaults
    /\ faults' = faults + 1

\* An operation on a file fails because the file is not there, or by itself.
Fails(missing) ==
    IF missing THEN UNCHANGED faults ELSE Fault

\* Promote returns (lom, nil), (nil, nil) or (nil, err); the other calls
\* return nil or err.
Return(c, r) ==
    call' = [call EXCEPT ![c].pc = "done", ![c].res = r]

Remove(s) == [file EXCEPT ![s] = NoFile]

-----------------------------------------------------------------------------
(* Promote *)

\* lom.Load finds the object and the caller did not ask to overwrite it.
KeepsDst(p) ==
    obj # NoObject /\ ~p.OverwriteDst

\* lom.Init, HrwTarget and, on the owner, the look at the destination.
PromoteBegin(c) ==
    /\ call[c].pc = "idle"
    /\ \E p \in Params, local \in BOOLEAN :
        LET began == [call EXCEPT ![c].p = p]
        IN  \/ Fault /\ call' = [began EXCEPT ![c].pc = "done", ![c].res = "err"]
            \/ /\ ~local
               /\ call' = [began EXCEPT ![c].pc = "remote"]
               /\ UNCHANGED faults
            \/ /\ local /\ KeepsDst(p)
               /\ call' = [began EXCEPT ![c].pc = "done", ![c].res = "nil"]
               /\ UNCHANGED faults
            \/ /\ local /\ ~KeepsDst(p)
               /\ call' = [began EXCEPT ![c].pc = "prepare"]
               /\ UNCHANGED faults
    /\ UNCHANGED <<file, work, obj, promoted>>

\* As SourceAfterSend, but the source is removed whether or not it was sent.
SourceAfterSendAnyway(p, err) ==
    IF p.DeleteSrc THEN Remove(p.SrcFQN) ELSE file

\* The source is removed if it was sent and the caller asked for it.
SourceAfterSend(p, err) ==
    IF ~err /\ p.DeleteSrc THEN Remove(p.SrcFQN) ELSE file

\* This target is not the owner: putRemote sends the file to the owner.
PutRemote(c) ==
    LET p == call[c].p
        s == p.SrcFQN
    IN  /\ call[c].pc = "remote"
        /\ \/ /\ file[s] # NoFile
              /\ promoted' = promoted \cup {s}
              /\ file' = SourceAfterSend(p, FALSE)
              /\ Return(c, "nil")
              /\ UNCHANGED faults
           \/ /\ Fails(file[s] = NoFile)
              /\ file' = SourceAfterSend(p, TRUE)
              /\ Return(c, "err")
              /\ UNCHANGED promoted
        /\ UNCHANGED <<work, obj>>

\* As extraCopy, but a source on the object's mountpath is taken as the work
\* file also when it is to be kept.
extraCopyIgnoresDeleteSrc(p) ==
    p.SrcFQN \notin SameMpath

\* The source may serve as the work file only if it is to be deleted and lies
\* on the mountpath of the object (a path FQN2Mpath cannot resolve does not).
extraCopy(p) ==
    ~p.DeleteSrc \/ p.SrcFQN \notin SameMpath

\* As Mismatch, but a caller without a checksum is taken to have given one.
MismatchOfNil(given, computed) ==
    computed # NoCksum /\ given # computed

\* The caller's checksum and the one Promote computed are both there and
\* differ.
Mismatch(given, computed) ==
    /\ given # NoCksum /\ computed # NoCksum
    /\ given # computed

\* The work file is ready: compare the checksums and go on to finalize.
Prepared(c, workFQN, lomCksum, computed) ==
    IF Mismatch(call[c].p.Cksum, computed)
    THEN Return(c, "err")
    ELSE call' = [call EXCEPT ![c].pc = "finalize", ![c].workFQN = workFQN,
                              ![c].cksum = lomCksum]

\* cos.CopyFile copies the source to a fresh work file and checksums it.
\* Promote returns on its error without a look at the work path: CopyFile,
\* which is not among the sources, is taken to leave no file when it fails.
CopyToWork(c) ==
    LET s == call[c].p.SrcFQN
    IN  /\ call[c].pc = "prepare"
        /\ extraCopy(call[c].p)
        /\ \/ /\ file[s] # NoFile
              /\ work' = [work EXCEPT ![c] = file[s]]
              /\ Prepared(c, "work", CksumOf(file[s]), CksumOf(file[s]))
              /\ UNCHANGED faults
           \/ /\ Fails(file[s] = NoFile)
              /\ Return(c, "err")
              /\ UNCHANGED work
        /\ UNCHANGED <<file, obj, promoted>>

\* As SourceCksum, but the checksum ComputeCksum reads is not put into the LOM.
SourceCksumNotSet(p) ==
    p.Cksum

\* The checksum of a source that serves as the work file: the caller's if
\* there is one, else the one ComputeCksum reads from the file.
SourceCksum(p) ==
    IF p.Cksum # NoCksum THEN p.Cksum ELSE CksumOf(file[p.SrcFQN])

\* The source is the work file: os.Stat finds it and the LOM gets its
\* checksum; only a checksum that was computed here is there to compare.
UseSource(c) ==
    LET p == call[c].p
        s == p.SrcFQN
        computed == IF p.Cksum = NoCksum THEN SourceCksum(p) ELSE NoCksum
    IN  /\ call[c].pc = "prepare"
        /\ ~extraCopy(p)
        /\ \/ /\ file[s] # NoFile
              /\ Prepared(c, "src", SourceCksum(p), computed)
              /\ UNCHANGED faults
           \/ /\ Fails(file[s] = NoFile)
              /\ Return(c, "err")
        /\ UNCHANGED <<file, work, obj, promoted>>

\* putObjInfo.finalize renames the work file to the final path and stores the
\* LOM's checksum with it.
finalize(content, cksum) ==
    obj' = [content |-> content, cksum |-> cksum]

\* finalize, and the removal of the source after it.  A finalize that fails
\* removes its work file (written specification 4.3, step 6; finalize is not
\* among the sources), which is the source itself when no copy was made.
Finalize(c) ==
    LET p == call[c].p
        s == p.SrcFQN
        inPlace == call[c].workFQN = "src"
        content == IF inPlace THEN file[s] ELSE work[c]
    IN  /\ call[c].pc = "finalize"
        /\ \/ /\ content # NoFile
              /\ finalize(content, call[c].cksum)
              /\ file' = IF inPlace \/ p.DeleteSrc THEN Remove(s) ELSE file
              /\ promoted' = promoted \cup {s}
              /\ Return(c, "lom")
              /\ UNCHANGED faults
           \/ /\ Fails(content = NoFile)
              /\ file' = IF inPlace THEN Remove(s) ELSE file
              /\ Return(c, "err")
              /\ UNCHANGED <<obj, promoted>>
        /\ work' = [work EXCEPT ![c] = NoFile]

-----------------------------------------------------------------------------
(* The other calls that write or remove the object *)

\* PutObject streams a reader to a work file and installs it; the caller's
\* checksum is compared unless the object is put by a client.
PutObject(c) ==
    /\ call[c].pc = "idle"
    /\ \E r \in Contents, owt \in {OwtPut, OwtMigrate},
          given \in Cksums \cup {NoCksum} :
        LET cksumToUse == IF owt # OwtPut THEN given ELSE NoCksum
        IN  \/ /\ ~Mismatch(cksumToUse, CksumOf(r))
               /\ finalize(r, CksumOf(r))
               /\ Return(c, "nil")
               /\ UNCHANGED faults
            \/ /\ Mismatch(cksumToUse, CksumOf(r))
               /\ Return(c, "err")
               /\ UNCHANGED <<obj, faults>>
            \/ Fault /\ Return(c, "err") /\ UNCHANGED obj
    /\ UNCHANGED <<file, work, promoted>>

\* FinalizeObj installs a work file its caller has written.
FinalizeObj(c) ==
    /\ call[c].pc = "idle"
    /\ \E x \in Contents :
        \/ finalize(x, CksumOf(x)) /\ Return(c, "nil") /\ UNCHANGED faults
        \/ Fault /\ Return(c, "err") /\ UNCHANGED obj
    /\ UNCHANGED <<file, work, promoted>>

\* EvictObject removes the object from the cluster.
EvictObject(c) ==
    /\ call[c].pc = "idle"
    /\ \/ obj # NoObject /\ obj' = NoObject /\ Return(c, "nil")
       \/ obj = NoObject /\ Return(c, "err") /\ UNCHANGED obj
    /\ UNCHANGED <<file, work, promoted, faults>>

-----------------------------------------------------------------------------

PromoteInit ==
    /\ file = Original
    /\ work = [c \in Callers |-> NoFile]
    /\ obj = NoObject
    /\ promoted = {}
    /\ call = [c \in Callers |-> Idle]
    /\ faults = 0

PromoteNext ==
    \E c \in Callers :
        \/ PromoteBegin(c)
        \/ PutRemote(c)
        \/ CopyToWork(c)
        \/ UseSource(c)
        \/ Finalize(c)
        \/ PutObject(c)
        \/ FinalizeObj(c)
        \/ EvictObject(c)

PromoteSpec == PromoteInit /\ [][PromoteNext]_pvars


-----------------------------------------------------------------------------

PromotePc == {"idle", "remote", "prepare", "finalize", "done"}

(* Every variable keeps its type.  In particular the object installed at   *)
(* the final path always carries a checksum: on each of its branches       *)
(* Promote sets the LOM's checksum (SetCksum) before it calls finalize.    *)
PromoteTypeOK ==
    /\ file \in [Sources -> Contents \cup {NoFile}]
    /\ work \in [Callers -> Contents \cup {NoFile}]
    /\ obj \in Objects \cup {NoObject}
    /\ promoted \subseteq Sources
    /\ call \in [Callers -> [pc : PromotePc, p : Params \cup {NoParams},
                             workFQN : {"none", "work", "src"},
                             cksum : Cksums \cup {NoCksum},
                             res : {"none", "lom", "nil", "err"}]]
    /\ faults \in 0..MaxFaults

(* A source file changes only in a step of a Promote that was asked to     *)
(* delete it: without DeleteSrc, Promote copies the file and never takes   *)
(* it as its work file, which finalize would rename away (extraCopy).      *)
SourceKeptUnlessAsked ==
    [][\A s \in Sources : file'[s] # file[s] =>
          \E c \in Callers : /\ call'[c] # call[c]
                             /\ call[c].p.SrcFQN = s
                             /\ call[c].p.DeleteSrc]_pvars

(* A source file that is gone was installed as the object or sent to the   *)
(* owner, by some call, unless a Promote that had taken it as its work     *)
(* file failed in finalize: Promote removes the source only after putRemote *)
(* or finalize has succeeded.                                              *)
SourceGoneMeansPromoted ==
    \A s \in Sources : file[s] = NoFile =>
        \/ s \in promoted
        \/ \E c \in Callers : /\ call[c].p.SrcFQN = s
                              /\ call[c].workFQN = "src"
                              /\ call[c].res = "err"

(* A call that has returned has left a work file behind only if it failed  *)
(* because the checksum its caller gave is not the checksum of the file it *)
(* copied: Promote returns on the mismatch without removing the copy,      *)
(* every other exit after the copy goes through finalize, which installs   *)
(* the work file or removes it.                                            *)
WorkFileLeftOnlyByMismatch ==
    \A c \in Callers :
        call[c].pc = "done" /\ work[c] # NoFile =>
            /\ call[c].res = "err"
            /\ call[c].p.Cksum \notin {NoCksum, CksumOf(work[c])}

(* A Promote that was not asked to overwrite installs its file only where  *)
(* there is no object: "if the destination exists and overwrite is false,  *)
(* return success-with-no-op".  This is about the look at the destination  *)
(* at the head of Promote, which is taken without a lock, and the finalize *)
(* that acts on it later.                                                  *)
NoOverwriteUnlessAsked ==
    [][\A c \in Callers :
          call[c].pc = "finalize" /\ call'[c].res = "lom" =>
              obj = NoObject \/ call[c].p.OverwriteDst]_pvars

=============================================================================

------------------------------- MODULE Pivot --------------------------------
(***************************************************************************)
(* pivot.Do in the children of several `myrun run` at once.  Each child has*)
(* a mount namespace of its own, a copy of the host's, but the directory   *)
(* .pivot_old it makes in its root file system is a file like any other:   *)
(* children on one plain directory share it, a child on an overlay does    *)
(* not.                                                                    *)
(*                                                                         *)
(* Any system call may fail, and a child may be killed between two of them.*)
(* A mount goes with the last process of its namespace.  The kernel lets   *)
(* rmdir take a directory on which another namespace has a mount, and      *)
(* detaches that mount.                                                    *)
(***************************************************************************)
EXTENDS FiniteSets

CONSTANTS
  Children,   \* children that run pivot.Do
  Dirs,       \* root file systems
  Rootfs      \* the one each child was given

ASSUME PivotAssumption == Rootfs \in [Children -> Dirs]

VARIABLES
  relative,   \* directories named by a relative path on the command line
  pc,         \* the system call a child is about to make, or how it ended
  at,         \* the call at which it failed or was killed; "remove" if
              \* pivot_root failed and then the removal of the stub as well
  fault,      \* a system call of the child failed for a reason of its own
  private,    \* its mounts do not propagate
  old,        \* what the host's root is to it: "root", "held", "detached"
  proc,       \* it has mounted /proc
  stub,       \* directories that hold a .pivot_old
  leaked      \* children with a mount in the host's namespace

vars == <<relative, pc, at, fault, private, old, proc, stub, leaked>>

Calls == {"private", "bind", "mkdir", "chdir", "pivot", "chroot", "umount",
          "rmdir", "proc"}
Ended == {"done", "failed", "dead"}

TypeOK ==
  /\ relative \subseteq Dirs
  /\ pc \in [Children -> Calls \cup Ended]
  /\ at \in [Children -> Calls \cup {"none", "remove"}]
  /\ fault \in [Children -> BOOLEAN]
  /\ private \in [Children -> BOOLEAN]
  /\ old \in [Children -> {"root", "held", "detached"}]
  /\ proc \in [Children -> BOOLEAN]
  /\ stub \subseteq Dirs
  /\ leaked \subseteq Children
  /\ \A c \in Children : pc[c] \notin {"private", "failed", "dead"} => private[c]

Init ==
  /\ relative \in SUBSET Dirs
  /\ pc = [c \in Children |-> "private"]
  /\ at = [c \in Children |-> "none"]
  /\ fault = [c \in Children |-> FALSE]
  /\ private = [c \in Children |-> FALSE]
  /\ old = [c \in Children |-> "root"]
  /\ proc = [c \in Children |-> FALSE]
  /\ stub = {}
  /\ leaked = {}

\* Mutant: .pivot_old is made beside the root file systems, for all of them.
PutOldCommon(c) == CHOOSE d \in Dirs : TRUE

\* The directory in which c makes .pivot_old.
PutOld(c) == Rootfs[c]

Goto(c, a, b) == pc[c] = a /\ pc' = [pc EXCEPT ![c] = b]

\* Do returns the error of call a; own tells whether the call failed by itself.
Fail(c, a, own) ==
  /\ Goto(c, a, "failed")
  /\ at' = [at EXCEPT ![c] = a]
  /\ fault' = [fault EXCEPT ![c] = @ \/ own]

\* A mount in c's namespace reaches the host's unless c's is private.
Propagate(c) == leaked' = IF private[c] THEN leaked ELSE leaked \cup {c}

\* Mutant: an error of the first mount is only logged.
MakePrivateFailsLogged(c) ==
  /\ Goto(c, "private", "bind")
  /\ UNCHANGED <<relative, at, fault, private, old, proc, stub, leaked>>

MakePrivate(c) ==
  /\ Goto(c, "private", "bind")
  /\ private' = [private EXCEPT ![c] = TRUE]
  /\ UNCHANGED <<relative, at, fault, old, proc, stub, leaked>>

MakePrivateFails(c) ==
  Fail(c, "private", TRUE) /\ UNCHANGED <<relative, private, old, proc, stub, leaked>>

BindRoot(c) ==
  /\ Goto(c, "bind", "mkdir")
  /\ Propagate(c)
  /\ UNCHANGED <<relative, at, fault, private, old, proc, stub>>

BindRootFails(c) ==
  Fail(c, "bind", TRUE) /\ UNCHANGED <<relative, private, old, proc, stub, leaked>>

\* MkdirAll: a stub that is there already will do.
MakeStub(c) ==
  /\ Goto(c, "mkdir", "chdir")
  /\ stub' = stub \cup {PutOld(c)}
  /\ UNCHANGED <<relative, at, fault, private, old, proc, leaked>>

MakeStubFails(c) ==
  Fail(c, "mkdir", TRUE) /\ UNCHANGED <<relative, private, old, proc, stub, leaked>>

EnterRoot(c) ==
  /\ Goto(c, "chdir", "pivot")
  /\ UNCHANGED <<relative, at, fault, private, old, proc, stub, leaked>>

EnterRootFails(c) ==
  Fail(c, "chdir", TRUE) /\ UNCHANGED <<relative, private, old, proc, stub, leaked>>

\* rmdir of the stub in d by c: whoever else holds its old root there loses it.
RemoveStub(c, d) ==
  /\ stub' = stub \ {d}
  /\ old' = [e \in Children |->
               IF e # c /\ old[e] = "held" /\ PutOld(e) = d THEN "detached"
               ELSE old[e]]

PivotRoot(c) ==
  /\ PutOld(c) \in stub
  /\ Goto(c, "pivot", "chroot")
  /\ old' = [old EXCEPT ![c] = "held"]
  /\ UNCHANGED <<relative, at, fault, private, proc, stub, leaked>>

\* Mutant: where pivot_root is refused a chroot will do.
PivotRootFailsChroot(c) ==
  /\ Goto(c, "pivot", "proc")
  /\ UNCHANGED <<relative, at, fault, private, old, proc, stub, leaked>>

\* Mutant: the placeholder is left where it is.
PivotRootFailsLittering(c) ==
  /\ Fail(c, "pivot", PutOld(c) \in stub)
  /\ UNCHANGED <<relative, private, old, proc, stub, leaked>>

\* pivot_root refuses, or the stub is gone.  Do removes the stub by the path
\* it was given, which after the chdir names it only if it is absolute.
PivotRootFails(c) ==
  /\ Fail(c, "pivot", PutOld(c) \in stub)
  /\ IF Rootfs[c] \in relative THEN UNCHANGED <<old, stub>>
     ELSE RemoveStub(c, PutOld(c))
  /\ UNCHANGED <<relative, private, proc, leaked>>

\* The same, and that removal fails by itself: Do drops its error.
PivotRootFailsStubStays(c) ==
  /\ Rootfs[c] \notin relative
  /\ Goto(c, "pivot", "failed")
  /\ at' = [at EXCEPT ![c] = "remove"]
  /\ fault' = [fault EXCEPT ![c] = @ \/ PutOld(c) \in stub]
  /\ UNCHANGED <<relative, private, old, proc, stub, leaked>>

\* chroot(".") and chdir("/").
ChangeRoot(c) ==
  /\ Goto(c, "chroot", "umount")
  /\ UNCHANGED <<relative, at, fault, private, old, proc, stub, leaked>>

ChangeRootFails(c) ==
  Fail(c, "chroot", TRUE) /\ UNCHANGED <<relative, private, old, proc, stub, leaked>>

\* MNT_DETACH of what is mounted on the stub.
DetachOld(c) ==
  /\ PutOld(c) \in stub /\ old[c] = "held"
  /\ Goto(c, "umount", "rmdir")
  /\ old' = [old EXCEPT ![c] = "detached"]
  /\ UNCHANGED <<relative, at, fault, private, proc, stub, leaked>>

\* umount fails, for want of a mount or by itself.
DetachOldFails(c) ==
  /\ Fail(c, "umount", PutOld(c) \in stub /\ old[c] = "held")
  /\ UNCHANGED <<relative, private, old, proc, stub, leaked>>

\* The kernel refuses to remove a mount point of c's own namespace.
RemoveOld(c) ==
  /\ PutOld(c) \in stub /\ old[c] # "held"
  /\ Goto(c, "rmdir", "proc")
  /\ RemoveStub(c, PutOld(c))
  /\ UNCHANGED <<relative, at, fault, private, proc, leaked>>

\* The stub is gone, or it is busy, or rmdir fails by itself; either way Do returns an error.
RemoveOldFails(c) ==
  /\ Fail(c, "rmdir", PutOld(c) \in stub)
  /\ UNCHANGED <<relative, private, old, proc, stub, leaked>>

MountProc(c) ==
  /\ Goto(c, "proc", "done")
  /\ proc' = [proc EXCEPT ![c] = TRUE]
  /\ Propagate(c)
  /\ UNCHANGED <<relative, at, fault, private, old, stub>>

MountProcFails(c) ==
  Fail(c, "proc", TRUE) /\ UNCHANGED <<relative, private, old, proc, stub, leaked>>

\* The child is killed: its namespace goes, and its mounts with it.
Killed(c) ==
  /\ pc[c] \in Calls
  /\ pc' = [pc EXCEPT ![c] = "dead"]
  /\ at' = [at EXCEPT ![c] = pc[c]]
  /\ old' = [old EXCEPT ![c] = "detached"]
  /\ UNCHANGED <<relative, fault, private, proc, stub, leaked>>

Do(c) ==
  \/ MakePrivate(c) \/ MakePrivateFails(c) \/ BindRoot(c) \/ BindRootFails(c)
  \/ MakeStub(c) \/ MakeStubFails(c) \/ EnterRoot(c) \/ EnterRootFails(c)
  \/ PivotRoot(c) \/ PivotRootFails(c) \/ PivotRootFailsStubStays(c)
  \/ ChangeRoot(c) \/ ChangeRootFails(c)
  \/ DetachOld(c) \/ DetachOldFails(c) \/ RemoveOld(c) \/ RemoveOldFails(c)
  \/ MountProc(c) \/ MountProcFails(c)

AllEnded == (\A c \in Children : pc[c] \in Ended) /\ UNCHANGED vars

Next == (\E c \in Children : Do(c) \/ Killed(c)) \/ AllEnded

Spec == Init /\ [][Next]_vars

(***************************************************************************)
(* Properties.                                                             *)
(***************************************************************************)

\* A container whose Do returned nil has no path back to the host: its old
\* root is detached, whatever the children that share its directory did in
\* between, and /proc is its own.
HostUnreachable ==
  \A c \in Children : pc[c] = "done" => old[c] = "detached" /\ proc[c]

\* "rprivate / so nothing we do below leaks back": however far a child gets
\* before it fails, the host's mount table stays as it was.
HostMountsKept == leaked = {}

\* Only children on the same directory get in each other's way: one that has
\* its root file system for itself (every overlay) fails by its own system
\* calls only.
OwnRootUndisturbed ==
  \A c \in Children :
    pc[c] = "failed" /\ (\A e \in Children \ {c} : Rootfs[e] # Rootfs[c])
      => fault[c]

\* The child left no .pivot_old, or does not know of one it left.
Tidy(c) ==
  \/ pc[c] = "done"
  \/ pc[c] \in {"failed", "dead"} /\ at[c] \in {"private", "bind", "mkdir", "proc"}
  \/ pc[c] = "failed" /\ at[c] = "pivot" /\ Rootfs[c] \notin relative

\* A root file system is left without .pivot_old by children that end well,
\* fail before they make it, or fail in pivot_root on an absolute path and can
\* remove it ("so the rootfs isn't left littered on a failed pivot"), in any
\* interleaving.  Not so by one whose removal fails, whose path is relative
\* (the default: the code then removes another name), or that fails or is
\* killed at any other call in between.
NoLitter ==
  \A d \in Dirs :
    (\A c \in Children : Rootfs[c] = d => Tidy(c)) => d \notin stub
=============================================================================

---------------------------- MODULE PivotProofs -----------------------------
(***************************************************************************)
(* Safety of Pivot, for any number of children on any directories.         *)
(*                                                                         *)
(* What a child finds when it makes a call depends on the others on its    *)
(* directory: its stub may be gone, and with it the mount of its old root. *)
(* Progress says what it can still rely on, Owned who answers for a stub.  *)
(***************************************************************************)
EXTENDS Pivot, TLAPS

\* Nobody else was given the root file system of c.
Alone(c) == \A e \in Children \ {c} : Rootfs[e] # Rootfs[c]

\* From the mkdir to the rmdir of the stub.
HasStub == {"chdir", "pivot", "chroot", "umount", "rmdir"}

Progress(c) ==
  /\ pc[c] \in {"rmdir", "proc", "done"} => old[c] = "detached"
  /\ pc[c] = "done" => proc[c]
  /\ Alone(c) =>
       /\ pc[c] \in HasStub => PutOld(c) \in stub
       /\ pc[c] \in {"chroot", "umount"} => old[c] = "held"
       /\ pc[c] = "failed" => fault[c]

\* c has made the stub of its directory, and has not removed it: it is still
\* busy, or it has ended in between without going back.
Answers(c) ==
  \/ pc[c] \in HasStub
  \/ pc[c] = "dead" /\ at[c] \in HasStub
  \/ pc[c] = "failed" /\ at[c] \in HasStub \cup {"remove"}
       /\ (at[c] = "pivot" => Rootfs[c] \in relative)

Owned == \A d \in stub : \E c \in Children : Rootfs[c] = d /\ Answers(c)

IInv ==
  /\ TypeOK
  /\ leaked = {}
  /\ \A c \in Children : Progress(c)
  /\ Owned

USE PivotAssumption

LEMMA InitIInv == Init => IInv
  BY DEF Init, IInv, TypeOK, Progress, Owned, HasStub, Calls, Ended

LEMMA TypeStep ==
  ASSUME TypeOK, leaked = {}, [Next]_vars
  PROVE  TypeOK' /\ leaked' = {}
<1> USE DEF TypeOK, Calls, Ended, Goto, Fail, Propagate
<1>1. ASSUME NEW c \in Children, Do(c) PROVE TypeOK' /\ leaked' = {}
  <2> USE <1>1 DEF PutOld
  <2>1. CASE MakePrivate(c) BY <2>1 DEF MakePrivate
  <2>2. CASE MakePrivateFails(c) BY <2>2 DEF MakePrivateFails
  <2>3. CASE BindRoot(c) BY <2>3 DEF BindRoot
  <2>4. CASE BindRootFails(c) BY <2>4 DEF BindRootFails
  <2>5. CASE MakeStub(c) BY <2>5 DEF MakeStub
  <2>6. CASE MakeStubFails(c) BY <2>6 DEF MakeStubFails
  <2>7. CASE EnterRoot(c) BY <2>7 DEF EnterRoot
  <2>8. CASE EnterRootFails(c) BY <2>8 DEF EnterRootFails
  <2>9. CASE PivotRoot(c) BY <2>9 DEF PivotRoot
  <2>10. CASE PivotRootFails(c) BY <2>10 DEF PivotRootFails, RemoveStub
  <2>11. CASE PivotRootFailsStubStays(c) BY <2>11 DEF PivotRootFailsStubStays
  <2>12. CASE ChangeRoot(c) BY <2>12 DEF ChangeRoot
  <2>13. CASE ChangeRootFails(c) BY <2>13 DEF ChangeRootFails
  <2>14. CASE DetachOld(c) BY <2>14 DEF DetachOld
  <2>15. CASE DetachOldFails(c) BY <2>15 DEF DetachOldFails
  <2>16. CASE RemoveOld(c) BY <2>16 DEF RemoveOld, RemoveStub
  <2>17. CASE RemoveOldFails(c) BY <2>17 DEF RemoveOldFails
  <2>18. CASE MountProc(c) BY <2>18 DEF MountProc
  <2>19. CASE MountProcFails(c) BY <2>19 DEF MountProcFails
  <2>20. QED
    BY <2>1, <2>2, <2>3, <2>4, <2>5, <2>6, <2>7, <2>8, <2>9, <2>10,
       <2>11, <2>12, <2>13, <2>14, <2>15, <2>16, <2>17, <2>18, <2>19 DEF Do
<1>2. ASSUME NEW c \in Children, Killed(c) PROVE TypeOK' /\ leaked' = {}
  BY <1>2 DEF Killed
<1>3. CASE UNCHANGED vars
  BY <1>3 DEF vars
<1>4. QED
  BY <1>1, <1>2, <1>3 DEF Next, AllEnded

\* What a step of c can do to another child e: nothing but remove the stub of
\* the directory they share, and with it the mount of e's old root.
LEMMA OthersKeep ==
  ASSUME TypeOK, NEW c \in Children, NEW e \in Children \ {c},
         Do(c) \/ Killed(c)
  PROVE  /\ relative' = relative
         /\ pc'[e] = pc[e] /\ at'[e] = at[e] /\ fault'[e] = fault[e]
         /\ proc'[e] = proc[e]
         /\ Rootfs[e] # Rootfs[c] \/ old[e] # "held" => old'[e] = old[e]
         /\ stub' \ {Rootfs[c]} = stub \ {Rootfs[c]}
<1> USE DEF TypeOK, Goto, Fail, PutOld
<1>1. CASE Killed(c)
  BY <1>1 DEF Killed
<1>2. CASE Do(c)
  <2>1. CASE MakePrivate(c) BY <2>1 DEF MakePrivate
  <2>2. CASE MakePrivateFails(c) BY <2>2 DEF MakePrivateFails
  <2>3. CASE BindRoot(c) BY <2>3 DEF BindRoot
  <2>4. CASE BindRootFails(c) BY <2>4 DEF BindRootFails
  <2>5. CASE MakeStub(c) BY <2>5 DEF MakeStub
  <2>6. CASE MakeStubFails(c) BY <2>6 DEF MakeStubFails
  <2>7. CASE EnterRoot(c) BY <2>7 DEF EnterRoot
  <2>8. CASE EnterRootFails(c) BY <2>8 DEF EnterRootFails
  <2>9. CASE PivotRoot(c) BY <2>9 DEF PivotRoot
  <2>10. CASE PivotRootFails(c) BY <2>10 DEF PivotRootFails, RemoveStub
  <2>11. CASE PivotRootFailsStubStays(c) BY <2>11 DEF PivotRootFailsStubStays
  <2>12. CASE ChangeRoot(c) BY <2>12 DEF ChangeRoot
  <2>13. CASE ChangeRootFails(c) BY <2>13 DEF ChangeRootFails
  <2>14. CASE DetachOld(c) BY <2>14 DEF DetachOld
  <2>15. CASE DetachOldFails(c) BY <2>15 DEF DetachOldFails
  <2>16. CASE RemoveOld(c) BY <2>16 DEF RemoveOld, RemoveStub
  <2>17. CASE RemoveOldFails(c) BY <2>17 DEF RemoveOldFails
  <2>18. CASE MountProc(c) BY <2>18 DEF MountProc
  <2>19. CASE MountProcFails(c) BY <2>19 DEF MountProcFails
  <2>20. QED
    BY <1>2, <2>1, <2>2, <2>3, <2>4, <2>5, <2>6, <2>7, <2>8, <2>9, <2>10,
       <2>11, <2>12, <2>13, <2>14, <2>15, <2>16, <2>17, <2>18, <2>19 DEF Do
<1>3. QED
  BY <1>1, <1>2

\* The child that makes the step makes progress itself.
LEMMA OwnProgress ==
  ASSUME TypeOK, NEW c \in Children, Progress(c), Do(c) \/ Killed(c)
  PROVE  Progress(c)'
<1> USE DEF TypeOK, Goto, Fail, PutOld, Progress, HasStub, Alone
<1>1. CASE Killed(c)
  BY <1>1 DEF Killed, Calls
<1>2. CASE Do(c)
  <2>1. CASE MakePrivate(c) BY <2>1 DEF MakePrivate
  <2>2. CASE MakePrivateFails(c) BY <2>2 DEF MakePrivateFails
  <2>3. CASE BindRoot(c) BY <2>3 DEF BindRoot
  <2>4. CASE BindRootFails(c) BY <2>4 DEF BindRootFails
  <2>5. CASE MakeStub(c) BY <2>5 DEF MakeStub
  <2>6. CASE MakeStubFails(c) BY <2>6 DEF MakeStubFails
  <2>7. CASE EnterRoot(c) BY <2>7 DEF EnterRoot
  <2>8. CASE EnterRootFails(c) BY <2>8 DEF EnterRootFails
  <2>9. CASE PivotRoot(c) BY <2>9 DEF PivotRoot
  <2>10. CASE PivotRootFails(c) BY <2>10 DEF PivotRootFails, RemoveStub
  <2>11. CASE PivotRootFailsStubStays(c) BY <2>11 DEF PivotRootFailsStubStays
  <2>12. CASE ChangeRoot(c) BY <2>12 DEF ChangeRoot
  <2>13. CASE ChangeRootFails(c) BY <2>13 DEF ChangeRootFails
  <2>14. CASE DetachOld(c) BY <2>14 DEF DetachOld
  <2>15. CASE DetachOldFails(c) BY <2>15 DEF DetachOldFails
  <2>16. CASE RemoveOld(c) BY <2>16 DEF RemoveOld, RemoveStub
  <2>17. CASE RemoveOldFails(c) BY <2>17 DEF RemoveOldFails
  <2>18. CASE MountProc(c) BY <2>18 DEF MountProc
  <2>19. CASE MountProcFails(c) BY <2>19 DEF MountProcFails
  <2>20. QED
    BY <1>2, <2>1, <2>2, <2>3, <2>4, <2>5, <2>6, <2>7, <2>8, <2>9, <2>10,
       <2>11, <2>12, <2>13, <2>14, <2>15, <2>16, <2>17, <2>18, <2>19 DEF Do
<1>3. QED
  BY <1>1, <1>2

LEMMA ProgressStep ==
  ASSUME TypeOK, \A c \in Children : Progress(c), [Next]_vars
  PROVE  \A c \in Children : Progress(c)'
<1>1. ASSUME NEW c \in Children, Do(c) \/ Killed(c), NEW e \in Children
      PROVE  Progress(e)'
  <2>1. CASE e = c
    BY <1>1, <2>1, OwnProgress
  <2>2. CASE e # c
    BY <1>1, <2>2, OthersKeep DEF Progress, Alone, HasStub, PutOld
  <2>3. QED
    BY <2>1, <2>2
<1>2. CASE UNCHANGED vars
  BY <1>2 DEF vars, Progress, PutOld, Alone
<1>3. QED
  BY <1>1, <1>2 DEF Next, AllEnded

\* A child answers for its stub until it has removed it itself; the one that
\* makes a stub answers for it.
LEMMA OwnAnswer ==
  ASSUME TypeOK, NEW c \in Children, Do(c) \/ Killed(c)
  PROVE  /\ Answers(c) => Answers(c)' \/ Rootfs[c] \notin stub'
         /\ \/ stub' \subseteq stub
            \/ stub' = stub \cup {Rootfs[c]} /\ Answers(c)'
<1> USE DEF TypeOK, Goto, Fail, PutOld, Answers, HasStub
<1>1. CASE Killed(c)
  BY <1>1 DEF Killed, Calls
<1>2. CASE Do(c)
  <2>1. CASE MakePrivate(c) BY <2>1 DEF MakePrivate
  <2>2. CASE MakePrivateFails(c) BY <2>2 DEF MakePrivateFails
  <2>3. CASE BindRoot(c) BY <2>3 DEF BindRoot
  <2>4. CASE BindRootFails(c) BY <2>4 DEF BindRootFails
  <2>5. CASE MakeStub(c) BY <2>5 DEF MakeStub
  <2>6. CASE MakeStubFails(c) BY <2>6 DEF MakeStubFails
  <2>7. CASE EnterRoot(c) BY <2>7 DEF EnterRoot
  <2>8. CASE EnterRootFails(c) BY <2>8 DEF EnterRootFails
  <2>9. CASE PivotRoot(c) BY <2>9 DEF PivotRoot
  <2>10. CASE PivotRootFails(c) BY <2>10 DEF PivotRootFails, RemoveStub
  <2>11. CASE PivotRootFailsStubStays(c) BY <2>11 DEF PivotRootFailsStubStays
  <2>12. CASE ChangeRoot(c) BY <2>12 DEF ChangeRoot
  <2>13. CASE ChangeRootFails(c) BY <2>13 DEF ChangeRootFails
  <2>14. CASE DetachOld(c) BY <2>14 DEF DetachOld
  <2>15. CASE DetachOldFails(c) BY <2>15 DEF DetachOldFails
  <2>16. CASE RemoveOld(c) BY <2>16 DEF RemoveOld, RemoveStub
  <2>17. CASE RemoveOldFails(c) BY <2>17 DEF RemoveOldFails
  <2>18. CASE MountProc(c) BY <2>18 DEF MountProc
  <2>19. CASE MountProcFails(c) BY <2>19 DEF MountProcFails
  <2>20. QED
    BY <1>2, <2>1, <2>2, <2>3, <2>4, <2>5, <2>6, <2>7, <2>8, <2>9, <2>10,
       <2>11, <2>12, <2>13, <2>14, <2>15, <2>16, <2>17, <2>18, <2>19 DEF Do
<1>3. QED
  BY <1>1, <1>2

LEMMA OwnedStep ==
  ASSUME TypeOK, Owned, [Next]_vars
  PROVE  Owned'
<1>1. ASSUME NEW c \in Children, Do(c) \/ Killed(c), NEW d \in stub'
      PROVE  \E e \in Children : Rootfs[e] = d /\ Answers(e)'
  <2>1. CASE d \in stub
    <3>1. PICK e \in Children : Rootfs[e] = d /\ Answers(e)
      BY <2>1 DEF Owned
    <3>2. CASE e = c
      BY <1>1, <3>1, <3>2, OwnAnswer
    <3>3. CASE e # c
      BY <1>1, <3>1, <3>3, OthersKeep DEF Answers
    <3>4. QED
      BY <3>2, <3>3
  <2>2. CASE d \notin stub
    BY <1>1, <2>2, OwnAnswer
  <2>3. QED
    BY <2>1, <2>2
<1>2. CASE UNCHANGED vars
  BY <1>2 DEF vars, Owned, Answers
<1>3. QED
  BY <1>1, <1>2 DEF Next, AllEnded, Owned

LEMMA StepIInv == IInv /\ [Next]_vars => IInv'
  BY TypeStep, ProgressStep, OwnedStep DEF IInv

\* The invariant on which the theorems below rest.
THEOREM Invariance == Spec => []IInv
<1>1. Init => IInv
  BY InitIInv
<1>2. IInv /\ [Next]_vars => IInv'
  BY StepIInv
<1>3. QED
  BY <1>1, <1>2, PTL DEF Spec

(***************************************************************************)
(* The theorems.                                                           *)
(***************************************************************************)

\* Every variable has its type, and a child has made its mounts private
\* before it mounts anything.
THEOREM TypeCorrect == Spec => []TypeOK
<1>1. IInv => TypeOK
  BY DEF IInv
<1>2. QED
  BY <1>1, Invariance, PTL

\* Do returns nil only to a child that has lost its way back to the host.
THEOREM Isolation == Spec => []HostUnreachable
<1>1. IInv => HostUnreachable
  BY DEF IInv, Progress, HostUnreachable
<1>2. QED
  BY <1>1, Invariance, PTL

\* No mount of a child's shows on the host, however the child ends.
THEOREM NothingLeaks == Spec => []HostMountsKept
<1>1. IInv => HostMountsKept
  BY DEF IInv, HostMountsKept
<1>2. QED
  BY <1>1, Invariance, PTL

\* A child on an overlay of its own is not disturbed by the others.
THEOREM Undisturbed == Spec => []OwnRootUndisturbed
<1>1. IInv => OwnRootUndisturbed
  BY DEF IInv, Progress, Alone, OwnRootUndisturbed
<1>2. QED
  BY <1>1, Invariance, PTL

\* Whoever finds a .pivot_old finds a child that is at work, or one of those
\* ends of Do that leave it behind: a failed removal is one of them, and a
\* failed pivot_root on a relative path.
THEOREM LitterExplained == Spec => []NoLitter
<1>1. IInv => NoLitter
  BY DEF IInv, TypeOK, Owned, Answers, HasStub, NoLitter, Tidy, Calls, Ended
<1>2. QED
  BY <1>1, Invariance, PTL
=============================================================================

----------------------------- MODULE AllowLists -----------------------------
(* DefaultAllowList of the two architectures myrun builds for, in the      *)
(* order of the source, with runs of consecutive numbers written Run(a, b).*)
EXTENDS Naturals, Sequences, Functions

Run(a, b) == [i \in 1..(b - a + 1) |-> a + i - 1]

AllowListAmd64 ==
  Run(0, 28) \o Run(32, 63) \o Run(72, 97) \o <<99, 100, 102>>
    \o Run(104, 121) \o Run(124, 132) \o <<137, 138, 186>>
    \o Run(201, 204) \o <<217, 218>> \o Run(228, 233) \o <<257>>
    \o Run(262, 264) \o Run(267, 274) \o <<281, 284, 288>>
    \o Run(290, 293) \o <<302, 309, 318, 332, 435, 439>>

AllowListArm64 ==
  <<17>> \o Run(19, 26) \o <<29>> \o Run(32, 38) \o <<40>> \o Run(43, 57)
    \o <<59>> \o Run(61, 68) \o <<72, 73>> \o Run(78, 80) \o <<82, 83, 88>>
    \o <<90, 91>> \o Run(93, 95) \o Run(98, 101) \o Run(113, 115)
    \o Run(118, 120) \o Run(122, 124) \o Run(129, 132) \o Run(134, 139)
    \o <<153>> \o Run(155, 160) \o <<165, 166>> \o Run(172, 179)
    \o Run(198, 212) \o Run(214, 216) \o Run(220, 222)
    \o <<226, 233, 242, 261, 278, 281, 291, 435, 439>>

ExecveAmd64 == 59
ExecveArm64 == 221

\* What the theorems about SeccompFilter assume of an allow list.
ASSUME AllowListsShort ==
  /\ Len(AllowListAmd64) <= 255 /\ ExecveAmd64 \in Range(AllowListAmd64)
  /\ Len(AllowListArm64) <= 255 /\ ExecveArm64 \in Range(AllowListArm64)
=============================================================================

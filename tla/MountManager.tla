---------------------------- MODULE MountManager ----------------------------
(***************************************************************************)
(* The mount manager (internal/mount): Update goes through the configured  *)
(* mounts in order and mounts each device on its directory, after          *)
(* unmounting what was mounted there when Update began.                    *)
(*                                                                         *)
(* A place may be written in several ways: /mnt/data is also /mnt/data/.   *)
(* The mounts of a place are a stack, the last one first, as they are in   *)
(* the kernel; Update knows them from what it can read of the output of    *)
(* mount, by the directory written there.                                  *)
(***************************************************************************)
EXTENDS ObserverBus

CONSTANTS
  Devices,
  Directories, \* as they are written, in configurations and by mount
  Places,      \* what is mounted on
  Place,       \* the place of every directory
  Parsed       \* the directory GetMounts reads when a device is mounted on a
               \* place, None when it cannot parse the line

ASSUME MountsAssumption ==
  /\ \A c \in Configurations : c.mounts \in Seq([device : Devices, directory : Directories])
  /\ Place \in [Directories -> Places]
  /\ Parsed \in [Devices \X Places -> Directories \cup {None}]

VARIABLES
  mounts,        \* per place, the devices mounted on it
  currentMounts, \* the directories that were listed when Update began
  mounted,       \* alreadyMounted: the directories this Update mounted
  nextMount,     \* the next of the configured mounts, 0 before the first
  mountFailed    \* this Update, or the last one, reports an error

mountVars == <<mounts, currentMounts, mounted, nextMount, mountFailed>>

Stacks == {<<>>} \cup {<<d>> : d \in Devices} \cup {<<d, e>> : d, e \in Devices}

MountTypeOK ==
  /\ mounts \in [Places -> Seq(Devices)]
  /\ currentMounts \subseteq Directories
  /\ mounted \subseteq Directories
  /\ nextMount \in Nat
  /\ mountFailed \in BOOLEAN

\* Up to two devices are mounted on the places the script is about.
Named(c) == {Place[c.mounts[k].directory] : k \in DOMAIN c.mounts}
MountInit ==
  /\ mounts \in [Places -> Stacks]
  /\ \A p \in Places : mounts[p] # <<>> => p \in Named(memory)
  /\ currentMounts = {}
  /\ mounted = {} /\ nextMount = 0 /\ mountFailed = FALSE

MountsLeft == nextMount \in DOMAIN Conf.mounts

\* The errors of the mounts are collected.
Collect(failed) == mountFailed \/ failed

\* Update goes on with the next of the configured mounts.
Continue(failed) ==
  /\ nextMount' = nextMount + 1
  /\ mountFailed' = Collect(failed)
  /\ UNCHANGED <<proc, configVars, turn, todo, pods, eventVars, currentMounts>>

\* The map GetMounts returns: what is mounted, as far as mount's lines match.
Listing ==
  {d \in Directories : \E p \in Places : \E k \in DOMAIN mounts[p] :
     Parsed[<<mounts[p][k], p>>] = d}

GetMounts ==
  /\ Alive /\ turn = "mounts" /\ nextMount = 0
  /\ mounted' = {}
  /\ \/ /\ nextMount' = 1 /\ currentMounts' = Listing /\ mountFailed' = FALSE
        /\ UNCHANGED <<turn, faults>>
     \/ /\ Fault /\ turn' = "transfer" /\ mountFailed' = TRUE
        /\ UNCHANGED <<nextMount, currentMounts>>
  /\ UNCHANGED <<proc, configVars, todo, pods, eventVars, mounts>>

\* Mutation: the directories of this Update are not remembered.
MountedTwice(d) == FALSE

AlreadyMounted(d) == d \in mounted

\* The directory was mounted by this Update, or the mount is not valid.
SkipMount ==
  /\ Alive /\ turn = "mounts" /\ MountsLeft
  /\ IF AlreadyMounted(Conf.mounts[nextMount].directory) THEN UNCHANGED faults ELSE Fault
  /\ Continue(TRUE)
  /\ UNCHANGED <<mounts, mounted>>

\* Mutation: what is mounted there is not looked up.
NotLookedUp(d) == FALSE

Found(d) == d \in currentMounts

\* isEqual compares a type with a directory, so a mount that was listed is always
\* unmounted first.  There may be nothing left to unmount.
Mount ==
  LET m == Conf.mounts[nextMount]
      d == m.directory
      p == Place[d]
      below == IF mounts[p] = <<>> THEN <<>> ELSE Tail(mounts[p])
      base == IF Found(d) THEN below ELSE mounts[p]
      stuck == Found(d) /\ mounts[p] = <<>>
  IN /\ Alive /\ turn = "mounts" /\ MountsLeft
     /\ ~AlreadyMounted(d)
     /\ \/ /\ ~stuck
           /\ mounts' = [mounts EXCEPT ![p] = <<m.device>> \o base]
           /\ mounted' = mounted \cup {d}
           /\ Continue(FALSE) /\ UNCHANGED faults
        \/ /\ IF stuck THEN UNCHANGED faults ELSE Fault
           /\ mounts' \in {mounts, [mounts EXCEPT ![p] = base]}
           /\ Continue(TRUE) /\ UNCHANGED mounted

EndMounts ==
  /\ Alive /\ turn = "mounts" /\ nextMount > 0 /\ ~MountsLeft
  /\ nextMount' = 0
  /\ Pass("transfer")
  /\ UNCHANGED <<todo, pods, eventVars, faults, mounts, currentMounts, mounted, mountFailed>>

UpdateMounts == GetMounts \/ SkipMount \/ Mount \/ EndMounts

-----------------------------------------------------------------------------
(* Properties *)

OnlyName(d) ==
  \A k \in DOMAIN Conf.mounts :
    Place[Conf.mounts[k].directory] = Place[d] => Conf.mounts[k].directory = d
Shows(p, v) == mounts[p] # <<>> /\ Head(mounts[p]) = v

\* When Update reports no error every configured device is what its place shows,
\* whatever was mounted there, could be read of it and failed before, unless the
\* place is configured under another name too.  (mount.Manager.Update)
MountedAsConfigured ==
  turn = "transfer" /\ ~mountFailed =>
    \A k \in DOMAIN Conf.mounts :
      LET m == Conf.mounts[k]
      IN OnlyName(m.directory) => Shows(Place[m.directory], m.device)

\* The places that have one name, which is always read when they are listed.
Clear ==
  {p \in Places : \E d \in Directories :
     /\ \A x \in Directories : Place[x] = p => x = d
     /\ \A v \in Devices : Parsed[<<v, p>>] = d}

KeptDepth == \A p \in Clear : mounts[p] # <<>> => Len(mounts'[p]) <= Len(mounts[p])

\* On a place that is listed by its name nothing is mounted over a mount that
\* was there, though several mounts may name it and any may fail.  ("It helps to
\* avoid mounting the same directory twice", mount.go:60; mount.Manager.Update)
NothingMountedOver == [][KeptDepth]_mountVars
=============================================================================

---------------------------- MODULE ChromeFetch ----------------------------
(***************************************************************************)
(* How the language bindings come by a Chrome: ensure_chrome looks for one *)
(* on the machine and in the cache, downloads the pinned version if it may *)
(* and launches it.  Clients are calls of launch in any process of any     *)
(* user of the same cache; they meet only in the file system, on           *)
(* <version>.partial, the staging directory, and <version>, the            *)
(* destination.  A client can die at any point, and start anew.            *)
(*                                                                         *)
(* A removal works through an open directory, which a rename moves along;  *)
(* an open archive moves along as well.                                    *)
(***************************************************************************)
EXTENDS Naturals, FiniteSets

CONSTANTS
  Clients,
  Trusting,        \* clients with auto_download on
  LaunchAttempts   \* tries of a cold launch

ASSUME TrustingAssumption == Trusting \subseteq Clients
ASSUME LaunchAttemptsAssumption == LaunchAttempts \in Nat \ {0}

VARIABLES
  installed,  \* whether the machine has a Chrome of its own
  dirs,       \* which of the two directories exist
  holds,      \* per directory, its files
  stage,      \* per client, how far it is
  hand,       \* per client, the directory its removal is open on
  archivers,  \* clients whose open file is the archive in staging
  todo,       \* per client, what it has still to extract
  tries,      \* per client, launches that failed
  source,     \* per client, where the path it was given comes from
  overlapped  \* history: whether two downloads were ever under way at once

\* "archive" is complete, "torn" is one being written.
Files == {"archive", "torn", "chrome", "libraries"}
Distribution == {"chrome", "libraries"}
Dirs == {"staging", "dest"}

disk == <<dirs, holds, hand, archivers>>
fetchVars == <<installed, disk, stage, todo, tries, source, overlapped>>

FetchInit ==
  /\ installed \in BOOLEAN
  /\ dirs = {}
  /\ holds = [d \in Dirs |-> {}]
  /\ stage = [f \in Clients |-> "idle"]
  /\ hand = [f \in Clients |-> "none"]
  /\ archivers = {}
  /\ todo = [f \in Clients |-> {}]
  /\ tries = [f \in Clients |-> 0]
  /\ source = [f \in Clients |-> "none"]
  /\ overlapped = FALSE

Downloading(f) ==
  stage[f] \in {"manifest", "checking", "staging", "sweeping", "making", "getting",
                "writing", "opening", "unpacking", "moving"}

Goes(f, to) == stage' = [stage EXCEPT ![f] = to]

\* The client has a path, of which it does not look whether it is there.
Given(f, from) ==
  /\ Goes(f, "launching")
  /\ source' = [source EXCEPT ![f] = from]
  /\ tries' = [tries EXCEPT ![f] = 0]

-----------------------------------------------------------------------------
(* ensure_chrome                                                           *)

Cached == "dest" \in dirs /\ "chrome" \in holds["dest"]

\* A path from the caller is taken as it is.
ChromePath(f) ==
  /\ stage[f] = "idle"
  /\ Given(f, "caller")
  /\ UNCHANGED <<installed, disk, todo, overlapped>>

Ensure(f) ==
  /\ stage[f] = "idle"
  /\ \/ installed /\ Given(f, "system") /\ UNCHANGED overlapped
     \/ ~installed /\ Cached /\ Given(f, "cache") /\ UNCHANGED overlapped
     \/ /\ ~installed /\ ~Cached /\ f \notin Trusting
        /\ Goes(f, "failed")
        /\ UNCHANGED <<source, tries, overlapped>>
     \/ /\ ~installed /\ ~Cached /\ f \in Trusting
        /\ Goes(f, "manifest")
        /\ overlapped' = (overlapped \/ \E g \in Clients : Downloading(g))
        /\ UNCHANGED <<source, tries>>
  /\ UNCHANGED <<installed, disk, todo>>

-----------------------------------------------------------------------------
(* download_chrome                                                         *)

Manifest(f) ==
  /\ stage[f] = "manifest"
  /\ Goes(f, "checking")
  /\ UNCHANGED <<installed, disk, todo, tries, source, overlapped>>

\* A destination that is there is taken for a Chrome.
CheckDestination(f) ==
  /\ stage[f] = "checking"
  /\ IF "dest" \in dirs
     THEN Given(f, "cache")
     ELSE Goes(f, "staging") /\ UNCHANGED <<source, tries>>
  /\ UNCHANGED <<installed, disk, todo, overlapped>>

CheckStaging(f) ==
  /\ stage[f] = "staging"
  /\ IF "staging" \in dirs
     THEN /\ Goes(f, "sweeping")
          /\ hand' = [hand EXCEPT ![f] = "staging"]
     ELSE Goes(f, "making") /\ UNCHANGED hand
  /\ UNCHANGED <<installed, dirs, holds, archivers, todo, tries, source, overlapped>>

\* remove_dir_all: one file after the other, of the directory it has open.
Sweep(f) ==
  /\ stage[f] = "sweeping"
  /\ hand[f] # "none"
  /\ \E x \in holds[hand[f]] :
       /\ holds' = [holds EXCEPT ![hand[f]] = @ \ {x}]
       /\ archivers' = IF hand[f] = "staging" /\ x \in {"archive", "torn"} THEN {} ELSE archivers
  /\ UNCHANGED <<installed, dirs, hand, stage, todo, tries, source, overlapped>>

\* At last the directory, by its path, and only an empty one.
Swept(f) ==
  /\ stage[f] = "sweeping"
  /\ hand[f] # "none" => holds[hand[f]] = {}
  /\ "staging" \in dirs /\ holds["staging"] = {}
  /\ dirs' = dirs \ {"staging"}
  /\ hand' = [g \in Clients |-> IF g = f \/ hand[g] = "staging" THEN "none" ELSE hand[g]]
  /\ Goes(f, "making")
  /\ UNCHANGED <<installed, holds, archivers, todo, tries, source, overlapped>>

Make(f) ==
  /\ stage[f] = "making"
  /\ dirs' = dirs \cup {"staging"}
  /\ Goes(f, "getting")
  /\ UNCHANGED <<installed, holds, hand, archivers, todo, tries, source, overlapped>>

\* The body is here; the archive is created, or truncated.
Get(f) ==
  /\ stage[f] = "getting"
  /\ "staging" \in dirs
  /\ holds' = [holds EXCEPT !["staging"] = (@ \ {"archive"}) \cup {"torn"}]
  /\ archivers' = archivers \cup {f}
  /\ Goes(f, "writing")
  /\ UNCHANGED <<installed, dirs, hand, todo, tries, source, overlapped>>

\* All of it is written, to the file it was; of one another client truncated in
\* between, the start may be missing until that client has written it too.
Write(f) ==
  /\ stage[f] = "writing"
  /\ IF f \in archivers
     THEN \/ holds' = [holds EXCEPT !["staging"] = (@ \ {"torn"}) \cup {"archive"}]
          \/ archivers # {f} /\ UNCHANGED holds
     ELSE UNCHANGED holds
  /\ archivers' = archivers \ {f}
  /\ Goes(f, "opening")
  /\ UNCHANGED <<installed, dirs, hand, todo, tries, source, overlapped>>

OpenArchive(f) ==
  /\ stage[f] = "opening"
  /\ "archive" \in holds["staging"]
  /\ Goes(f, "unpacking")
  /\ todo' = [todo EXCEPT ![f] = Distribution]
  /\ UNCHANGED <<installed, disk, tries, source, overlapped>>

\* mutant: the archive is extracted where Chrome is to be found.
UnpackInPlace(f) ==
  /\ stage[f] = "unpacking"
  /\ \E x \in todo[f] :
       /\ todo' = [todo EXCEPT ![f] = @ \ {x}]
       /\ holds' = [holds EXCEPT !["dest"] = @ \cup {x}]
  /\ dirs' = dirs \cup {"dest"}
  /\ UNCHANGED <<installed, stage, hand, archivers, tries, source, overlapped>>

\* A file of the distribution; the directories above it are made if need be.
Unpack(f) ==
  /\ stage[f] = "unpacking"
  /\ \E x \in todo[f] :
       /\ todo' = [todo EXCEPT ![f] = @ \ {x}]
       /\ holds' = [holds EXCEPT !["staging"] = @ \cup {x}]
  /\ dirs' = dirs \cup {"staging"}
  /\ UNCHANGED <<installed, stage, hand, archivers, tries, source, overlapped>>

Unpacked(f) ==
  /\ stage[f] = "unpacking"
  /\ todo[f] = {}
  /\ Goes(f, "moving")
  /\ UNCHANGED <<installed, disk, todo, tries, source, overlapped>>

\* rename: in the place of no directory, or of an empty one.
Move(f) ==
  /\ stage[f] = "moving"
  /\ "staging" \in dirs
  /\ "dest" \in dirs => holds["dest"] = {}
  /\ dirs' = {"dest"}
  /\ holds' = [d \in Dirs |-> IF d = "dest" THEN holds["staging"] ELSE {}]
  /\ hand' = [g \in Clients |-> IF hand[g] = "staging" THEN "dest" ELSE "none"]
  /\ archivers' = {}
  /\ Given(f, "cache")
  /\ UNCHANGED <<installed, todo, overlapped>>

\* mutant: an error on the way is logged, and the path given all the same.
FailsQuietly(f) ==
  /\ Downloading(f)
  /\ Given(f, "cache")
  /\ hand' = [hand EXCEPT ![f] = "none"]
  /\ archivers' = archivers \ {f}
  /\ todo' = [todo EXCEPT ![f] = {}]
  /\ UNCHANGED <<installed, dirs, holds, overlapped>>

\* No network, no room, a file or a directory that is not as expected.
Fails(f) ==
  /\ Downloading(f)
  /\ Goes(f, "failed")
  /\ hand' = [hand EXCEPT ![f] = "none"]
  /\ archivers' = archivers \ {f}
  /\ todo' = [todo EXCEPT ![f] = {}]
  /\ UNCHANGED <<installed, dirs, holds, tries, source, overlapped>>

-----------------------------------------------------------------------------
(* launch_with, on the path                                                *)

Launches(f) ==
  /\ stage[f] = "launching"
  /\ source[f] = "cache" => Distribution \subseteq holds["dest"]
  /\ Goes(f, "up")
  /\ UNCHANGED <<installed, disk, todo, tries, source, overlapped>>

\* mutant: one try too many.
LaunchFailsOnceMore(f) ==
  /\ stage[f] = "launching"
  /\ tries' = [tries EXCEPT ![f] = @ + 1]
  /\ Goes(f, IF tries[f] < LaunchAttempts THEN "launching" ELSE "failed")
  /\ UNCHANGED <<installed, disk, todo, source, overlapped>>

LaunchFails(f) ==
  /\ stage[f] = "launching"
  /\ tries' = [tries EXCEPT ![f] = @ + 1]
  /\ Goes(f, IF tries[f] + 1 < LaunchAttempts THEN "launching" ELSE "failed")
  /\ UNCHANGED <<installed, disk, todo, source, overlapped>>

\* The client is done, or its process dies, wherever it is.
Leaves(f) ==
  /\ stage[f] # "idle"
  /\ Goes(f, "idle")
  /\ hand' = [hand EXCEPT ![f] = "none"]
  /\ archivers' = archivers \ {f}
  /\ todo' = [todo EXCEPT ![f] = {}]
  /\ tries' = [tries EXCEPT ![f] = 0]
  /\ source' = [source EXCEPT ![f] = "none"]
  /\ UNCHANGED <<installed, dirs, holds, overlapped>>

-----------------------------------------------------------------------------

Download(f) ==
  \/ Manifest(f)
  \/ CheckDestination(f)
  \/ CheckStaging(f)
  \/ Sweep(f)
  \/ Swept(f)
  \/ Make(f)
  \/ Get(f)
  \/ Write(f)
  \/ OpenArchive(f)
  \/ Unpack(f)
  \/ Unpacked(f)
  \/ Move(f)
  \/ Fails(f)

FetchNext ==
  \E f \in Clients :
    \/ ChromePath(f)
    \/ Ensure(f)
    \/ Download(f)
    \/ Launches(f)
    \/ LaunchFails(f)
    \/ Leaves(f)

FetchSpec == FetchInit /\ [][FetchNext]_fetchVars

-----------------------------------------------------------------------------
(* Properties                                                              *)

\* Types; a removal is under way at a client that sweeps only, and an archive is
\* written by a client that writes only.
FetchTypeOK ==
  /\ installed \in BOOLEAN /\ overlapped \in BOOLEAN
  /\ dirs \subseteq Dirs
  /\ holds \in [Dirs -> SUBSET Files]
  /\ stage \in [Clients -> {"idle", "manifest", "checking", "staging", "sweeping", "making",
                            "getting", "writing", "opening", "unpacking", "moving",
                            "launching", "up", "failed"}]
  /\ hand \in [Clients -> Dirs \cup {"none"}]
  /\ archivers \subseteq {f \in Clients : stage[f] = "writing"}
  /\ todo \in [Clients -> SUBSET Distribution]
  /\ tries \in [Clients -> 0..LaunchAttempts]
  /\ source \in [Clients -> {"none", "caller", "system", "cache"}]
  /\ \A f \in Clients : hand[f] # "none" => stage[f] = "sweeping"
  /\ \A d \in Dirs : holds[d] # {} => d \in dirs

\* "download to `cache_root/<version>.partial/`, extract there, rename to
\* `cache_root/<version>/` on success": the destination is there with all of its
\* files, or not at all.
AtomicDownload == "dest" \in dirs => Distribution \subseteq holds["dest"]

\* It is so as long as no two downloads overlap, however many of them die on the
\* way or fail.
AloneIsAtomic == ~overlapped => AtomicDownload

\* "Returns a path to a usable Chrome": a client with a path into the cache finds
\* the executable there, up to and after the launch, unless downloads overlapped.
PathIsUsable ==
  \A f \in Clients :
    source[f] = "cache" => overlapped \/ ("dest" \in dirs /\ "chrome" \in holds["dest"])
=============================================================================

---------------------------- MODULE PackageUpdate ----------------------------
(* prepare_update: a new release is put together beside the installed one,    *)
(* from the installed package and the files of an update, and may then be     *)
(* switched to (scripts/prepare_update.py).  A package is a set of files with *)
(* a manifest of their digests.  Writing stops anywhere, within a file too,   *)
(* and somebody may edit a package at any time.                               *)
(*                                                                            *)
(* A digest is the content itself.  MaxRuns bounds the preparations, MaxEdits *)
(* the edits.                                                                 *)
EXTENDS Naturals

CONSTANTS BaseFiles, UpdateFiles,
          AppFiles,       \* those below app/, which the update replaces as a whole
          VersionFile,    \* the file that says the version, of both
          MaxRuns, MaxEdits

Files == BaseFiles \cup UpdateFiles
Contents == {"none", "old", "new", "part", "edited"}
Packages == {"base", "update", "target"}

VARIABLES
    tree,        \* of each package: the content of each file
    manifest,    \* of each package: whether it has one, and the tree it lists
    step,        \* of the preparation
    left,        \* the files it has still to copy
    exists,      \* the directory of the new release is there
    runs, edits

vars == <<tree, manifest, step, left, exists, runs, edits>>

Package(names, content) == [f \in Files |-> IF f \in names THEN content ELSE "none"]
Empty == Package({}, "none")
Present(p) == {f \in Files : tree[p][f] # "none"}

Listing(t) == [whole |-> TRUE, of |-> t]
NoListing == [whole |-> FALSE, of |-> Empty]

TypeOK ==
    /\ tree \in [Packages -> [Files -> Contents]]
    /\ \A p \in Packages : manifest[p].whole \in BOOLEAN /\ manifest[p].of \in [Files -> Contents]
    /\ step \in {"idle", "copying", "clearing", "overlaying", "writing", "checking"}
    /\ left \subseteq Files /\ exists \in BOOLEAN
    /\ runs \in 0 .. MaxRuns /\ edits \in 0 .. MaxEdits

Init ==
    /\ tree = [base |-> Package(BaseFiles, "old"), update |-> Package(UpdateFiles, "new"), target |-> Empty]
    /\ manifest = [base |-> Listing(tree.base), update |-> Listing(tree.update), target |-> NoListing]
    /\ step = "idle" /\ left = {} /\ exists = FALSE /\ runs = 0 /\ edits = 0

\* validate_manifest: the set of files and every digest.
Valid(p) == manifest[p] = Listing(tree[p])

\* package_version: where the metadata and the program agree on it.
Version(p) == tree[p][VersionFile]

\* prepare, up to its first write: every refusal comes before it.
Prepare ==
    /\ step = "idle" /\ runs < MaxRuns /\ ~exists
    /\ Valid("update") /\ Valid("base")
    /\ Version("base") = "old" /\ Version("update") = "new"
    /\ step' = "copying" /\ left' = Present("base") /\ exists' = TRUE /\ runs' = runs + 1
    /\ UNCHANGED <<tree, manifest, edits>>

\* One file is written, in part first; a file stopped at stays in part.
Put(f, source) ==
    /\ f \in left
    /\ \/ tree' = [tree EXCEPT !.target[f] = "part"] /\ UNCHANGED left
       \/ tree' = [tree EXCEPT !.target[f] = tree[source][f]] /\ left' = left \ {f}
    /\ UNCHANGED <<manifest, step, exists, runs, edits>>

\* copytree: file by file, the manifest among them.
Copy(f) == step = "copying" /\ Put(f, "base")

CopyManifest ==
    /\ step = "copying" /\ ~manifest.target.whole
    /\ manifest' = [manifest EXCEPT !.target = manifest.base]
    /\ UNCHANGED <<tree, step, left, exists, runs, edits>>

Copied ==
    /\ step = "copying" /\ left = {} /\ manifest.target.whole
    /\ step' = "clearing" /\ left' = AppFiles
    /\ UNCHANGED <<tree, manifest, exists, runs, edits>>

\* rmtree of app/
Clear(f) ==
    /\ step = "clearing" /\ f \in left
    /\ tree' = [tree EXCEPT !.target[f] = "none"] /\ left' = left \ {f}
    /\ UNCHANGED <<manifest, step, exists, runs, edits>>

Cleared ==
    /\ step = "clearing" /\ left = {}
    /\ step' = "overlaying" /\ left' = Present("update")
    /\ UNCHANGED <<tree, manifest, exists, runs, edits>>

\* The files of the update, over those of the base.
Overlay(f) == step = "overlaying" /\ Put(f, "update")

\* Mutant: the manifest is written while files are still to be copied.
OverlaidEarly ==
    /\ step = "overlaying" /\ step' = "writing" /\ left' = {}
    /\ UNCHANGED <<tree, manifest, exists, runs, edits>>

Overlaid ==
    /\ step = "overlaying" /\ left = {} /\ step' = "writing"
    /\ UNCHANGED <<tree, manifest, left, exists, runs, edits>>

\* write_manifest: the digests of what is there, then the file, perhaps cut short.
Write ==
    /\ step = "writing"
    /\ \/ manifest' = [manifest EXCEPT !.target = Listing(tree.target)] /\ step' = "checking"
       \/ manifest' = [manifest EXCEPT !.target = NoListing] /\ step' = "idle"
    /\ UNCHANGED <<tree, left, exists, runs, edits>>

\* PREPARED or refused, or stopped on the way: the directory stays as it is.
Stop ==
    /\ step # "idle" /\ step' = "idle" /\ left' = {}
    /\ UNCHANGED <<tree, manifest, exists, runs, edits>>

\* Somebody removes the directory, or edits a file of a package.
Remove ==
    /\ step = "idle" /\ exists /\ exists' = FALSE
    /\ tree' = [tree EXCEPT !.target = Empty] /\ manifest' = [manifest EXCEPT !.target = NoListing]
    /\ UNCHANGED <<step, left, runs, edits>>

Edit(p, f) ==
    /\ edits < MaxEdits /\ f \in Present(p)
    /\ tree' = [tree EXCEPT ![p][f] = "edited"] /\ edits' = edits + 1
    /\ UNCHANGED <<manifest, step, left, exists, runs>>

Next ==
    \/ Prepare \/ CopyManifest \/ Copied \/ Cleared \/ Overlaid \/ Write \/ Stop \/ Remove
    \/ \E f \in Files : Copy(f) \/ Clear(f) \/ Overlay(f) \/ \E p \in Packages : Edit(p, f)

Spec == Init /\ [][Next]_vars

-----------------------------------------------------------------------------
\* Mutant: a package that has a manifest is switched to.
MaySwitchUnchecked == exists /\ manifest.target.whole

\* What switch_prepared asks of a candidate; it may ask at any time.
MaySwitch == exists /\ Valid("target")

Of(f, release) == tree.target[f] \in {release, "edited"}

\* However a preparation was stopped, and whenever it is asked, the directory
\* switched to is a whole release: the installed one as it was, or every file
\* of the update with the rest of the installed one; never a mix of the two,
\* nor one with a file cut short.
SwitchedIsWhole ==
    MaySwitch =>
        \/ Present("target") = BaseFiles /\ \A f \in BaseFiles : Of(f, "old")
        \/ /\ Present("target") = UpdateFiles \cup (BaseFiles \ AppFiles)
           /\ \A f \in Present("target") : Of(f, IF f \in UpdateFiles THEN "new" ELSE "old")
==============================================================================

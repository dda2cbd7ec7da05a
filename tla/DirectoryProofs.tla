---------------------------- MODULE DirectoryProofs ----------------------------
(***************************************************************************)
(* What follows from the promise of Directory, for any number of users,    *)
(* files and calls: as long as nothing is lost, files keep apart and the   *)
(* charges are those of the files there are.                               *)
(***************************************************************************)
EXTENDS Directory, TLAPS

IdsApart    == \A f, g \in files : f.id = g.id => f = g
PagesApart  == \A f, g \in files : f # g => ~Share(f, g)
OwnersExist == \A f \in files : f.user \in users
ChargesFit  == charged = Charges(files, users)

Kept == broken = FALSE => IdsApart /\ PagesApart /\ OwnersExist /\ ChargesFit

\* A new volume has no files to keep apart.
LEMMA InitKept == DirInit => Kept
BY DEF DirInit, Kept, IdsApart, PagesApart, OwnersExist, ChargesFit

\* A creation takes a new id.
LEMMA CreatesKept ==
  ASSUME IdsApart, PagesApart, OwnersExist, Creates(files, files'), users' = users
  PROVE  IdsApart' /\ PagesApart' /\ OwnersExist'
<1>1. PICK f \in files' : /\ files' \ files = {f} /\ f.user \in users
                          /\ \A g \in files : g.id # f.id /\ ~Share(f, g)
  BY DEF Creates
<1>2. files' = files \union {f}
  BY <1>1 DEF Creates
<1>3. PagesApart'
  BY <1>1, <1>2 DEF PagesApart, Share
<1>. QED  BY <1>1, <1>2, <1>3 DEF IdsApart, OwnersExist

\* A changed file keeps its id and its owner.
LEMMA ChangesKept ==
  ASSUME IdsApart, PagesApart, OwnersExist, Changes(files, files'), users' = users
  PROVE  IdsApart' /\ PagesApart' /\ OwnersExist'
<1>1. PICK f \in files, g \in files' :
        /\ files \ files' = {f} /\ files' \ files = {g}
        /\ g.id = f.id /\ g.user = f.user
        /\ \A h \in files \ {f} : ~Share(g, h)
  BY DEF Changes
<1>2. files' = (files \ {f}) \union {g}
  BY <1>1
<1>3. \A h \in files \ {f} : h.id # g.id
  BY <1>1 DEF IdsApart
<1>4. PagesApart'
  BY <1>1, <1>2 DEF PagesApart, Share
<1>. QED  BY <1>1, <1>2, <1>3, <1>4 DEF IdsApart, OwnersExist

\* Every step keeps the invariant.
LEMMA NextKept == Kept /\ [DirNext]_dirVars => Kept'
<1>. SUFFICES ASSUME Kept, [DirNext]_dirVars, broken' = FALSE
              PROVE  IdsApart' /\ PagesApart' /\ OwnersExist' /\ ChargesFit'
  BY DEF Kept
<1>1. CASE UNCHANGED dirVars
  BY <1>1 DEF dirVars, Kept, IdsApart, PagesApart, OwnersExist, ChargesFit
<1>2. CASE NothingDone /\ UNCHANGED broken
  BY <1>2 DEF NothingDone, Kept, IdsApart, PagesApart, OwnersExist, ChargesFit
<1>3. CASE Done /\ UNCHANGED broken
  <2>1. IdsApart /\ PagesApart /\ OwnersExist
    BY <1>3 DEF Kept
  <2>2. ChargesFit'
    BY <1>3 DEF Done, ChargesFit
  <2>3. CASE Enrols(files, files')
    BY <2>1, <2>2, <2>3 DEF Enrols, IdsApart, PagesApart, OwnersExist, Share
  <2>4. CASE users' = users /\ Creates(files, files')
    BY <2>1, <2>2, <2>4, CreatesKept
  <2>5. CASE users' = users /\ Changes(files, files')
    BY <2>1, <2>2, <2>5, ChangesKept
  <2>6. CASE users' = users /\ Deletes(files, files')
    BY <2>1, <2>2, <2>6 DEF Deletes, IdsApart, PagesApart, OwnersExist, Share
  <2>. QED  BY <1>3, <2>3, <2>4, <2>5, <2>6 DEF Done
<1>4. CASE DonePartly /\ UNCHANGED broken
  <2>1. IdsApart /\ PagesApart /\ OwnersExist
    BY <1>4 DEF Kept
  <2>2. IdsApart' /\ PagesApart' /\ OwnersExist'
    BY <1>4, <2>1, ChangesKept DEF DonePartly
  <2>3. ChargesFit'
    BY <1>4 DEF DonePartly, ChargesFit
  <2>. QED  BY <2>2, <2>3
<1>. QED  BY <1>1, <1>2, <1>3, <1>4 DEF DirNext

\* As long as nothing is lost, no two files have one id, every file has an owner, and every
\* user is charged exactly what his files cost, after any sequence of calls and reloads.
THEOREM FilesKeptApart == DirSpec => []Kept
BY InitKept, NextKept, PTL DEF DirSpec
==============================================================================

# MemoryKeyBackup: a verification of its engine

MemoryKeyBackup is a macOS program (Objective-C, manual retain/release) that
watches the volumes that are mounted, recognises USB keys by a tag file, and
saves each key to disk: at once when it is plugged in, when its last backup is
old enough, periodically, or when the user asks. This directory holds TLA+
models of the parts where threads meet, TLC configurations that check them on
small instances, and proofs, checked by TLAPS, for every value of the constants.

Names are those of the source (French): *file* queue, *verrou* lock, *cle* key,
*tache* task, *arreter* stop, *planifier* plan, *ordonnancer* schedule, *montee*
mounted.

## 1. The system

### Parts, state, operations

| part | files | state | operations |
|---|---|---|---|
| `CR_File` | CR_File | an array under an `NSConditionLock` with condition `EST_VIDE`/`NON_VIDE` | in, out, out with time-out; callers that take the lock remove at a position |
| pool | CR_TraitementsMultiThreads, CR_Consommateur, CR_TraitementMonoThread, CR_Tache | the threads, one `CR_File`, the list of the running tasks and its lock, the counter `synchroFinDeTache` | run, submit, the loop of a thread, stop |
| locks by name | CR_RessourceSpeciale | a recursive lock per idCle | try, give back |
| detector, dispatcher | PD_Detecteur, PD_Dispatcheur, PD_TacheDispatcheur | one thread and its `CR_File` | a task per mount or unmount |
| registrar | PD_Enregistreur | `listeDesClesMontees`: idCle to `PD_Cle`, under a monitor | register, look up by mount point or idCle, forget |
| planning | PD_Planificateur | `listeDesClesPlanifiees`, ordered by date, under a lock | plan, remove a key, plan again |
| scheduler | PD_Ordonnanceur | a 15 s timer on the main thread | a pass over the planning, which posts what is due |
| backup queue | PD_TraitementDesTaches (a pool) | that of the pool | remove the waiting task of a key, stop its running task |
| backup task | PD_TacheSauvegarde | `interrompreTache`, the key's flag and date, its directories | full, incremental, synchronised backup; retention; planning of the next one |
| restoration | PD_TacheRestauration, CI_Restauration, CI_ProgressionRestauration | a task in the pool of the backups, a progress window | restore, stop |
| database | DB_Cles | an array of the known keys, indexes, a sorted view, a file | add, delete, sort, save, load |
| key | PD_Cle, PD_InfoPreference | idCle, mount point, settings, tag file | eligibility, load, save |
| file trees | CR_NoeudFS, CR_ForetFS, CR_ArbreFS | a tree with three-state nodes | select, expand |
| windows | CI_* | outlets, tables | buttons that call the engine |
| journal, notifications | PD_Logueur, CR_Notificateur, CI_GestionDesNotificationsDAffichage | a queue of refreshes | post, wait for the main thread |

Not part of the program's own code: `Commandes externes/` (rsync, unison),
`adresseMac.c`, the nibs, the images and the help.

### How they interact

    volumes ──notification──> detector ──task──> dispatcher ──register──> registrar
                                                     │
                                                     └──plan──> planning <──pass── scheduler (main thread)
                                                                  ^                    │ due entries
    user (main thread) ──plan, delete, stop──────────────────────┤                    v
                                                                  └──plan again── backup threads <── CR_File

The dispatcher, the backup threads (one per processor) and the main thread share
the planning (one lock), the file of the backups (one condition lock), the list
of the running tasks (a lock one of its readers does not take), the mounted keys
(one monitor) and a lock per key. A message for the journal waits for the main
thread (`performSelectorOnMainThread:... waitUntilDone:YES`).

### What is hard, and what makes each part correct

* `CR_File`: the condition is computed apart from the array. An element in the
  file must leave a condition that lets a consumer in.
* Pool: a stop that races with takes. YES must mean that nothing runs; a task is
  taken once, in order.
* One key, several tasks: periodic, one-shot and "when mounted" requests, on
  several threads, for several `PD_Cle` objects with one idCle. At most one works
  at a time, and the lock of the key comes back.
* Planning: entries are moved by four parties, by idCle or by object. The list
  stays ordered, and the next backup of a periodic key is never lost.
* Waits: locks, the monitor and the main thread are taken in several orders.
* Directories of a backup: several file operations, each of which may fail, and
  a crash between any two. Of an incremental history the retention may delete
  anything but the last trace of a period, and `current` must follow.
* Database: rows, positions and idCle are turned into each other while another
  thread inserts. A button must work on the key the user chose.
* File trees: read lazily, clicked at any depth. A box must agree with all that
  is below it, read or not, and the list must be what was chosen.
* Restoration: the scheduler pauses while its window is open, a modal loop waits
  for a notification, the cancel button waits for a monitor. All must come back.

PROJECT.json lists the hazards at their lines, with the properties that look at
them, or why none does yet.

## 2. Modules

| module | models | extends |
|---|---|---|
| `CR_File` | CR_File.m: one action per method; `condition` is state of its own, `verrouTenu` is the lock kept by a thread that left through an exception | |
| `ExecuteurFIFO` | the promise of a pool: each task taken once, in order, by one thread; a stop drops what nobody has taken | |
| `CR_TraitementsMultiThreads` | the pool: `pc[w]` is the place of a thread in `+consommateur:`, `arret` that of the main thread in `arreter:` | `CR_File` |
| `PD_Planificateur` | the planning and the scheduler's pass, turn by turn; `passe # 0` or `journal` is the lock held for longer than an action | |
| `Moteur` | the engine: volumes, dispatcher, registrar, planning, scheduler, file, backup threads, user | `CR_File`, `PD_Planificateur` |
| `SauvegardeFull` | the three directories of a full backup, two tasks of the key, one action per operation on the disk, failures, stops, the end of the program | |
| `SauvegardeIncrementale` | the dated directories and the link `current`, the retention, the storage window, failures, stops, the end of the program | |
| `ListeDesCles` | DB_Cles with its index and sorted view, the dispatcher that adds keys, the buttons of the window of the keys | |
| `Selection` | the promise of the check boxes of a restoration: a set of chosen files | |
| `CR_NoeudFS` | the trees, their boxes of three states, and their window; refines `Selection` | |
| `Restauration` | the window, the sheet and the task of a restoration, with the scheduler's timer, the lock of the key and the threads of the backups | |
| `PD_Planificateur_proofs`, `CR_TraitementsMultiThreads_proofs`, `Moteur_proofs`, `ListeDesCles_proofs`, `CR_NoeudFS_proofs`, `SauvegardeIncrementale_proofs`, `SauvegardeFull_proofs`, `Restauration_proofs` | theorems and proofs | the module they are named after |
| `MCPool`, `MCMoteur`, `MCIncrementale`, `MCListe`, `MCNoeudFS`, `MCRestauration` | instances for TLC | |

An action is one critical section, or one statement where no lock is held. What
a method does before the next wait is in the same action (the whole of
`planifier:aLaDate:`, of `supprimerCleDeLaFileDeSauvegardes:`...). Where a method
keeps a lock across several actions, a variable says so: `passe`, `journal`, and
`principal.pc` for the monitor the buttons keep.

### How `Moteur` corresponds to the code

| variable | code |
|---|---|
| `montes`, `fileDispatch` | the mounted volumes; the `CR_File` of PD_Dispatcheur |
| `dispatcheur` | the place of the dispatcher in `PD_TacheDispatcheur executerTache:` and its `uneCle` |
| `montees`, `nbCles` | `listeDesClesMontees`; `num` tells two `PD_Cle` objects of one key apart, as `==` does |
| `laFile`, `condition`, `verrouTenu` | `fileDEntree` of PD_TraitementDesTaches |
| `trav`, `tachesEnCours` | each backup thread with its task; `tachesEnCoursDExecution` |
| `ressource` | the owner of the lock CR_RessourceSpeciale keeps for an idCle |
| `sauvegardeEnCours` | the keys whose `sauvegardeEnCours` is YES |
| `planif`, `maintenant`, `passe`, `journal` | see `PD_Planificateur` |
| `principal` | the main thread: in its run loop, in `ordonnancer:`, or in a button |

The dispatcher's tasks: `DispIgnorer`, `DispEnregistrer`, `DispPlanifier`,
`DispJournaliser`/`DispJournalise` (mount); `DispDemonter`, `DispArreter*`,
`DispRetirer`, `DispDeplanifier`, `DispDesenregistrer` (unmount, one action per
call). `arreterTachesPourCle:` walks the shared list without its lock: while a
thread changes the list, the walk may skip an element (`...Saute`) or raise
(`...Exception`; `+consommateur:` catches it on the dispatcher, AppKit on the
main thread; `@synchronized` gives the monitor back). A backup thread goes through
`Prendre`, `Lancer`, `PrendreRessource` or `RenoncerRessource`, `FinSauvegarde`,
`Verifier`, `Deplanifier`, `Replanifier`, `Rendre`, `Retirer`.

What is abstracted: a date is a natural number; the settings of a key are
constants; `D_DERNSAUV`, which several objects of one key and the database write,
is any date up to now when a volume is mounted, and between the date this task
left and now when the next backup is planned; the three kinds of backup are one
step that takes any time; the eligibility of a mounted volume is that it is still
there; messages are left out, except the one sent with a lock held.

### How `SauvegardeFull` corresponds to the code

`rep` is what `full/.inprogress`, `full/last` and `full/old` hold: for each, whether
it exists, the run of rsync whose copy it holds whole (0: part of one), and whether
files of an earlier attempt may be mixed with it. `pc[t]` goes through
`sauvegardeFull:`: `destination` (create it, launch rsync), `rsync`, `old` (remove),
`full` (rename to `old`), `renommer` (`.inprogress` to `last`), `nettoyer` (remove
what was not renamed), `fin`. Each call of fileutils.m is an action that succeeds
and one that fails; renaming onto a directory that exists fails, a removal that
fails may have removed a part. rsync's exit status is not read, so a run that fails
is taken for one that succeeds. rsync that is interrupted is not waited for: the
removal that then fails because it still writes is one of the failures. The lock of
the key is as in `Moteur`: a task asked to stop while it waits goes on without it
(`CommencerSansVerrou`).

### How `SauvegardeIncrementale` corresponds to the code

`dossiers` are the dates whose directory is in `incr/`, `complets` those that hold a
whole copy (a fact the code does not record), `lien` what `current` names. `pc` is
the place in `sauvegardeIncrementale:`: `rsync`, `retirer` and `creer` (the link),
`lister` and `menage` (the retention, which computes `toDel` at once and deletes one
directory after the other). `fileExistsAtPath:` follows a link: a link to nothing
(`Pendant`) is taken for absent. A date is a natural number; the calendar is given
by constants: `Duree` of an hour, day, week, month, `Periode` and the `Numero` a
calendar component gives, `Rang` the order of the listing. `IncrementaleAssumption`
states what the proofs and the instance need of them: periods last at most their
duration, and two dates one age class can hold together have one number only in one
period. This holds of the hours of a day, the days of a week and the weeks of a
month, not of the months of several years. `ListageAssumption` is that the file
system lists names in order, as HFS+ does (the code does not sort). The storage
window deletes directories without the lock of the key, and may run between any two
actions of the backup. `temoin` is one complete backup, chosen freely, that the
property follows; `perdu` says that the user, or rsync without a source, took away
what `current` names.

### How `ListeDesCles` corresponds to the code

`liste`, `triee`, `index`, `descripteurs` are the four variables of DB_Cles. A method
of DB_Cles is one action. `disp` is the dispatcher between the look-up of
`enregistrer:` and the monitor of the mounted keys. In between a new key meets its
dialog (`DispRenoncer`: the user wants nothing to do with it), is added to the base,
then configured (`DispConfigurer`) or given up for want of default settings, its
record staying in the base (`DispSansDefaut`). `fenetre` is the main thread in a button: `ligne` is the row it keeps over
its dialog (delete), `position` the position it computed before it (back up at a
date), `choisie` the key the user saw. `fait` is what the last button worked on:
in the engine and in the base.

### How `CR_NoeudFS` corresponds to the code

A node is its path. `etat` is defined on the nodes that exist as objects: the roots
(one per backup that was shown; `CR_ForetFS` keeps them) and what `deployer` read.
`Cliquer` is `clickCheckBox:` as a whole: the cell's state, what is below
(`ajusterSelectionsFils:`), the way up (`ajusterSelectionsParents`: from n upwards,
each directory looks at all that was read below it but for what the click has set
and the directories on the way, `Autres`; a mixed box counts as selected). `Lister`
reads what nobody opened. `Fermer` empties the forest. The refinement maps the
boxes to the set of chosen files: those that are on, and all those below a
directory that is, read or not.

### How `Restauration` corresponds to the code

`minuterie` is the `timer` of PD_Ordonnanceur, `valides` the timers the run loop
fires: `demarrer` replaces the first without stopping it. `disp` is a thread between
the test of `reveiller` and the message to the main thread; `reveils` the
`_reveiller:` on their way. `fenetre` is the window and the place of the main thread
in `actionProcess:`: `lancee` (task queued, nobody listens yet), `modale`, `annule`
(waiting for the monitor of the task). A task is a backup of the key or a
restoration; `pc` is its place in `executerTache:` and `retaurer`. A progress
notification, the last one included, waits for the main thread, hence
`fenetre # "annule"` in `Notifier`; the notification of the end (`NotifierFin`) is
posted and waits for nobody, so that it may come while the cancel button waits.
`OuvrirVide` is the window of a key without backups, which closes itself before the
scheduler was stopped and so starts a second timer; the first goes on and is never
stopped again, whence the exception in `AucunLancement`.

## 3. Runs

| run | instance | shows |
|---|---|---|
| `pool` | 2 threads, 3 tasks | 4 invariants, the refinement of `ExecuteurFIFO`, and that every task is over one day |
| `moteur_une_cle` | 1 volume, 1 key saved when mounted and then periodically, 2 threads, 1 new mount, 2 requests, clock 0..1 | the 7 invariants of the engine |
| `moteur_deux_cles` | 2 volumes, 2 keys with different settings, clock 0..2 | `CleJamaisOubliee`, `PlanTriee` when keys share planning and file |
| `moteur_vivacite` | as `moteur_une_cle`, no new mount, 1 request | the 3 liveness properties |
| `sauvegarde_full` | 2 tasks of one key, 4 runs of rsync, 2 faults | one fault, anywhere, leaves a complete copy; no step backwards without a fault |
| `sauvegarde_incr` | dates 0..8, 1 fault, 1 use of the storage window; an hour of 2 dates, a day of 4, a week of 6, a month of 8 | `Couverture`, `LienSuit`, `LienVivant` |
| `liste_cles` | 3 keys, 2 sorts, 3 mounts, 2 buttons | the base stays coherent, buttons work on their key |
| `noeuds` | 2 trees with 3 levels, an application and files | boxes coherent, refinement of `Selection` |
| `restauration` | 2 threads, 2 backups that come due, 1 restoration, 2 openings, 2 turns | 3 invariants, an action property, 2 liveness properties |
| `moteur_journal` | a key that is not to be saved | finding: dispatcher and main thread wait for each other |
| `incr_lien` | as `sauvegarde_incr` | finding: a link to a directory that has gone is kept for ever |
| `liste_suppression` | as `liste_cles` | finding: another key is deleted than the one that was confirmed |

Bounds: `MaxTemps` (where the clock stops), `MaxBranchements` (mounts after the
start), `MaxDemandes` (requests of the user). Two threads are enough for every
race the code has between tasks, since a task reads and writes only what is
shared by key, by list or by file; three tasks leave one waiting while two run.
Two dates are enough for "due" and "not due", three for an entry to be put
between others. A key remounted once has two objects, which is all that
"by object or by idCle" can tell apart. `SYMMETRY` permutes the backup threads
and is used in runs with invariants only. `MaxRsync = 4` gives a good backup, two
that go wrong and one more; `MaxFautes = 2` lets a second fault follow the one the
property allows (with `fautes <= 2` in its place TLC finds the loss). The small
calendar of `MCIncrementale` has days and weeks that do not begin at date 0, so that
the age classes cut periods, and dates in all four classes; one fault is one more
than `LienSuit` allows. Three keys give a row before, at and after the chosen one;
two sorts, views that differ. Three levels give a directory between a click and the
root, and two trees make the listing cross from one to the other. Two turns of
`retaurer` have one after which it goes on and one after which it ends. Deadlock is checked in
`noeuds`, where something can always be clicked; not elsewhere: a bounded
clock and a user who owes nothing let the system stop; that nobody waits for ever
is said by the liveness properties.

### The properties

* `TypeOK` (each): the types; `verrouTenu` may be TRUE.
* `PasDeReveilPerdu`: an element in a file means condition `NON_VIDE`.
* `CompteurFidele`, `ArretComplet`: the counter of the stop is the number of
  threads that have not left; YES means that nothing runs.
* `RaffineExecuteur`: the pool implements `ExecuteurFIFO`. What waits is the array
  until `arreter:` empties it (then only stop objects come into it), what runs is
  what a thread has taken, and the rest of the tasks submitted is over.
* `ToutSeTermine`: every submitted task is run or dropped.
* `RessourceFidele`, `ExclusionHorsInterruption`: who holds the lock of a key, and
  that two threads work on one key only if one of them was asked to stop.
* `CleJamaisOubliee`: a registered periodic key has its next backup somewhere: in
  the planning, in the file, in a running task that will plan it, or with the
  dispatcher.
* `DrapeauJamaisOublie`: the flag of a key is not left by a task that is over.
* `PlanTriee`: the planning is ordered.
* `RessourceRendue`, `AttenteFinie`, `DispatcheurRevient`: no lock kept, no task
  waiting, no dispatcher blocked for ever. They hold of the keys of that run, whose
  plan always has a date: `moteur_journal` shows what happens without one.

* `CopieGardee`: once the key has been saved, one fault since the last good backup
  leaves a complete copy in `last`, `old` or `.inprogress`, after any number of
  stops. A fault is an operation that fails, rsync included, the end of the
  program, or a task that begins beside another one. One is the limit: rsync
  that cannot be launched twice, or a stopped task that lives through two
  backups of the other one, empties the disk of complete copies.
* `ImageExacte`: without a fault no attempt, stopped or not, leaves an
  `.inprogress` that the next rsync would mix its files with.
* `JamaisEnArriere`: without a fault no step takes away the newest copy.

* `Couverture`: for a month, each complete backup is still there, or one made less
  than an hour, a day, a week after it, as its age allows, whatever stops, faults
  and crashes follow. This is what thinning by runs of equal numbers over moving
  age classes is for, and the hardest claim about it.
* `LienSuit`: without a fault `current` names the newest complete backup.
  `LienVivant`: with any fault it names a directory that exists, unless the user
  deleted it or rsync made none.
* `BaseCoherente`, `ActionSurCleChoisie`, `MonteeConnue`: array, index and view
  agree; what a button works on is what the user chose, if no key was added under
  its dialog ("Back up now" takes the row for a position, and is right without a
  sort only); a key at work in the engine has a record, unless a deletion crossed a
  registration (`croise`).
* `Coherence`: below a box that is on all is on, below one that is off all is off,
  below a mixed one there are both. `RaffineSelection`: see above.
* `OrdonnanceurReprend`: with no window open the scheduler holds a timer that
  fires. `AucunLancement`: with one open nothing planned is launched, but by a
  wake-up already on its way or after `OuvrirVide`. `RestaurationSeule`: a
  restoration copies with the lock, and the only backup that may run beside it is one that was
  stopped while it waited. `ModaleFinit`: the sheet comes down, if it listened in
  time. `PlanServi`: what is due is launched when the window stays closed.

Every property of a passing run has a mutant of the code in PROJECT.json: the wrong
variants, marked "Wrong variant" in the modules, are used by nothing else.

### Fairness

`CR_TraitementsMultiThreads`: weak fairness of each thread and of the main thread
once it has begun to stop: the system schedules threads, a task ends. Nobody has
to submit or to stop. `Moteur`: strong fairness of the dispatcher, of each backup
thread and of the main thread. Strong, because they compete for locks that are
taken and given back again and again (the scheduler's passes are 15 s apart, a
polling task tries four times a second): a lock that is free infinitely often is
obtained. Volumes, clock and user owe nothing. `Restauration`: weak fairness of the
threads and of the main thread's steps (timers that fire, what other threads asked
for, the modal loop that was aborted): nothing there is disabled again and again by
another thread but the tasks among themselves, which `EnCours` orders. The user
owes nothing: `PlanServi` supposes that the window is closed for good.
`SauvegardeIncrementale`, `ListeDesCles` and `CR_NoeudFS` state no fairness.

## 4. Proofs

All theorems hold for every value of the constants under the named assumptions:
`ThreadsAssumption` (finitely many threads, at least one), `TachesAssumption`
(stop object and no-task are not tasks), `MoteurAssumption` (types of the
settings; finitely many volumes), `IncrementaleAssumption` (the periods of a
calendar: lengths that grow, one number per period, and equal numbers one period
apart at most inside an age class), `SauvegardeAssumption` (no-task is not a task),
`RestaurationAssumption` (finitely many threads, at least one; any number of
restorations, of openings and of turns; at most two entries that come due, of
which a pass takes one: of more it takes every other one, which is not modelled) and
`ListageAssumption` (the listing of the directories is in the order of their names,
hence of their dates).

* `PD_Planificateur_proofs`: `SansCleGardeLesAutres` (removal of a key keeps all
  other entries in order), and the lemmas that insertion at `Rang` and removals
  keep the order.
* `CR_TraitementsMultiThreads_proofs`: `Inductif` is `TypeOK`, `PasDeReveilPerdu`,
  `CompteurFidele` and six facts: a thread that runs a task has a task
  (`PriseReelle`), a listed task has a thread that runs it (`ListeFidele`), the
  threads are off exactly before `run:` (`TousDemarres`), after YES the set
  of the threads that have not left is empty (`OuiSansPersonne`). That is why
  `ArretComplet` holds: the counter reaches 0 only when that set is empty, and
  nobody enters it again. The last two are for the refinement: the file holds submitted
  tasks, each once and none that is taken, until `arreter:` empties it, and stop
  objects only from then on (`FileDeTaches`); a task that is taken was submitted and
  belongs to one thread (`PriseUnique`). With them a submission is a
  `Soumettre`, a take a `Demarrer` (the thread
  that takes is one more than the tasks taken), the end of a task a `Terminer`, the
  first step of the stop an `Abandonner` of what waits, and every other step nothing,
  the stop objects and the listing of tasks included. Theorems: `TypeCorrect`,
  `AucunReveilPerdu`, `CompteurToujoursFidele`, `ArretToujoursComplet`,
  `PoolExecuteEnOrdre` (the refinement).
* `Moteur_proofs`: `Inductif` is the seven invariants of the engine without
  `ExclusionHorsInterruption`, which follows from `RessourceFidele` (a lock has
  one owner), and three facts `CleJamaisOubliee` needs: while the delete button
  is at work its key is not registered (`SupprSansCle`: it keeps the monitor), the
  dictionary gives for an idCle a key with this idCle (`MonteesFideles`), and a
  thread about to plan was told to (`ReplanifieDemande`). The proof goes by
  shared operation first (what `planifier`, `deplanifierCle`, a launch, a removal
  from the file, a take each do to "somewhere there is a next backup"), then by
  actor. Theorems: `TypeCorrect`, `RessourceToujoursFidele`, `ExclusionToujours`,
  `DrapeauToujours`, `PlanToujoursTriee`, `AucunReveilPerdu`, `CleToujoursSuivie`.

* `ListeDesCles_proofs`: `IInv` is the coherence of the base, `ActionSurCleChoisie`,
  `MonteeConnue`, and three facts: what the dispatcher found of its key still holds
  unless a deletion crossed it (`IDisp`), the row or the position a button keeps over
  its dialog is still that of the chosen key unless a key was added (`ILigne`), and
  between its two halves a deletion has its key out of the engine (`IMoniteur`). Theorems: `ListeTypes`,
  `BaseToujoursCoherente`, `BoutonSurSaCle`, `MonteesConnues`, for every set of
  keys and every sort that permutes.
* `CR_NoeudFS_proofs`: for every forest of any depth, `Inductif` is `TypeOK`,
  `Haut` (whatever leads to a read node is open) and the three parts of
  `Coherence`. The lemmas about paths come first (`Fourche`: two ancestors of a node
  are one below the other; `HorsChemin`, `PlusBas`, `Chaine`), then what each action
  does to the boxes, then the refinement, action by action. Theorems: `TypesDeLArbre`,
  `CasesCoherentes`, `SelectionImplementee`.

* `SauvegardeIncrementale_proofs`: for every calendar. `IInv` is `TypeOK`, where the
  task is and what it has listed (`ITache`), what `current` may name at each step
  (`ILien`), which directories are whole (`IEntiers`), that without a fault the link
  follows (`ISuit`) and the history (`IHistoire`): the witness of `Couverture` is
  represented on the disk by a directory of the week of a directory `j` of the day of
  a directory `h` of its own hour, and a chain that is on the disk when the retention
  lists it keeps a representative out of `aSupprimer`. `Couverture` alone is not
  inductive: it says how far the representative is, not through which periods, and the
  next thinning acts period by period. The argument is that of a run of equal numbers
  the retention keeps the last (`Survivant`), taken first by hours, then by days, then
  by weeks. Theorems: `TypesIncrementaux`, `HistoireCouverte`, `LienSuitToujours`,
  `LienToujoursVivant`.

* `SauvegardeFull_proofs`: for any set of tasks and any number of runs of rsync and of
  faults (`SauvegardeAssumption`: no-task is not a task). No property but `TypeOK` is
  inductive: what a fault leaves depends on where each task stood. `IInv` has `TypeOK`,
  that a task not asked to stop owns the lock (`IVerrou`), that until something goes
  wrong a task is alone and a stop ends it before the rotation (`ISeul`), that with one
  fault at most one of two tasks moves no directory (`IFantome`), the age of the copies
  (`IImages`, `IEcrit`), and where the copy is at each step with no fault (`IPropre`,
  `IZero`) and after one (`IUn`). The proof of a fault goes from `IZero` to `IUn`. Theorems:
  `TypesFull`, `CopieToujoursGardee`, `ImageToujoursExacte`, `CopieJamaisEnArriere`
  (the action property, from the same invariant).

* `Restauration_proofs`: only the restoration alone and the launches can be read off a
  state; `IInv` adds what they rest on. Tasks are numbered in the order they are made,
  and the entries taken from the planning and the restorations are all of them
  (`IComptes`), which bounds the numbers. The file is strictly increasing and holds
  tasks nobody has taken (`IFile`), so a task is taken once; what a task is, by where it
  is (`IGenre`); a window that waits has a task (`ICourante`). Nobody is past
  `testEtPrendre:` without the lock but a task asked to stop, and from its notification
  to its copy a restoration has the lock (`IVerrou`): it leaves at its next test when it
  was stopped. A closed window leaves one valid timer, the scheduler's; an open one
  leaves none, and knows every wake-up that is still on its way (`IReveils`), which is
  what `AucunLancement` needs and `OrdonnanceurReprend` alone does not say. Theorems:
  `TypesRestauration`, `OrdonnanceurToujoursRepris`, `RestaurationToujoursSeule`,
  `AucunLancementToujours` (the action property).

Every safety property a passing run checks, refinements and action properties
included, is a theorem. Only model-checked: the liveness properties
(`ToutSeTermine`, `RessourceRendue`, `AttenteFinie`, `DispatcheurRevient`,
`ModaleFinit`, `PlanServi`), for the prover does no fairness. The two lemmas
about `CR_File` stand in the modules of its two users.

## 5. Not modelled

Left out for good: layout and wording of the windows, nibs, icons, help, rsync and
unison themselves (`Commandes externes/`, code of others that the program launches
as commands: most of the lines of the repository), the conversion of property lists.

Left out because nothing in it is hard to test, or because it cannot be done
faithfully with what the source says:

* `synchronisation:` launches unison on the volume and `sync/`; what a stop leaves
  there is unison's matter.
* `PD_Moteur arreter` with the waits on the main thread: each pool's stop is in
  `CR_TraitementsMultiThreads`; that a message waits for a main thread which waits
  for the pool is a hazard in PROJECT.json without a property, since the time-out
  ends it in every case.
* An exception raised inside `executerTache:` of a backup: the launch of rsync
  catches its own (PD_TacheSauvegarde.m:429-484), and the source raises none
  elsewhere in it. In `SauvegardeIncrementale`, a second task stopped while it waits
  for the lock is reduced to its own dated directory.
* The three interleavings that a property excludes by name, because the code goes
  wrong there: a key added under the dialog of a button (`ajout`; the run
  `liste_suppression` shows it), a deletion that meets a registration (`croise`) and
  an end of restoration nobody listens to yet (`manquee`). They are steps of the
  models; no line of the repository rules the last two out, so that no run
  refutes one.
* DB_Cles without a lock: a method is one action. What Cocoa collections do when two
  threads are inside is undefined; the hazard is listed.
* CI_ConfigCle: its OK button may delete `<new directory>/<idCle>` when the
  directory is changed (CI_ConfigCle.m:353); it is a sequence of statements on one
  thread.
* The list of the files chosen for a restoration (`listeFics`) is never given to the
  task: the restoration counts to ten. `CR_NoeudFS` ends with the list,
  `Restauration` has the task.
* A link to a directory above it would make the listing of `CR_NoeudFS` walk in
  circles (`fileExistsAtPath:` follows it, CR_NoeudFS.m:16); the model's paths are
  finite and the disk does not change while the window is open.
* CI_ProgressionRestauration.m:114 releases the shared notification center, which it
  does not own: memory management is not modelled.

What was seen in the code and is modelled without a run of its own: a task taken
and not yet listed is not asked to stop (CR_TraitementsMultiThreads.m:74); the stop
keeps `NON_VIDE` on an array it emptied (:68); a task stopped while it waits for the
lock of its key goes on without it (PD_TacheSauvegarde.m:775); an unmount removes one
waiting task of a key out of two (PD_TraitementDesTaches.m:46); `old` is removed
although rsync could not be launched (PD_TacheSauvegarde.m:603).

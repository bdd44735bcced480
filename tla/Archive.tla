------------------------------ MODULE Archive ------------------------------
(***************************************************************************)
(* Archives (archive.rs and archive/): a multipart upload that can be      *)
(* cancelled at any time, imports that publish a new directory, and the    *)
(* conversion of player saves between the native and the client layout.    *)
(* The three share nothing but the compressor's permit: task says which    *)
(* one a behaviour is about.                                               *)
(*                                                                         *)
(* upload    the worker: its step, whether it owns a multipart upload to   *)
(*           abort, parts sent, whether it was cancelled, and its result;  *)
(*           store: the multipart object (external)                        *)
(* importer  per import: its step and the files it has written; permit:    *)
(*           the import that has the compressor of its process             *)
(* published the destination: the import it holds and its files            *)
(* told      imports that were reported as done                            *)
(* transfer  player directories of the room, of its client export, and of  *)
(*           the import of that export, and whether one was refused        *)
(***************************************************************************)
EXTENDS Naturals, Integers, Sequences, SequencesExt, FiniteSets

CONSTANTS
    Parts,                  \* parts of an archive
    Importers, Nothing,
    ProcessOf(_),           \* the process an import runs in
    ImportFiles,            \* files of an imported room
    KleiIds                 \* player IDs: the eight digits after "KU_"

\* An ID has eight digits of an alphabet of 64.
ASSUME ArchiveAssumption ==
    /\ Parts \in Nat /\ Nothing \notin Importers
    /\ IsFiniteSet(KleiIds) /\ \A id \in KleiIds : id \in Seq(0 .. 63) /\ Len(id) = 8

VARIABLES task, upload, store, importer, permit, published, told, transfer

uploadVars == <<upload, store>>
importVars == <<importer, permit, published, told>>
archiveVars == <<task, uploadVars, importVars, transfer>>

NoDestination == [owner |-> Nothing, files |-> {}]

-----------------------------------------------------------------------------
(* Player directories *)

ID_BITS == 6        \* of a digit of the ID alphabet
PATH_BITS == 5      \* of a digit of the path alphabet
KU == <<20, 30>>    \* "KU" in the ID alphabet
A7 == <<10, 7>>     \* "A7" in the path alphabet

\* What the bits of a digit are worth, from its last one on.
Powers == <<1, 2, 4, 8, 16, 32>>

BitsOf(digits, width) ==
    [i \in 1 .. Len(digits) * width |->
        (digits[((i - 1) \div width) + 1] \div Powers[width - ((i - 1) % width)]) % 2]

Value(bits) == FoldLeft(LAMBDA v, b : 2 * v + b, 0, bits)

DigitsOf(bits, width) ==
    [k \in 1 .. Len(bits) \div width |-> Value(SubSeq(bits, (k - 1) * width + 1, k * width))]

encode_klei_id(id) == DigitsOf(BitsOf(KU \o id, ID_BITS), PATH_BITS)

decode_klei_id(code) == DigitsOf(BitsOf(code, PATH_BITS), ID_BITS)

\* "KU_" and the ID, the same with "_" behind it, an encoded ID, a name that is
\* none of these.
Directory(form, digits) == [form |-> form, digits |-> digits]

Directories ==
    {Directory("id", i) : i \in KleiIds} \union {Directory("id_", i) : i \in KleiIds}
        \union {Directory("path", encode_klei_id(i)) : i \in KleiIds}
        \union {Directory("path", <<0>>), Directory("path", A7)}

IsEncoded(d) == d.form = "path" /\ Len(d.digits) > 1 /\ SubSeq(d.digits, 1, 2) = A7

\* One directory as normalize renames it.
Renamed(d, encoded, target) ==
    CASE target /\ ~encoded /\ d.form \in {"id", "id_"} ->
             Directory("path", encode_klei_id(d.digits))
      [] encoded /\ ~target /\ IsEncoded(d) ->
             Directory("id_", SubSeq(decode_klei_id(d.digits), 3, 10))
      [] OTHER -> d

Collide(dirs, encoded, target) ==
    \E d, e \in dirs : d # e /\ Renamed(d, encoded, target) = Renamed(e, encoded, target)

\* What looks like an encoded ID and has another length cannot be decoded.
Undecodable(dirs, encoded, target) ==
    encoded /\ ~target /\ \E d \in dirs : IsEncoded(d) /\ Len(d.digits) # 12

\* A shard is its name, how it encodes players, and their directories.
ClientName(s) == IF s.master THEN "Master" ELSE "Caves"
NativeName(s) == IF s.name = "Master" THEN "forest" ELSE "cave"

\* Clients encode players, native rooms do not.
Convert(shards, target) ==
    {[s EXCEPT !.name = IF target THEN ClientName(s) ELSE NativeName(s), !.encoded = target,
               !.players = {Renamed(d, s.encoded, target) : d \in s.players}] : s \in shards}

NoTransfer == [native |-> {}, client |-> {}, imported |-> {}, refused |-> FALSE]

ArchiveInit ==
    /\ task \in {"upload", "import", "transfer"}
    /\ upload = [step |-> "create", owned |-> FALSE, sent |-> 0, cancelled |-> FALSE,
                 late |-> FALSE, result |-> "none"]
    /\ store = [state |-> "none", parts |-> 0]
    /\ importer = [i \in Importers |-> [step |-> "queued", written |-> {}]]
    /\ permit = {} /\ told = {}
    /\ published = NoDestination
    /\ IF task = "transfer"
       THEN \E master, other \in SUBSET Directories, first, second \in BOOLEAN, alone \in BOOLEAN :
                transfer = [NoTransfer EXCEPT !.native =
                    {[name |-> "world", master |-> TRUE, encoded |-> first, players |-> master]}
                    \union IF alone THEN {}
                           ELSE {[name |-> "under", master |-> FALSE, encoded |-> second,
                                  players |-> other]}]
       ELSE transfer = NoTransfer

\* Client export: exactly two shards, and no two directories may meet.
ExportToClient ==
    /\ task = "transfer" /\ transfer.client = {} /\ ~transfer.refused
    /\ IF Cardinality(transfer.native) # 2
          \/ \E s \in transfer.native : Collide(s.players, s.encoded, TRUE)
       THEN transfer' = [transfer EXCEPT !.refused = TRUE]
       ELSE transfer' = [transfer EXCEPT !.client = Convert(transfer.native, TRUE)]
    /\ UNCHANGED <<task, uploadVars, importVars>>

ImportFromClient ==
    /\ task = "transfer" /\ transfer.client # {} /\ transfer.imported = {} /\ ~transfer.refused
    /\ IF \E s \in transfer.client : \/ Undecodable(s.players, s.encoded, FALSE)
                                 \/ Collide(s.players, s.encoded, FALSE)
       THEN transfer' = [transfer EXCEPT !.refused = TRUE]
       ELSE transfer' = [transfer EXCEPT !.imported = Convert(transfer.client, FALSE)]
    /\ UNCHANGED <<task, uploadVars, importVars>>

-----------------------------------------------------------------------------
(* Upload *)

Uploading(step) == task = "upload" /\ upload.step = step

\* cancel, or the task dropped.  "late": completion was already asked for.
CancelUpload ==
    /\ task = "upload" /\ ~upload.cancelled /\ upload.step # "ended"
    /\ upload' = [upload EXCEPT !.cancelled = TRUE, !.late = upload.step \in {"complete", "abort"}]
    /\ UNCHANGED <<task, store, importVars, transfer>>

EndUpload(result) == upload' = [upload EXCEPT !.step = "ended", !.result = result]

\* The request is never dropped; but one that failed may have reached the store, and
\* without its reply there is no upload ID to abort.
CreateMultipart ==
    /\ Uploading("create")
    /\ \/ /\ store' = [store EXCEPT !.state = "open"]
          /\ upload' = [upload EXCEPT !.step = "part", !.owned = TRUE]
       \/ EndUpload("error") /\ store' = [store EXCEPT !.state = "open"]
       \/ EndUpload("error") /\ UNCHANGED store
    /\ UNCHANGED <<task, importVars, transfer>>

\* Mutant: the cancellation is only seen between parts.
CancelSeenBetween == upload.cancelled /\ upload.sent < Parts

CancelSeen == upload.cancelled

\* Before each part, and before completion.
CheckCancelled ==
    /\ Uploading("part")
    /\ upload' = [upload EXCEPT !.step = IF CancelSeen THEN "abort"
                                         ELSE IF upload.sent = Parts THEN "complete" ELSE "send"]
    /\ UNCHANGED <<task, store, importVars, transfer>>

\* A failed request may have stored its part.
SendPart ==
    /\ Uploading("send")
    /\ \/ /\ store' = [store EXCEPT !.parts = @ + 1]
          /\ \/ upload' = [upload EXCEPT !.sent = @ + 1, !.step = "part"]
             \/ upload' = [upload EXCEPT !.step = "abort"]
       \/ upload' = [upload EXCEPT !.step = "abort"] /\ UNCHANGED store
    /\ UNCHANGED <<task, importVars, transfer>>

\* A failed completion may have reached the store: an abort follows it.
CompleteMultipart ==
    /\ Uploading("complete")
    /\ \/ store' = [store EXCEPT !.state = "complete"] /\ EndUpload("ok")
       \/ store' = [store EXCEPT !.state = "complete"] /\ upload' = [upload EXCEPT !.step = "abort"]
       \/ upload' = [upload EXCEPT !.step = "abort"] /\ UNCHANGED store
    /\ UNCHANGED <<task, importVars, transfer>>

\* A failed abort may have reached the store, too.
AbortMultipart ==
    /\ Uploading("abort")
    /\ \/ /\ store.state = "open" /\ store' = [store EXCEPT !.state = "aborted"]
          /\ EndUpload("error") \/ EndUpload("abort failed")
       \/ EndUpload("abort failed") /\ UNCHANGED store
    /\ UNCHANGED <<task, importVars, transfer>>

-----------------------------------------------------------------------------
(* import_cluster and write_new_directory *)

Importing(i, step) == task = "import" /\ importer[i].step = step
Proceed(i, step) == importer' = [importer EXCEPT ![i].step = step]

\* One conversion at a time in a process; others wait for the permit.
TakePermit(i) ==
    /\ Importing(i, "queued") /\ \A j \in permit : ProcessOf(j) # ProcessOf(i)
    /\ permit' = permit \union {i}
    /\ Proceed(i, "check")
    /\ UNCHANGED <<task, uploadVars, published, told, transfer>>

EndImport(i) ==
    /\ importer' = [importer EXCEPT ![i] = [step |-> "ended", written |-> {}]]
    /\ permit' = permit \ {i}

\* The destination must not exist; then everything is read and rebuilt in memory.
CheckDestination(i) ==
    /\ Importing(i, "check")
    /\ IF published = NoDestination THEN Proceed(i, "write") /\ UNCHANGED permit ELSE EndImport(i)
    /\ UNCHANGED <<task, uploadVars, published, told, transfer>>

WriteImported(i) ==
    /\ Importing(i, "write")
    /\ \E f \in ImportFiles \ importer[i].written :
           importer' = [importer EXCEPT ![i].written = @ \union {f}]
    /\ UNCHANGED <<task, uploadVars, permit, published, told, transfer>>

\* renameat2 with RENAME_NOREPLACE.
CanPublish == published = NoDestination

PublishImport(i) ==
    /\ Importing(i, "write") /\ importer[i].written = ImportFiles
    /\ IF CanPublish
       THEN /\ published' = [owner |-> i, files |-> importer[i].written]
            /\ Proceed(i, "synced") /\ UNCHANGED permit
       ELSE EndImport(i) /\ UNCHANGED published
    /\ UNCHANGED <<task, uploadVars, told, transfer>>

ReportImport(i) ==
    /\ Importing(i, "synced")
    /\ told' = told \union {i}
    /\ EndImport(i)
    /\ UNCHANGED <<task, uploadVars, published, transfer>>

\* An unsafe or inconsistent source, an I/O error, or the end of the process;
\* the temporary directory is never the destination.
FailImport(i) ==
    /\ task = "import" /\ importer[i].step \notin {"queued", "ended"}
    /\ EndImport(i)
    /\ UNCHANGED <<task, uploadVars, published, told, transfer>>

ImportStep(i) ==
    \/ TakePermit(i) \/ CheckDestination(i) \/ WriteImported(i) \/ PublishImport(i)
    \/ ReportImport(i) \/ FailImport(i)

ArchiveNext ==
    \/ ExportToClient \/ ImportFromClient
    \/ CancelUpload \/ CreateMultipart \/ CheckCancelled \/ SendPart
    \/ CompleteMultipart \/ AbortMultipart
    \/ \E i \in Importers : ImportStep(i)

ArchiveSpec == ArchiveInit /\ [][ArchiveNext]_archiveVars

-----------------------------------------------------------------------------
\* A finished upload is reported as done only when every part is in a completed
\* object, and a cancellation that came before completion was asked for never
\* publishes one.  An open multipart is left behind only if the failed abort is
\* reported, or if the store obeyed a create whose reply was lost: then the upload
\* failed and not a part of the archive is in it (upload, UploadTask).
UploadIsHonest ==
    /\ upload.result = "ok" => store = [state |-> "complete", parts |-> Parts]
    /\ upload.cancelled /\ ~upload.late => store.state # "complete"
    /\ upload.step = "ended" /\ store.state = "open" =>
           \/ upload.result = "abort failed"
           \/ ~upload.owned /\ upload.result = "error" /\ store.parts = 0

\* A destination holds a whole import from the moment it exists, and an import
\* that was reported is the one it holds (write_new_directory).
ImportsAreWhole ==
    /\ published # NoDestination => published.files = ImportFiles
    /\ told \subseteq {published.owner}

\* The player a directory belongs to; a name of another kind stands for itself.
PlayerOf(d) ==
    CASE d.form # "path" -> d.digits
      [] IsEncoded(d) /\ Len(d.digits) = 12 -> SubSeq(decode_klei_id(d.digits), 3, 10)
      [] OTHER -> d.digits

\* Through a client export and the import of it, every shard keeps the saves of
\* every player apart and under the same player: none is merged, lost or given
\* to somebody else (normalize, encode_klei_id, decode_klei_id).
TransfersKeepPlayers ==
    LET kept(before, after, same(_, _)) ==
            after # {} =>
                \A s \in before : \E r \in after :
                    /\ same(s, r)
                    /\ Cardinality(r.players) = Cardinality(s.players)
                    /\ {PlayerOf(d) : d \in r.players} = {PlayerOf(d) : d \in s.players}
    IN  /\ kept(transfer.native, transfer.client, LAMBDA s, r : r.name = ClientName(s))
        /\ kept(transfer.client, transfer.imported, LAMBDA s, r : r.name = NativeName(s))

\* What leaves the host and what enters it is whole (upload, write_new_directory,
\* normalize).
ArchivesAreWhole == UploadIsHonest /\ ImportsAreWhole /\ TransfersKeepPlayers
=============================================================================

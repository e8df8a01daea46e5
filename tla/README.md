# minibucket in TLA+

minibucket is a small S3 server in Rust without dependencies: an HTTP/1.1 front
end, SigV4 authentication and a bucket/object store that keeps everything in a
directory tree. This directory holds its TLA+ development: the modules that model
it, the TLC configurations that check them, and the theorems TLAPS proves.

    tlc -config Serial.cfg MCObjectStore.tla      # any configuration of "Runs"
    tlc -config Uploads.cfg MCMultipart.tla
    tlc -config Requests.cfg MCServer.tla
    tlapm ObjectStoreProofs.tla                   # the object store, any key
    tlapm SerialKeyProofs.tla                     # the object store, serial keys
    tlapm MultipartProofs.tla                     # the tree of one bucket and its handlers
    tlapm OrderlyProofs.tla                       # the same of orderly clients, and the refinement
    tlapm CalendarProofs.tla                      # dates
    tlapm ServerProofs.tla                        # requests
    tlapm FramingProofs.tla                       # lemmas: the body readers
    tlapm BodyProofs.tla                          # bodies, changes, answers and listings

## 1. The system

`main` accepts connections and gives each a thread of its own (`main.rs:134`).
The thread reads one request, authenticates it, dispatches it to one handler,
answers and ends. **There is no lock and no shared state in memory** apart from two
counters behind version and upload identifiers; whatever two requests do to each
other, they do through the file system. Nothing is synced, nothing is journalled,
and nothing is repaired when the server starts. All the hard behaviour follows from
that: every handler is a sequence of system calls, any other handler's calls may
come between two of them, and the handler may stop after any of them.

| component | state | operations | what makes it correct |
|---|---|---|---|
| **Object store** `storage.rs`, `s3.rs` | per bucket `data/<key>`, `meta/<key>.meta`, `versions/<key>/<vid>.{data,meta,delete-marker}`, `.versioning`; per upload a `.tmp-upload` file, an open descriptor and an MD5 context | PUT (`put_object_writer`, `write`, `finish`, `abort`), GET, COPY, DELETE, DELETE of several, GET/DELETE `?versionId`, PUT/GET `?versioning` | an acknowledged version is durable, whole and immutable; the live files are those of the last request that succeeded and agree with the newest version; a GET serves one object whole |
| **Listings** `storage.rs:406-490` | none of its own; reads the tree | `list_objects` (prefix, delimiter, marker, max-keys), `list_versions` | paging visits every key once; common prefixes partition the keys; one latest entry per key |
| **Bucket lifecycle** `storage.rs:160-205` | the bucket's directory and its `.bucket` marker | create, delete, head, list | no object is lost by a deletion that was refused or raced; an empty bucket can be deleted |
| **Multipart** `multipart.rs` | `uploads/<id>/.info`, `parts/<n>`, `parts/<n>.meta` | create, upload part, complete, abort, list parts, list uploads | the object is the concatenation of the parts named; an upload completes at most once; abort leaves nothing |
| **Request bodies** `http.rs`, `sigv4.rs:300-400` | bytes remaining, chunk state, the previous signature | `FixedReader`, `AwsChunkedReader`, `ChunkContext` | what is delivered is what the client framed and signed, in order; a broken chain delivers no more and does not commit |
| **Request head** `http.rs`, `url.rs` | none | `read_request`, percent decoding, query parsing | limits hold; decoding inverts encoding |
| **Authentication, dispatch** `main.rs`, `sigv4.rs`, `s3.rs:18` | none | `authenticate_presigned`, `verify`, `dispatch` | a request signed for what the client means is let in and reaches the handler the client means; nothing changes that nobody asked for |
| **Byte ranges** `s3.rs:500-560` | none | `parse_range` and the arithmetic of `get_object` | 0 <= start <= end < size in 64 bits |
| **Dates** `util.rs`, `main.rs:280` | none | `civil_from_days`, `days_from_civil`, `parse_amz_date`, the expiry window | the two conversions are inverse; the window has the right ends |
| **Tagging** `tagging.rs` | `tags/<key>` sidecar | put, get, delete tags | tags describe the object they were put on |
| **Hashes** `md5.rs`, `sha256.rs`, `hmac.rs` | none | pure functions | published test vectors |
| **Credentials, command line** `creds.rs`, `main.rs` | read once at start | - | - |

How they interact: PUT, COPY and CompleteMultipartUpload share one `ObjectWriter`;
its bytes come from a body reader, a GET's descriptor or the parts. `finish` and
`repromote_latest` are the two pieces of code that relate the live files to the
versions. `list_objects` and `delete_bucket` look at the same tree with different
eyes (the first leaves out `.tmp-upload` files, the second counts them).

The behaviours that are hard, each listed with its line under `hazards` in
`PROJECT.json`: interleavings of two handlers on one key, and on two keys that share
a temporary path; the window in which `.versioning` is empty; a handler that stops
between two of `finish`'s steps; what an abandoned upload leaves behind; a copy
in place under a reader; arbitrary sequences of PUT, DELETE and DELETE of single
versions; the wall clock in the version identifiers; a directory removed under a
request that has just made it.

## 2. Modules

| module | what it is |
|---|---|
| `ObjectStore` | the object store of one bucket: state, actions, properties |
| `MCObjectStore` | the values TLC gives its constants |
| `Versions` | extends it with GET `?versions`: what a client reads of a key's versions |
| `BucketTree` | the directory tree of one bucket and the handlers that change its shape: bucket lifecycle, PUT and DELETE in a subdirectory, tags |
| `Multipart` | extends it with the handlers of `multipart.rs`; the specification and the properties of both |
| `AtomicUploads` | what multipart uploads promise; `Multipart` implements it |
| `MCMultipart` | the worlds TLC explores of `Multipart` |
| `Calendar` | days and civil dates of `util.rs`, and the calendar by counting |
| `Listing` | one page of a listing as a function of the keys |
| `Framing` | the body readers of `http.rs` and the chain of chunk signatures |
| `Routes` | extends `Calendar` and `Listing` with decoding, SigV4, the order of checks and dispatch |
| `Server` | extends `Routes` and `Framing`: clients, connection, handlers, answers; the properties of all five |
| `MCServer` | the worlds TLC explores of `Server` |
| `ObjectStoreProofs` | the theorems about all keys, whatever overlaps, with their inductive invariant |
| `SerialKeyProofs` | the theorems about the keys whose mutating requests come one at a time, with theirs |
| `MultipartProofs` | the theorems about `BucketTree` and `Multipart`, with their inductive invariant |
| `OrderlyProofs` | extends it with the theorems about clients that do not race each other, with their inductive invariant, and the refinement |
| `CalendarProofs` | the theorems about `Calendar` |
| `ServerProofs` | lemmas about `Routes` (the first rule that applies, lines of a head, decoding, addressing) and the theorems about the requests of `Server`, with their inductive invariant |
| `FramingProofs` | lemmas about the readers of `Framing` |
| `BodyProofs` | extends both with the theorems about bodies, changes and ranges of `Server`, with their inductive invariant, and those about listings, with theirs |

### How `ObjectStore` corresponds to the code

One process per request, one action per system call that another thread can tell
apart. A **regular file is an inode plus a name**, because the code depends on the
difference: `OpenOptions..truncate`, `File::create` and `fs::copy` onto an existing
name truncate the inode that is there, under the feet of whoever has it open or has
another name for it; `rename` and `unlink` change the name alone.

| variable | code |
|---|---|
| `pc, op, key` | where the handler of each request is, what it does, to which key |
| `mode` | `ObjectWriter.versioning`, or the status a DELETE read |
| `sum` | the blocks fed to `ObjectWriter.md5`, hence the ETag; for a GET, the announced length and then the bytes sent |
| `fd` | the inode the handler has open |
| `from` | the inode `copy_object` reads |
| `vid`, `src` | the version identifier it made or was given; `latest_vid` of `repromote_latest` |
| `status` | the contents of `.versioning` |
| `tmp[s]`, `data[k]`, `meta[k]` | the inode each temporary path, `data/<key>` and `meta/<key>.meta` name, or `NoFile` |
| `body[i]`, `info[i]` | the contents of data inode `i`, of metadata inode `i` |
| `vdir, vdata, vmeta, vmark` | the directory `versions/<key>` and which `<vid>` it has a data, metadata and marker file for |
| `vbody, vinfo` | the contents of `<vid>.data` and `<vid>.meta` |
| `last` | history: the last mutating request that began on each key. No guard reads it. |

| action | code |
|---|---|
| `PutObjectWriter` | `put_object_writer`: open with truncate at `path.with_extension("tmp-upload")`, read the status |
| `CopyObject`, `CopyWriter`, `CopyBlock`, `FinishCopy` | `copy_object`: open the source, open the upload as a PUT does, one `read` and one `write` after the other, then `finish` |
| `WriteBlock`, `Abort` | the read loop of `put_object` with `ObjectWriter::write`; `abort` after a failed write |
| `Rename` .. `MetaFill` | `ObjectWriter::finish`, call by call: rename, identifier and `create_dir_all`, `fs::copy` (`CopyOpen`, then `CopyFill` for each block), the version's metadata, the live metadata |
| `DeleteObject`, `MarkerVersion`, `CreateMarker`, `UnlinkData`, `UnlinkMeta` | `delete_object` |
| `DeleteVersion`, `PurgeRest`, `Scan`, `MirrorOpen`, `MirrorFill`, `Tidy` | `delete_object_version` with `repromote_latest`; it shares `MetaCreate`, `MetaFill`, `UnlinkData`, `UnlinkMeta` |
| `GetObject`, `GetObjectVersion`, `EndGet` | `get_object` and `get_object_version` of `storage.rs` with `get_object` of `s3.rs`: open and announce the length, then stream |
| `PutVersioning`, `PutVersioningFill` | `set_versioning_status`: `fs::write` truncates, then writes |
| `Abandon` | the handler stops anywhere: an error passed up by `?`, a panic, a lost client, a crash of the server |

The constants say which world is being looked at. `Exclusive` is the set of pairs of
keys whose mutating requests do not overlap (all, none, or each key with itself);
`ClockMonotone` says that the wall clock is not set back; `Faults` allows `Abandon` and
`Abort`. They restrict the clients and the environment, never the code. A PUT
`?versioning` overlaps whatever it likes and may stop between the truncation of
`.versioning` and the write, which leaves the bucket without versioning until the next
one; the requests that find it so are told apart from the others by `Tracked`.

`Versions` adds no state: `ListVersions(k)` is what `walk_versions` and `list_versions`
make of the files of a key at one instant, a set, since the order of the answer is that
of the identifiers and shows only in which entry is the latest; so its properties speak
of keys that no mutating request is at work on. The stems of `.data`, `.delete-marker`
and `.meta` files each make an entry, and the first of a key is flagged as the latest,
*also if it is a delete marker* (the comment at `storage.rs:475` says it is not;
`MirrorsNewest` and GET agree with the code).

### Abstractions

- A body is a sequence of at most `MaxBlocks` blocks, each marked with the request
  that sent it. The ETag is that sequence: the digest is taken to be injective. The copy
  of a body into the version store, in view of those who read that version, and the copy
  of a repromotion go block by block.
- A version identifier is a natural number. `new_version_id` formats seconds,
  nanoseconds and a counter at fixed width, so identifiers are unique within a run of
  the server and grow with the clock; `NewVid` takes any unused identifier, or a
  greater one under `ClockMonotone`. `MaxVid` is at least the number of requests.
- A metadata file is created empty in one step and gets all its lines in the next.
  `<vid>.delete-marker` and the metadata next to it appear in one step, and
  `<vid>.meta` and `<vid>.delete-marker` go in one. `read_dir` is one step.
- `exists()` followed by the operation it guards is one step, where the only other
  outcome is an error: that is `Abandon`.
- Keys have no `/`: `prune_empty_data_dirs` and the pruning under `versions/` remove
  nothing. That a PUT can fail because its directory was pruned is within `Abandon`.
- One bucket, which exists throughout. A COPY names two keys of it.
- DELETE of several keys is the deletes of one thread one after the other; the model's
  deletes are independent requests, which include that order.
- `is_delete_marker`, the reading of the version's metadata and the open of its data are
  one step: no identifier is both, and neither changes once the metadata has its lines.
- A crash is `Abandon` of every handler. Restarting changes nothing: there is no
  recovery code. Writes are taken to survive a crash of the process; the code never
  syncs, so a power failure is out of scope for model and code alike.

### How `BucketTree` and `Multipart` correspond to the code

The state is a function `fs` from the paths that exist to their contents; a directory
and an empty file have no contents (`Empty`). Two kinds of fact then fit in one line:
`create_dir_all` is `Make` of a path and all above it, and an operation on a file fails
if its directory is not in the domain. Each thread has a record `job` and serves one
request after another; `env` is the world, which says what clients send and which
handlers may stop.

| action | code |
|---|---|
| `CreateBucket`, `MakeBucket`, `MarkBucket` | `create_bucket`: marker tested, directories, marker |
| `DeleteBucket`, `ScanData`, `ScanVersions`, `Remove`, `Removed` | `delete_bucket`: marker tested, `has_any_file` twice, `remove_dir_all` entry by entry |
| `Put`, `MakeParent`, `OpenTmp`, `Rename`, `Finish` | `put_object_writer` and `finish`, as far as they make and need directories; the rename fails where a directory has the object's name (`Nest`), and the handler answers 500 without `abort` |
| `DeleteObject`, `UnlinkObject`, `Prune` | `delete_object` with `prune_empty_data_dirs` |
| `PutTagging`, `MakeTagDir`, `WriteTags`, `DeleteTagging`, `UnlinkTags` | `tagging.rs` |
| `CreateUpload`, `MakeUpload`, `WriteInfo` | `create_multipart` |
| `UploadPart`, `OpenPart`, `WritePart`, `WritePartMeta` | `upload_part`: truncate, body, then the digest |
| `Complete`, `OpenWriter`, `MakeParent`, `OpenTmp`, `PartExists`, `ReadPart`, `ReadDigest`, `Rename`, `Finish`, `RewriteRead`, `RewriteWrite`, `Remove`, `Removed` | `complete_multipart` |
| `Abort`, `Remove`, `Removed` | `abort_multipart` |
| `Abandon` | the handler stops anywhere |

`Remove` is worth a look. `remove_dir_all` reads a directory, removes its entries and
then the directory; what another request has put there since is found as well or makes
the removal fail. The model lets it take the entries it knows in any order and choose
between the two. `complete_multipart` ignores the failure, the others report it.

Abstractions: a body is one block and its digest is the block, so a reader sees a part
truncated or whole, not half of it. No two requests use the temporary path at once
(`Writing = {}`): what happens if they do is `ObjectStore`'s subject. `finish` after
the rename is one step, `File::create` with its lines too. A version is one file, and
two versions are not told apart. One key, in a subdirectory of `data/`; the parents of
`meta/`, `tags/` and `versions/` files are those directories themselves. That a
directory has the object's name, because of keys below it, is a way the world may start
(`nested`); what is in it is not looked at, so it stays until the bucket goes.

The last variables are history: `stored` (an object was acknowledged that no deletion
overlapped), `stray` (a request was abandoned, or overlapped one that removes
directories), and of each upload whether clients know it and which body of each part
was acknowledged last (`life`, `acked`, `settled`).

### The refinement

`AtomicUploads` has three variables: the open uploads, the parts of each, the object.
Completing an upload replaces the object by the listed parts in the listed order and
closes the upload, in one step. It may start with any uploads open, as the bucket of a
world may. `UploadsAreAtomic` is its specification under the mapping in `Multipart`
(`OpenUploads`, `PartsOfOpen`, `ObjectThere`): an upload is open while its directory is there, its creation
was acknowledged, and no handler of it has got past the point of no return. That
point is the rename for a completion and the first unlink for an abort; after it the
many files of the upload, which still exist and go one by one, are no longer those of
an open upload. A part is `Empty` while its body arrives. The mapping is for clients
that do not race each other over one upload (`Disciplined`); others can see an upload
half removed or complete a mixture of parts, and in their worlds the mapping shows
nothing.

### How `Server` corresponds to the code

One connection carries one request (`conn`), from the client's intention `c` to the
answer. Characters are their codes, signatures and digests the terms they are computed
from, so that a signature matches if and only if the same things were signed.

| action | code or environment |
|---|---|
| `SignRequest` | a client signs its next request, or the request for the next page, over the canonical form of what it means |
| `Send` | the network: what of the head and the body arrives; a head may break off between two lines (`BrokenLines`, `BrokenHeads`) or within one (`Partial`) |
| `Accept` | `handle`: `read_request`, then `Authenticate` (`CheckHeader`, `CheckPresigned`), `Addressing` and `Route`, then the handler to its first wait (`PutObject`, `GetObject`, `DeleteObject`, `DeleteObjects`, `ListObjects`) |
| `ReadBody` | one `read` of `AwsChunkedReader` or `FixedReader` |
| `Commit` | `finish` and the answer of `put_object` |
| `DeleteNext` | one key of `delete_objects`: the objects its path leads to go, as in `DeleteObject` |
| `SendBlock` | one turn of `get_object`'s loop |
| `Walk`, `ListPage` | `walk`, an entry at a time, passing over names that end in `.tmp-upload`, and `list_objects` over what it found |
| `Receive`, `Hangup` | the client reads the answer and follows a marker, or sends a presigned request again and reads the next answer; or goes away |
| `Change`, `Tick` | other clients; the clock, with the date |

`Routes.FirstOf` writes the chains of early returns as lists of rules in the code's
order. An object changes in one step here. Abstractions: the path is escaped character
by character (`esc`), query parameters are a set of names (values only where listed
under `ask`), keys have no empty segments, `parse_range` has succeeded or the header is
as good as absent. An XML body is a sequence of items, each in a whole `<Object>`, in a
bare `<Key>`, or torn.

Only `put_object_writer` asks `valid_key`. A GET or a DELETE joins the key to `data/` as
it stands and the system follows it, so `./a` and `b/../a` lead to the object `a`.
`Way` follows a key from directory to directory; `Target` is the object that a key's
path leads to, `Unlinked` the objects a DELETE of it removes, of which one may be named
like the metadata of another (`../data/a` unlinks `meta/../data/a.meta`, the object
`a.meta`). `Passable` asks that every directory on the way exists. Two things are left
out of this: keys that leave `data/` for good, or pass through `meta/`, `versions/` or
another bucket (`PathAssumption` says that no client of the model sends one), and
directories of `data/` that are there without an object below them.

## 3. Runs

| run | world | shows | bounds |
|---|---|---|---|
| `serial` | PUT, COPY, DELETE, DELETE `?versionId`, none of which overlap, and PUT `?versioning`, which overlaps all; two keys with one temporary path; the bucket starts unversioned; failures anywhere, in PUT `?versioning` too | `ReadYourWrites`, `AckedVersionWhole`, `MirrorsNewest`, `LatestIsLive`, `AckedListed` | 4 requests, 1 block |
| `concurrent` | PUT, DELETE, DELETE `?versionId` of one versioned key overlap anyhow; failures; the clock may step back | `AckedDurable`, `AckedVersionFrozen` | 3 requests, 1 block |
| `interleaved` | every kind of request overlaps every other; failures; two keys with one temporary path | `TypeOK`, `Answered` | 2 requests, 2 blocks |
| `reads` | PUT, COPY and DELETE on two keys with paths of their own, one at a time for each key; GETs, GETs of versions and copies' reads anywhere; failures | `ServedWhole` | 3 requests, 2 blocks |
| `uploads` | two threads on the tree of one bucket: bucket lifecycle with objects, with tags and uploads; uploads of orderly clients; uploads and the bucket's deletion racing | `StoredStays`, `NoDebris`, `GoneIsGone`, `AbortedGone`, `PartsKept`, `ETagDescribes`, `UploadsAreAtomic`, `HandlersEnd` | 3, 5 and 2 or 3 requests; one upload, two parts |
| `requests` | one connection after another: every operation in every form, broken heads and bodies, keys with `.` and `..`, ranges, pages, presigned requests over months and years, every day until 2101 | `AsIntended`, `HonestAccepted`, `ChangesAreAsked`, `CommittedIsSent`, `ChunkedIsWhole`, `RangeIsSlice`, `PagesLoseOnlyMarkers`, `NothingListedTwice`, `PresignedWindow`, `CalendarRight`, `RequestsEnd` | below |

Why these bounds are enough to be interesting. Three mutating requests are needed
for a version to be made, deleted and its directory tidied while another request is
about to use it (`concurrent`), and for a marker to be deleted and the version below
it promoted (`serial`); the fourth is the one that switches versioning on, or the
retry after a failure. Two blocks are needed for a torn read and for two writers whose
offsets differ in one file. Two keys are needed because they can share a temporary
path and because a COPY reads one while the other is written; keys that do neither are
independent, since nothing else is shared. `serial` exchanges the keys by symmetry:
there they have the same path and exclude each other and themselves alike, and no
property orders them. `concurrent` leaves COPY out: to the properties it checks a copy
is a PUT that opens its upload later, and the theorems below include it.

`MirrorsNewest` and `LatestIsLive` speak of a key whose last request found the bucket to
record versions, or removed one (`Tracked`). That is all they leave out: a PUT or DELETE
that reads `.versioning` while it is empty, because a PUT `?versioning` is under way or
has crashed, makes no version and no marker, and what is live is then not the newest
version. It must be set right again by the next request that finds versioning on, and
that it is, whatever was stopped where, is part of what the properties say.

`ServedWhole` promises less to a GET of a version than to a GET of the object. The
version's file is filled while a client that guesses its identifier may read it: the GET
announces what is there and serves that, a beginning of the body. A GET that has the
version's metadata, and so its ETag, to send, serves it whole.

`AckedDurable` is the heart of it: for *any* interleaving and *any* failure, a version
the client was told about stays until a client deletes it. It is not obvious:
`delete_object_version` removes the directory when it looks empty while a PUT may be
between `create_dir_all` and its first file there; the PUT then fails, and does not
answer 200. The mutant that drops the error of `fs::copy` (`CopyOpenUnchecked`)
breaks it.

`LatestIsLive` compares two pieces of code that never meet: the entry `list_versions`
flags is found from the names of files, the live file is put in place by `finish` and
`repromote_latest`. It leaves one case out. A DELETE `?versionId` that stops after it has
removed `<vid>.data` leaves `<vid>.meta`; the listing still shows that version, and as
the latest if it was, while the next repromotion passes over it. The property says that
nothing else makes such an entry. With versioning on from the start, four requests are
enough to see it flagged as the latest; in `serial`, where one of the four switches
versioning on, it is seen as an older entry only.

### The worlds of `uploads`

`BucketWorlds`: a bucket that may or may not exist, requests that make and remove it
next to PUTs and DELETEs of an object in a subdirectory, also where a directory has the
object's name, or next to tags and new uploads; any of them may be abandoned. Three requests are enough for debris of one to
be met by a second and judged by a third. `OrderlyWorlds`: five requests of clients
that do not race each other, enough for two parts, a complete in the other order than
their numbers and a request after it; parts may be abandoned. Both part lists matter:
`<<2, 1>>` tells the position in the list from the number of the part, the empty list
makes an empty object. `RacingWorlds`: an upload that exists, with its parts, its
completion, its abort and the deletion of the bucket at once; two threads suffice
because each hazard is one handler's check and another's step.

`NoDebris` and `GoneIsGone` are stated for behaviours in which nothing was abandoned
and no removal overlapped another request. That is not shyness: both fail otherwise,
since `put_object_writer` and `create_multipart` test for the bucket and make
directories later, and would bring back the directory of a bucket just deleted, without
its marker. `NoDebris` leaves out one thing more: a PUT of a key that is a directory
(another key lies below it) fails at the rename, after its body, and forgets its
temporary file. That file is no object to a listing and a file to `delete_bucket`.
`StoredStays` likewise excludes a PUT that overlaps the bucket's deletion:
the deletion tests, then removes, and takes an acknowledged object with it.

### The worlds of `requests`

Each behaviour is in one small world with one kind of request, so the worlds add up
instead of multiplying.

- `RouteWorlds`: each of the 24 operations, path-style and virtual-hosted, escaped as
  needed or more, signed in the header or presigned; requests that are unsigned,
  malformed, by an unknown key, for a bucket that is not there or a key that is not
  valid; with and without authentication; the head may end after any line or within the
  request line or within a line. The key has a blank, a plus and a slash in it.
- `DottedWorlds`: GET, HEAD, DELETE and DELETE of several of nine keys with the segments
  `.` and `..`, between three objects of which one has the name of another's metadata,
  while others remove and put one of them.
- `BodyWorlds`: two chunks of one and two blocks, read two at a time, so that a chunk
  ends within a read and a read within a chunk; four framings; cut, torn, dropped,
  repeated, swapped and altered, in chunks that are signed or in one piece whose digest
  is; deletions of several keys.
- `RangeWorlds`: objects of 0 to 3 blocks, every range from and to 0 to 4, whole or to
  the end, with words of 16 in place of 2^64.
- `ListWorlds`: five keys, two in a directory and one in another, and one that ends in
  `.tmp-upload`; every prefix,
  `max-keys` from 0 to 3, both versions of the protocol; fewer keys while others put
  and delete.
- `TimeWorlds`, `CalendarWorlds`: the ends of February of a leap year and of another
  and the end of a year, in steps of half a day, with expiries at, just below and just
  above the bounds; then every day from 1970 to 2101, which has a century that is a leap
  year and one that is not.

What the properties leave out says as much as what they say. *The key a page returns as
its marker is on no page*, because it is the first key left out and the next page starts
behind it, and *a key that ends in `.tmp-upload`*, which a PUT accepts and a GET serves,
is on none at all; `PagesLoseOnlyMarkers` shows that nothing else is lost. *A DELETE of a
key with `.` or `..`* removes the object its path leads to, which is another key's:
`ChangesAreAsked` says that it removes nothing but that (`Unlinked`). *A body of one
piece that was altered* is committed: its `x-amz-content-sha256` is signed and never
compared with it (`Unseen`). *An empty object
asked for a range* is answered 206 with a length that has wrapped around. *A body of
fixed length that breaks off* is committed with 200 as far as it came; a chunked body
never is. *A head that breaks off* is taken for a whole one: with authentication its
signature no longer matches or covers what is left, without it half a key is a key and
the body is empty; a `Range` that lost its last digits is another range.

### Liveness and fairness

`Answered` says that a handler that has its request does not wait for others: it
reaches an answer or an error. The fairness is `WF_vars(Handle(r))` for each request:
a thread that can take its next system call takes it, which the scheduler gives. No
fairness is assumed of the client (`WriteBlock`, `Rename`, which comes when the body
has ended, and `EndGet`), nor of failures. A client that never sends its body keeps its
thread for ever: the server has no timeout, and no property says otherwise.

`HandlersEnd` is the same for the tree, with `WF_vars(Handle(t) /\ ~AwaitsBody(t))` for
each thread: a removal whose entries others keep adding to ends, because requests are
finitely many in a behaviour, and so does one that finds an entry gone. `AwaitsBody` are
the steps before which the handler reads a body: a part's and a PUT's, and the XML of a
completion and of tags. `RequestsEnd` says that every request the server has is answered
or its connection closed, unless it waits for its client. It assumes
`WF_vars(Serve /\ ~Waits)`, the thread where it can run; `Waits` is a read of the body or
a write of the answer while the connection is open. Nothing is assumed of the client:
neither that it sends, nor that it reads, nor that it goes away. Once its connection is
closed, a read of a body that was cut returns and a write fails, and the request must
end. A peer that vanishes without closing, or stays and is silent, keeps its thread for
ever (`main.rs:138`, there is no timeout).

### Where the code does not do what it says

Each of these runs checks one sentence of the code's own comments and finds a
counterexample; `findings` in `PROJECT.json` quotes the sentence.

| run | property | what happens |
|---|---|---|
| `overlapping_puts` | `VersionMatchesMeta` | two PUTs of one key: A renames, B renames, A copies the live file into its version. A's version has A's ETag and B's bytes. |
| `stem_collision` | `LatestData` | `a.txt` and `a.png` both upload through `a.tmp-upload`; overlapping PUTs of the two keys truncate and rename each other's file. |
| `stale_meta` | `MirrorsNewestMeta` | a PUT stops between `<vid>.data` and `<vid>.meta`; the next repromotion mirrors its bytes and keeps another version's metadata. |
| `pre_versioning` | `PreviousLivesOn` | an object from before versioning has no file under `versions/`: DELETE destroys it though the comment says its versions live on. |
| `torn_read` | `ServedWhole` | `repromote_latest` copies over `data/<key>` in place even if nothing changes: a GET in progress gets a short body. |
| `chunk_signatures` | `ChunkSignaturesAccepted` | the head of `sigv4.rs` says that only the seed signature is verified and chunk signatures are accepted: a streaming PUT with one altered chunk is refused with 500. Here the code is stricter than its comment, and `CommittedIsSent` relies on the code. |

A DELETE in the moment in which PUT `?versioning` has emptied `.versioning` removes the
object for good although the bucket has been versioned throughout (`storage.rs:153`). The
model does the same, and no run reports it: the properties of run `serial` are about keys
whose last request found versioning on.

`ServedWhole` therefore holds where there is no DELETE `?versionId` (run `reads`) and
fails where there is one (run `torn_read`); likewise the version of a PUT is whole when
the key's requests do not overlap (`AckedVersionWhole`) and may not be when they do.

## 4. Proofs

For every value of the constants that their named assumptions admit:

| theorem | module | says |
|---|---|---|
| `TypeCorrect` | `ObjectStoreProofs` | `Spec => []TypeOK` |
| `AckedAreDurable` | `ObjectStoreProofs` | `Spec => []AckedDurable` |
| `AckedAreFrozen` | `ObjectStoreProofs` | `Spec =>` the action property `AckedVersionFrozen` |
| `AckedAreWhole` | `SerialKeyProofs` | `Spec => []AckedVersionWhole` |
| `WritesAreRead` | `SerialKeyProofs` | `Spec => []ReadYourWrites` |
| `LiveIsNewest` | `SerialKeyProofs` | `Spec => []MirrorsNewest`, if `ClockMonotone` |
| `VersionsAreListed` | `SerialKeyProofs` | `Spec => []AckedListed` |
| `ListedLatestIsLive` | `SerialKeyProofs` | `Spec => []LatestIsLive`, if `ClockMonotone` |
| `ReadsAreWhole` | `SerialKeyProofs` | `Spec => []ServedWhole`, if all keys are serial and no version is deleted |
| `AcknowledgedStays` | `MultipartProofs` | `Spec => []StoredStays` |
| `AbortsLast` | `MultipartProofs` | `Spec => []AbortedGone` |
| `DeletedIsGone` | `MultipartProofs` | `Spec => []GoneIsGone` |
| `RequestsLeaveNoDebris` | `MultipartProofs` | `Spec => []NoDebris` |
| `TypesHold` | `MultipartProofs` | `Spec => []TypeOK`, of one bucket's tree |
| `PartsAreKept` | `OrderlyProofs` | `Spec => []PartsKept` |
| `ETagsDescribe` | `OrderlyProofs` | `Spec => []ETagDescribes` |
| `UploadsImplementAtomic` | `OrderlyProofs` | `Spec => UploadsAreAtomic`, the specification of `AtomicUploads` |
| `CivilFollowsCalendar` | `CalendarProofs` | `civil_from_days` of the next day is the calendar's next date, of any day |
| `DaysOfCivil` | `CalendarProofs` | `days_from_civil` inverts it |
| `WhatIsAskedIsDone` | `ServerProofs` | `Spec => []AsIntended` |
| `HonestRequestsPass` | `ServerProofs` | `Spec => []HonestAccepted` |
| `PresignedInTime` | `ServerProofs` | `Spec => []PresignedWindow` |
| `DatesAreRight` | `ServerProofs` | `Spec => []CalendarRight` |
| `OnlyWhatIsAsked` | `BodyProofs` | `Spec => []ChangesAreAsked` |
| `OnlyWhatIsSent` | `BodyProofs` | `Spec => []CommittedIsSent` |
| `ChunksComeWhole` | `BodyProofs` | `Spec => []ChunkedIsWhole` |
| `AnswersAreSlices` | `BodyProofs` | `Spec => []RangeIsSlice` |
| `PagesDoNotOverlap` | `BodyProofs` | `Spec => []NothingListedTwice` |
| `PagesMissOnlyMarkers` | `BodyProofs` | `Spec => []PagesLoseOnlyMarkers` |
| `RequestTypesHold` | `BodyProofs` | `Spec => []TypeOK`, of requests |

The assumptions say what a constant is, never what the code does, and TLC evaluates
them on every run.

- `ObjectStore`: `Ops` are kinds of request the server knows, `Stem` is a function from
  keys to temporary paths, the bounds are natural numbers, the status is a status, and
  `NoFile` is not a request, and `Empty` not the lines of a metadata file.
- `BucketTree`: a world is one (`World`), parts have numbers and a completion lists some,
  and `Empty` is neither the contents of a part nor an upload. `OrderlyAssumption`: in a
  world of orderly clients nobody deletes the bucket, and a PUT, a completion or an
  abort, once begun, runs to its end; the parts of an upload may be abandoned anywhere.
- `Multipart`: `None`, which the mapping shows for what is not there, is no contents.
- `Server`: a word has more than two values; `None` is none of the values that may stand
  in its place (keys, bodies, the words of headers, a digest); signatures of the head and of no chain differ. `WorldAssumption`: a
  world's clock shows the date it is, its objects and bodies have lengths that fit a
  word, its clients send what is `Sendable` and the network does to it what is `Faulty`.
  `Sendable` is what the interface of S3 asks of a client: an operation on an object
  names a key, which does not begin with a slash, a bucket's name has none, a chunk that
  is not the last has data, and no signature of a chunk is that of the head. Where one
  of these fails the request means something else before the server has seen it.
  `Faulty` lets bodies and chunks be cut off anywhere, and be dropped, repeated,
  exchanged or altered where their client signed them: chunk by chunk, which the server
  checks, or by the digest of a body of one piece, which it does not. Where nothing of
  the body is signed (presigned requests, trailers, servers without authentication) and
  in the XML of a DELETE of several keys, what is altered is what was asked for, as far
  as the server can know, and not in the model. `PathAssumption`: the keys of GETs and
  DELETEs lead neither out of `data/` nor through its neighbours.
  `TemporaryAssumption`: nobody puts a key whose temporary file is an object.
  `ListingAssumption`: there are finitely many objects, keys are sequences of
  characters, and a listing is asked for with the parameters `list_objects` reads
  (`Askable`), a delimiter being one character. `StoreAssumption`: the objects that are
  there at first are files of one tree under keys `valid_key` accepts, none a directory
  of another (`Laid`), the keys others put pass it too, and the bounds of a world are natural numbers.

### Any key, any overlap: `IInv`

`AckedDurable` is not inductive: that an answered PUT has its files says nothing of
the PUT that is about to answer. The invariant is
`IInv == TypeOK /\ Control /\ OneOwner /\ Recorded`:

- `Control` ties the program counter to what was asked: which `pc` values each `op`
  can be at, and that a request past `version` holds an identifier, one that reached
  `copyfill` an open inode.
- `OneOwner`: no two requests that make versions hold the same identifier. It is why a
  handler's own files are written by it alone, and it rests on `NewVid`.
- `Recorded`: from the step that creates each of a request's version files on, that
  file is there, with the contents of that step, unless some DELETE `?versionId` names
  the identifier. It strengthens `AckedDurable` from answered requests to those that
  have come far enough.

One step deserves a word. `Tidy` removes the directory if `Entries(k) \cup vmeta[k]`
is empty; by `Recorded` it is not empty while it holds a file of a request that goes
on to answer, so only requests that have put nothing there yet can lose it, and they
fail at the next call. The lemma `Invariance` has one step per action, `TypeStep`,
`ControlStep`, `OneOwnerStep` and `RecordedStep` one conjunct of it each.

### Serial keys: `SInv`

A key is serial (`SerialKeys`) if its mutating requests overlap neither each other nor
those of the keys that share its temporary path. Other keys may do what they like, and
the hard part is that they are in the same invariant: a handler writes through a
descriptor to an inode, which may since have been given another name. `SInv` adds to
`IInv`

- of all keys: `Territory`, an inode is only ever named by, or open for writing under,
  the temporary path it was created for; `OneName`, it has at most one of the names
  `tmp[s]` and `data[k]`, a handler that has created nothing is nowhere to be found, and
  what a repromotion is writing is the live file of its own key or has no name;
- of serial keys: `Sole`, the one handler at work is the last that began; `Apart`,
  nobody uploads into the live file (also not a handler of another key of the path that
  is *not* serial, which is why this is not a case of `Sole`); and what the handler has
  put behind each name is still there: `UploadHeld`, `LiveHeld`, `VersionHeld`,
  `MetaHeld`, from the first block to the answer.

`AckedVersionWhole` is `VersionHeld` at the answer, and `ReadYourWrites` is `LiveHeld`
and `MetaHeld`. To keep the proofs short the lemma `StepKinds` first sorts the steps of
`Next` into seventeen kinds by what they do to names and inodes (an upload is opened, a
name is moved, ...); each conjunct then has one lemma with a case for each kind.

`MirrorsNewest` is about requests that came before: the live file must agree with
versions made long ago, and be repaired by `repromote_latest` when the newest of them is
deleted. `MInv` adds to `SInv` where each version comes from (`Owned`), that a directory
which is gone was empty (`Housed`), that the last handler's version is the newest of its
key (`Ascending`), and what the last handler of a key knows of its versions at each step,
if it found versioning on or deletes a version (`Mirrored`). Nothing is said of the
status: a PUT `?versioning` may empty `.versioning` at any moment and crash, and a handler
keeps the mode it has read. What a handler without versions leaves live differs from the
newest version; the next handler with one does not rely on it, since `finish` replaces
the live file before it copies it and `repromote_latest` scans what there is. `Ascending`
needs a clock that is not set back, which is the theorem's only assumption.

`AckedListed` and `LatestIsLive` are about code that reads the same files in another way.
What `list_versions` needs is in `Shown`: metadata comes after the data it describes and
agrees with it, and where metadata stands alone a DELETE `?versionId` is at work or has
stopped. `AckedListed` follows from `Shown` and `Recorded`, whatever the clock does;
`LatestIsLive` from `Shown` and `MirrorsNewest`.

`ServedWhole` is about readers that overlap anything. A GET holds an inode while its name
is moved away, replaced or removed, so what must be kept is that nobody writes to that
inode any more: `Sealed`. A file becomes sealed at the rename (`Territory` and `OneName`
leave no other name under which it could be opened) and stays so. `WInv` says that what
is live is the body of an upload that has ended (`LiveWhole`), that a version's file is a
beginning of the body of its upload, and all of it once its metadata has its lines
(`VersionWhole`), and that a reader's descriptor is on a sealed inode or such a file
(`ReadersWhole`). Through the copy the file copied from stays the live one with
the body of this upload (`LiveHeld`, `VersionHeld`), or the version would be the beginning
of one body and the end of another. With a DELETE `?versionId` this fails: the repromotion
writes into the live file itself. With overlapping uploads it fails too, and those are
the runs `torn_read` and `overlapping_puts`.

### The tree of a bucket: `MultipartInv`

The theorems hold for any number of threads, uploads and parts, with handlers that stop
anywhere and clients that race each other. `MultipartInv == JobsInv /\ FilesInv`:

- `JobInv` is what one handler knows, a conjunct for each kind of knowledge. `Aborting`:
  an abort has the upload's directory on its list as long as it exists. `Living`:
  `create_multipart` holds an identifier no client knows. `Writer`: a writer no deletion
  has met keeps the bucket's marker and, once renamed, its object. `Calmly`: a bucket's
  deletion has found everything there is, unless something went wrong before.
- `FilesInv` is what holds between handlers: identifiers are given once (`Unique`), a
  deletion next to a request shows in the history (`MetInv`), whoever could remove an
  acknowledged object has not begun to (`StoredInv`), without a marker a bucket is
  being removed, being made or gone (`GoneInv`), and a temporary file has a handler that
  will rename or remove it, or a directory has the object's name (`TmpInv`); the last
  two as long as nothing was abandoned and no removal met another request.

A step belongs to one handler, and what it must leave the others is always the same:
the lemma `Steady` states it once (no upload's directory appears, marker and object go
by deletions only, records of others stay), and each of the thirty-odd step lemmas then
speaks of its own handler alone.

The first version of this invariant was true in every state TLC reached, and not
inductive. It said that a completion always finds the bucket's marker; but
`complete_multipart` may start in a bucket whose marker is gone, if a removal failed
half-way with the uploads still there, and TLC's worlds end before a client could ask
for it. The code is right, it looks for the marker in `put_object_writer`; `Writer` now
promises the marker from that step on.

`TypeInv`, next to it, is about what the files and records hold. `Fits` is what a path
may hold: the object and its metadata sequences of bodies that were sent, everything
else one body or nothing. A handler's record is a `TypedRecord`; that a completion
reads within the list it was given is more than `TypeOK` says of its position, and
without it a digest read past the end would put the position two behind the list.

### Orderly clients: `OrderInv`

`MultipartInv` speaks of which paths exist; what the files hold, and so `PartsKept`,
`ETagDescribes` and the refinement, takes `OrderInv` next to it. It is about worlds
whose clients do not race each other over one upload (`Disciplined`), with any number of
threads, uploads and parts. Of each handler it says what it relies on:

- `Sending`: the upload of a part lasts while the part arrives, and what the handler has
  written is still there when it writes the digest;
- `Gathering`: the parts a completion has read are the first of its list, one after the
  other (`Joins`), and what it has put into the temporary file is what they hold;
- `Replacing`: from the rename to the new ETag the object and its metadata are those the
  handler has written;
- `Clearing`: a removal still has on its list exactly what is left of the upload;

and of the tree `PartInv`, a part nobody is sending is the one acknowledged last with
its digest, and `Described`, the object's metadata is the object's. A step belongs to
one handler, which touches only what is its own (`Owns`), and no two orderly handlers
own the same path: the lemma `Acting` is this frame, and every step's lemma is an
instance of it. TLC checked `OrderInv` on the worlds of `uploads` before it was proved.

The refinement then goes action by action. A step that changes neither which uploads
are open nor what they hold nor the object is `Unseen`; the others are each one step of
`AtomicUploads`: the upload is opened when its creation is acknowledged (`OpenIs`), a
part is set when its file is truncated and when its body is there, an abort drops the
upload when it arrives (`Closes`), and a completion commits at the rename: by `Joins`
the temporary file holds the listed parts, which is the recursive function of
`AtomicUploads` (`JoinedIs`, `CommitIs`).

### Requests: `ServerInv`

`ServerInv == ClockInv /\ ConnInv /\ ListingInv`. From the signature to the answer a
request whose head is whole is the one its client made, of the age it says, and a
request whose head is not whole belongs to a connection that is gone (`Carried`); from
`Accept` on, the decision is the right one (`Judged`: `Intended`, `Honest`, `InTime`).
All steps but `Accept`, `SignRequest` and `Tick` only have to keep that. `Accept` rests
on lemmas about the functions of `Routes`, for paths, heads and parameters of any
length:

- `Decoded`, `Addressed`: decoding undoes a client's escapes, necessary or not, and
  the bucket and key come out, wherever the bucket was named;
- `Routed`, on `RouteOfOperation`: of dispatch's eighteen rules in their order the
  first that applies to an operation's method and parameters is its own;
- `HeaderAccepted`, `PresignedAccepted`, on `SignedCanonically`: the canonical form the
  server makes of what it read is the one the client signed;
- `MomentIs`, on `DaysOfCivil`: the seconds the server computes of the date it parses
  are those the clock shows, so the window has the right ends.

`CalendarProofs` counts eras of 146097 days, centuries, spans of four years and years
of 365 days from a first of March, as the code does, but proves each division from its
remainder's range; nothing is enumerated. `CivilFollowsCalendar` is an induction's step, for every
integer, and `CivilCounts` the induction.

### Bodies and answers: `BodyInv`

`BodyInv == Stored /\ Embodied(conn, env)` stands next to `ServerInv` and is inductive
with it. `FramingProofs` has what the readers do, for bodies of any blocks, cut into any
chunks and read in pieces of any size:

- a body is spoken of by `Flattens`: what has been put together after each chunk; and a
  chain of signatures by the signature after each chunk. `ChainInjective`: no two chunks
  of a chain have the same one.
- The invariant of a reader of chunks is `Ordered`: what it has returned and has at hand
  is the first chunks, and what is still to come is either the client's next chunks in
  order (`Straight`) or must continue the chain of signatures. `FilledOrdered` is the
  heart: a chunk that passes `ChunkContext` can only be the next one, whatever was done
  to the ones on the wire.
- That of a reader of blocks is `Paced`: what it has returned, followed by what is on
  the wire, is the beginning of the body.

`Embodied` ties them to the connection: which head and which body arrived (`Arrived`),
what is asked for (`Meant`), the reader while the body is read and the body when it has
been (`InBody`), the part of the object that was sent (`Sliced`), and that every change
made so far is one the client asked for (`Changed`). The lemma that took thought is
`BrokenRouted`. A head that broke off and passes authentication nevertheless must have
its signature among its lines or parameters, and that covers the host and what to copy;
so it is served as its client meant it, with a body of which nothing arrived. A line
that breaks off within its value may be the signature itself, which then fails, or a
line that is not signed, such as the range (`Headed`, `Partial`). Hence
`ChangesAreAsked` needs no assumption that heads arrive whole, only that somebody has to
sign. What a DELETE removes is followed through `Unlinked` from the key the client
signed, since the handler takes it as it stands. In `RangeIsSlice` the arithmetic modulo a word is that of the code, and
`Remainder` and `SpanIs` show where it does not wrap: everywhere but for an empty
object.

### Listings: `ListingsInv`

A listing is several connections, one page each, and the bucket changes meanwhile. The
claims are about the keys that stay (`kept`) and that a walk does not pass over
(`Listable`); what comes and goes may or may not be
listed, but never twice. First the operators, for keys of any length:

- `Before` is a strict total order (`BeforeIrreflexive`, `BeforeTransitive`,
  `BeforeTotal`), and keys between two with the same beginning have it too;
- `EntryBetween`, the heart: if two keys are listed as the same common prefix, then so is
  every key between them. What is listed once is therefore listed in one stretch, and a
  page that begins behind that stretch cannot list it again;
- of a finite set every rank is some key's, so the marker a page returns is the first key
  left out, and all that was listed comes before it.

`ListingsInv` is what holds in between, next to `ServerInv`. `Asks`: the request on its
way is for the page that begins where the last one said, in either version of the
protocol. `Finds`: the keys kept are there, and a walk has found each of them or has it
still to look at, so the page is one of a set of keys that includes them, whatever else
it caught. `Told`, of the pages so far: they list every key kept that comes before the
next page's beginning, but for the markers (`Covered`); that beginning differs from
every entry and comes behind some key of each (`Past`); and no two pages share an entry
(`Disjoint`). `PageTold` adds a page to them. The markers are in `Covered` because the
code is like that: the key returned as a marker is on neither page.

### Types of requests: `TypesInv`

`TypeOK` of `Server` comes last because it rests on all of the above.
`TypesInv == Laid(DOMAIN objs) /\ Counted /\ Sound(conn)` is inductive next to
`ServerInv`, `BodyInv` and `ListingsInv`. `Laid`: the objects are files of one tree, no
key a directory of another. A put keeps that for two reasons that lie far apart, and
`Sound` carries the first of them from `put_object`'s check to its commit: the key
passed `valid_key` when the request was accepted, before its body was read, and it fits
among the files there are when it is committed, whatever other clients have done
meanwhile (`LaidWith`). `Sound` also says that a key is never both found by a walk and
still to be looked at, that a reader's position is within its buffer (from `BodyInv`),
and that what `get_object` makes of a range is within a word: a head that broke off asks
for its client's range, one with an earlier end or none (`RangeIs`, `PartialRange`), and the arithmetic on it is modulo a
word (`SpanFits`). `Counted` is about the bounds of the model.

### Only model-checked

- `Answered`, `HandlersEnd`, `RequestsEnd`: liveness under fairness is beyond the prover.

## 5. Plan

Every invariant the runs check is proved. What is left are models: the pair of metadata
and data a GET reads, the listing of versions cut off at max-keys, the limits on a
request's head.

New theorems go into the proof modules there are, by component.

## 6. Not modelled

Hashing and HMAC (published test vectors: the models take a digest for what it
digests); credential files and the command line, which are read before the first
connection; `walk_versions` while other requests write, and `max-keys` of the listing of
versions, at which it stops without saying so; the metadata a GET reads before it
opens the data; the limits on lines and heads and bytes that are not UTF-8; response
formatting, XML and its escaping (the server does not undo escapes in the bodies it
reads: a key with `&amp;` in a DELETE of several keys is taken as it stands); the
conditional headers `README.md:38` of the repository names, which no code reads; what a
client sees when a handler fails after it has sent its head, and `handle` sends
another; keys that begin with a slash or have an empty segment, keys that lead out of
`data/`, through its neighbours (a `..` in a GET or DELETE is not refused) or, in
`meta/` and `versions/`, over other files than in `data/`; keys whose temporary file is
another object (`a` and `a.tmp-upload`); versions of keys with `.` or `..`; altered bodies of
which nothing is signed; the build, the container
and the release scripts.

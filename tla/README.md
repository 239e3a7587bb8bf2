# Verification of SMB-CIFS_discovery

TLA+ specifications of `smb_discover`, the utility that lists SMB workgroups,
computers and shares for another program, its *invoker*. Paths below are those
of the repository, without `src/smb_discover/` where the file name says enough.

## The system

`smb_discover` is one C program, run once per request. It reads its options,
opens the channel to the invoker (a UNIX socket with `-K`, standard output
without), turns itself into a daemon if asked to, reports its pid on the
channel, lets one of three utilities talk to Samba, prints what the utility
returns as JSON, sends it, closes the channel and exits.

| component | source | state | operations | what makes it correct |
|---|---|---|---|---|
| process and channel | `smb_discover.c`: `main`, `_execute_smb_request`, `_report_self_to_server`, signal handlers | descriptors, `smbSrvFd`, stdio buffer, response; twice over once `daemon()` has forked | connect, fork, report, respond, clean up, exit; SIGINT, SIGTERM, SIGPIPE at any point | the invoker gets a report and then at most one response and nothing else, the pid of the worker, and the end of the stream |
| command line | `smb_discover.c`: `_parse_options`, `_configs_check`, the socket's address in `main`; `util_*_check_config` | `SmbDiscoverContext_st` | one per option, one check per utility, open the socket | what is accepted is usable and is what the last options ask for |
| workgroup list | `smb_discover.c`: `_parse_workgroups` | two pointers into a copy of the argument, the array so far | one round of the scan | exactly the names between the separators |
| smbclient utility | `util_smbclient.c` | response, four failure flags, two frames, connection, pipe, position in the listing | allocate, prepare, open, open the pipe, enumerate, list one share, release, judge | the right shares up to the limit, a listing or the right failure, everything released |
| nmblookup utility | `util_nmblookup.c` | response, a list per workgroup, position, the answer of one query | add a name, query an interface, add an address | each workgroup has the first answer for its own name |
| smbtree utility | `util_smbtree.c` | response, list, two failure flags | find the master browser, one callback per workgroup | a browser and a list, or a failure |
| cJSON items | `cJSON.c`, `cJSON.h` (vendored) | linked items with keys and type flags | create, add, reference, detach, insert, replace, delete, duplicate | a forest: nothing lost, nothing freed twice, everything where it was put, keys included |
| cJSON printer and parser | `cJSON.c` | buffer with its offset, position in the text, the item as far as it is filled, `global_ep` | print into one block or into a growing buffer, parse, minify | a document says the same in every form, nothing is written outside a block, failure leaves nothing behind |
| cJSON allocator hooks | `cJSON.c`: `cJSON_InitHooks` | two function pointers | | *not modelled*, never called |
| Samba, build | not in the repository; `Makefile`, `client.in` | | | *not modelled* |

The components share little: the context goes from the command line to the
utilities, the response from a utility to the process, and all of them build
their response with cJSON. What is hard is not the algorithms but the
surroundings: any allocation and any call into Samba may fail, and failure has
to be visible in the response; the process forks with unflushed output and open
descriptors; a signal handler calls `exit()`, which flushes; the invoker may
hang up or have closed descriptors 0 to 2 before it started the program; the
cJSON functions are a pointer structure whose mistakes show several calls later.
`PROJECT.json` lists these hazards, each at its line, with the properties that
would catch it going wrong.

## The modules

| module | models | state and actions |
|---|---|---|
| `InvokerChannel` | what the invoker is promised | `stage`, `sent`; `Report`, `Answer`, `End` |
| `SmbDiscover` | the process and the channel | see below; refines `InvokerChannel` |
| `Options` | the command line and the path of the socket | `ctx` is the context, `seen` the options so far, `sun_path` the path connected; one action per option, `OpenSocket` |
| `Workgroups` | `-L` | `memory`, `pStart`, `pStop`, `groups`; `Part` is one round of the loop |
| `Utility` | what any of the three utilities promises its caller | `stage`, `fields`, `held`; `Work`, `Return` |
| `JsonFields` | how objects are filled | operators: the outcomes of adding a field when allocation may fail |
| `SmbClient` | `util_smbclient.c` | the locals of `util_smbclient()` and `_smbc_browse_dir()`; one action per block |
| `NmbLookup` | `util_nmblookup.c` | likewise; `net` is what queries bring, `status`, `smbIpCount` and `ipList` what the last one left behind |
| `SmbTree` | `util_smbtree.c` | likewise |
| `JsonTree` | what cJSON's list functions promise | a forest: `kids`, `roots` |
| `JsonHeap` | cJSON's items in memory | `heap` with the links, flags and keys; `strings` counts the keys that are allocated; refines `JsonTree` |
| `JsonValue` | texts, items with their values, the allocator | operators; an allocator is a record that knows which of its calls fails |
| `JsonPrint` | the printer, both ways | operators: a result is a text (or a buffer) and the allocator afterwards |
| `JsonParse` | the parser and `cJSON_Minify()` | operators: a result is a position, an item, `*ep` and the allocator |
| `JsonText` | a document that is printed, minified and parsed in turn | `item`, `text`, `mem`, `errorAt`; one action per entry point of cJSON; and the text of the report |
| `MC*` | values for the constants of the module named | |
| `*Proofs` | theorems about the module named; in `JsonFieldsProofs`, lemmas that the proofs about the three utilities share | |

Definitions whose comment begins with "Mutant of" are no part of a
specification: each is a plausible mistake in the definition it names, and
shows that a property would notice it (`PROJECT.json`, "mutants").

**SmbDiscover.** `pc` and `self` say where the worker is and which process it
is; `life`, `fd` and `stdio` are per process, so that a fork is an assignment.
`fd` maps the descriptors 0 to 3 to files: `socket()` takes the lowest free one
(`LowestFree`), as POSIX says, and so the checks `smbSrvFd > 0` (:391, :475) and
the constant 1 (:398) can be wrong about what is behind a number.
`SocketHeldOnlyForRequest` says from when until when the worker holds the socket;
it needs descriptor 0 open at the start, which those checks take for no socket.
A message is a
record of its kind and its form: whole, cut (a short write) or garbled (the
report after `snprintf` has truncated it, :309-349). Log lines are counted, in
`noise` for those that reached a channel, in `stdio` for those buffered, in
`printed` for all. Standard output is line-buffered on a terminal (`env.tty`)
and fully buffered otherwise. Signals act between two steps of the program; one
handler run is one step. `UtilityReturns` stands for a whole utility, whose own
module has the detail. The build modelled is the release build
(`SMB_DISCO_DEBUG` undefined).

**The utilities.** An action is a block of the C function between two points
where something may fail. A JSON object is the sequence of its fields. Failed
allocations are counted by `failed` and bounded by `MaxFailed`; properties about
content assume `failed = 0`, those about release and termination do not. The
answers of Samba are chosen freely. In `SmbClient` a millisecond has `NsPerMs`
nanoseconds: 1000000 in the code, 1000 in the runs because TLC has 32-bit
integers; nothing depends on the value.

All three are shown to implement **Utility**: the response has the command first,
then what was obtained, each part once and in order, then at most one failure
(`Layout` says which fields a utility may produce); nothing is held and nothing
changes after the return, and the call returns. `SmbDiscover` relies on just
that: its `UtilityReturns` brings a response or none, in one step. `NmbLookup`
may also end in a fault, and what `SmbTree` holds leaves out the connection to the
master browser, which `util_smbtree()` never shuts down (util_smbtree.c:234).

**Workgroups** is byte-level, because the loop reads the byte behind its copy:
`memory` is the copy followed by bytes the allocator left there.

**JsonPrint and JsonParse** are byte-level too, for what can go wrong there is
about bytes: escapes, surrogates, sizes. The sizes the printer asks for (`Room`,
`StringRoom`, `ObjectRoom`, ...) are written down as the code computes them, apart
from the text that is then written, and `Check` compares the two. A byte of a new
buffer is `Fresh` until it is written, since `update()` runs `strlen()` over the
buffer. `Memory(k)` is an allocator whose `k`-th call fails; `held` counts what an
operation has not given back. Numbers are decimal (`mant * 10^exp`): that doubles
are binary is left out. Infinity and NaN, which the parser makes of `1e999` and
`0e999`, are among them; these and every number up to `DBL_EPSILON` are printed as
the code prints them, as `null` and `0`, and `SameNumber` says that no others are
lost. `malloc(0)` is taken to return a block, as glibc's does.

The operators are recursive where the code is; recursion over a document makes
them TLC's, not the prover's. They were also compared with the compiled
`cJSON.c`, outside this directory, on some 3500 documents and 2000 texts for
`cJSON_Minify()`, with no difference.

**JsonHeap.** The caller is assumed to follow the rules that `cJSON.h` leaves
implicit: it adds, inserts and deletes only items it owns, adds none to itself,
to something inside it or to a reference, and does not duplicate references.
A walk over links is a function of the number of steps (`Walk` along a list,
`Reach` along `next` and `child`), which is long enough after as many steps as
there are items; `Doomed` is where it ends, and is what a deletion frees.
`Siblings` follows `next` pointers; `JsonTree` is instantiated with the sequences
so found, so that any list function that breaks a list breaks the refinement.
`DuplicateFails` builds the copies that exist when memory runs out on the way to
an item, and deletes them as each level of the recursion does; `CreateList` does
the same for a list. That nothing is left behind is then a result, not an
assumption.

`JsonTree` lets a list function put an item at any place: it is about what belongs
to what. The place is the matter of `PlacedAsAsked`. Keys are counted the way the
allocator sees them: `strings` goes up with each `strdup()` and down with each
`free()` of the code, whatever is freed, and `KeysAccounted` compares it with the
copied keys that the items have; a constant that is freed, a key freed twice or not
at all spoils the sum. A call that overwrites a key, or gives a copied key to an
item flagged as having a constant one, does lose or free the wrong one: `Keys`
notes it in `strayed`, and nothing is said about keys from then on.

## The runs

Passing runs (the bound of each constant is in the `.cfg` or the `MC` module):

| run | question | bounds and why they are enough |
|---|---|---|
| `discover_channel` | is what reaches the invoker what `InvokerChannel` allows, whatever signals, kills and hang-ups happen, is the socket held for the request only, and does the stream end? | descriptors 0-2 all open, each one closed, all closed; credentials that fit the report and that do not; one SIGPIPE from outside besides those of broken writes. There are two processes and two messages at most, so nothing grows beyond that |
| `client_listing` | is the listing in the server's order and complete up to the limit, is every failure visible and of the right kind, is every resource released, does the call do what `Utility` promises? | up to 3 shares of 5 sorts (one per outcome of the filters), limits 1, 2 and 50 on both sides of 3, two failed allocations; clock readings at 0, 1, one below and at a millisecond and the last nanosecond of 4 seconds: both sides of every comparison and of the borrow |
| `lookup_search` | does each workgroup get its own first answer, is an answer complete when Samba could be prepared, when does the lookup break down, and does the call do what `Utility` promises? | 2 names, the same one twice included, 2 interfaces with and without broadcast address, queries that fail or bring a list of 0 to 2 addresses, one failed allocation: enough for an answer, its count or its status to leak from one interface or name to the next |
| `tree_enum` | is the answer a browser with a list or a failure with none, and does the call do what `Utility` promises? | 3 callbacks, two failed allocations |
| `workgroups_any` | are the names the names? | all arguments up to 5 characters over two letters and `:`: leading, trailing and doubled separators in all positions; NULs or anything else behind the copy |
| `options_parse` | is the accepted configuration the one asked for? | every sequence of up to 4 options: three of one name, or three names and a repetition; two different values of every option that has one, two spellings of an address, two long paths that differ only behind the end of `sun_path`; numbers below, at and above 0, a `size_t` of 8 bits, which wraps as one of 64 does |
| `heap_tree` | are the list functions operations on a forest, do both directions of a list agree, is each item where it was asked for, and does a duplication that fails leave nothing behind? | 5 interchangeable items: a list of three and a newcomer, so that first, middle and last differ, or two trees; a list of two whose copy fails when its first item has been copied |
| `heap_keys` | are the items that are allocated the ones in the caller's trees, and the keys that are allocated theirs, also when duplication fails? | 4 items, with the functions that put keys and flags on items; a reference, what it refers to, and a parent of each |
| `json_text` | does a document survive printing, minifying and parsing, whatever allocation fails; do both ways of printing agree; is everything large enough? | all strings of up to 2 bytes of 10 sorts (with and without an escape, the limits of what is escaped, UTF-8), numbers around the limits of `print_number()`, on both sides of `DBL_EPSILON` and infinity among them, lists and objects of two items of every sort, some nested twice and the shape of a response; texts of known meaning, strings that break off included, with every sort of `\u` escape (the bytes are those of RFC 3629), texts with comments, all texts of up to 3 of 14 characters of JSON; reports with credentials; each of the first 9 allocations failing, which is more than most documents make; initial buffers of 0, 7 and 64 bytes, so that it grows at every place |

Between them the two runs on `JsonHeap` use every function it models.

Runs that are expected to fail, each a disagreement between the code and what
the repository says of it (`PROJECT.json`, "findings"):

| run | what TLC shows |
|---|---|
| `client_failed` | a failed enumeration looks like a server without shares |
| `client_hidden` | a hidden disk share is listed although the code has its type among those to ignore |
| `workgroups_slack` | names from behind the copy are looked up |

Known disagreements without a run of their own; the modules behave like the code:

- the process "will only daemonize after reporting self" (smb_discover.h:83), but
  `daemon()` is called at smb_discover.c:404, before the report (:414);
- descriptor 0 is taken for no socket (smb_discover.c:391, 475): started with
  standard input closed, the program closes the channel only by ending;
- a path of 109 to 254 characters after `-K` is accepted (smb_discover.c:245) and
  cut off by `strncpy()` into `sun_path` (:379): another socket is connected
  (`OpenSocket`);
- a report with long credentials is cut off by `snprintf()` (smb_discover.c:309,
  336) and is then no JSON (`SmbDiscover`: the form "garbled");
- user name and password are put into the report without escapes
  (smb_discover.c:341): with a `"` or a `\` in them it is another text, or none
  (`Expected` in `JsonText` says nothing about such reports);
- `-M -1` is no limit at all: the number goes into a `size_t` before the test
  `smb_max_dir_count <= 0` that is to replace it by the default
  (smb_discover.c:259-260; `MaxDirs`);
- an interface without IPv4 broadcast address is dereferenced before the test
  that was to skip it (util_nmblookup.c:97-98; `Fault`);
- when Samba cannot be prepared, `util_nmblookup()` answers with empty lists
  (:185-188) and `util_smbtree()` with neither workgroups nor a failure
  (util_smbtree.c:134-137), as no flag is set (`PrepareFails` of both);
- `cJSON_AddItemToObject()` frees a constant key that an earlier
  `cJSON_AddItemToObjectCS()` left on the item (cJSON.c:1681-1684),
  `cJSON_ReplaceItemInObject()` loses the old key of the new item (:1844), and
  `cJSON_Duplicate()` and `create_reference()` copy the flag of a constant key to an
  item that gets a copied one, which is then never freed. The program calls none of
  the CS, Replace, Duplicate and reference functions; `JsonHeap` has all of these
  behaviours and remembers them in `strayed`;
- a number up to `DBL_EPSILON` in size is printed as `0` (cJSON.c:294), infinity and
  NaN as `null` (:325-329): the document then says something else (`SameNumber`);
- `cJSON_GetErrorPtr()` is said to be "Defined when cJSON_Parse() returns 0"
  (cJSON.h:94), but a backslash at the end of the text and a failed allocation
  leave it null (cJSON.c:470, 481; `StringTo`, `WithString`);
- the parser takes the end of the text for the end of a string (cJSON.c:463, 609),
  digits after a leading zero, and a sign without digits (:142-160);
- a number is printed with six places (cJSON.c:336, 340), so what is read back
  may differ in the seventh; `ItemKept` asks for no more (`Near`);
- `cJSON_Minify()` steps over the end of a text whose last string or comment does
  not end (cJSON.c:2169, 2183): its callers must not pass one, and `MinifyText`
  does not. `cJSON_Parse()` knows no comments: they must be minified away first.

Fairness. `SmbDiscover!FairSpec` has weak fairness of the worker's steps taken
together and of the launcher's exit: the kernel schedules both, and the calls
into Samba are taken to return, as the code itself takes them to. Signals,
kills and the invoker's hang-up have none. The utilities are sequential: weak
fairness of `Work`, which also implies the fairness of `Utility!Return`. No run uses strong fairness.

## What is proved

Each module of proofs has one theorem for each of its invariants, for every value of the
constants, and one for the refinement where there is one; `PROJECT.json`,
"theorems", lists them. The argument is the same everywhere: the invariants are
not inductive; `IInv` adds what holds them up; there is one lemma per action or
group of actions, which shows that it keeps `IInv`, and the theorems follow from
`Init => IInv`, `IInv /\ [Next]_vars => IInv'` and the temporal step. Beyond the
named assumption of each module about its constants nothing is assumed.

**SmbDiscoverProofs** proves all six invariants of `discover_channel` and the safety
part of `ImplementsChannel`: any sets of launch descriptors and credential
lengths, any number of signals (`LaunchAssumption`). `IInv` adds

- `ProcInv`: which of the two processes may be alive at which `pc`, and that the
  launcher is the worker until `Daemonize` and the child from then on;
- `FdInv`: what is behind `smbSrvFd` and behind 1 and 2 at each `pc`. With 1 and 2
  open at the start the socket never becomes either of them, and the child's
  table is that of the launcher at the fork. With 0 open besides, `smbSrvFd` is the
  one descriptor of the socket, and there is none before the connection and after
  the cleanup;
- `LogInv`: the lines that arrived and those that still can, buffered in a
  process that will flush, are together no more than were printed;
- `ChannelInv`: what the channel carries at each `pc`, for the refinement.

**SmbClientProofs** proves the six invariants of `client_listing`, for any shares,
limits, clock readings and number of failed allocations, and any positive number
of nanoseconds in a millisecond. `PartsInv` says which parts of the response may
be there at which `pc`, `ProgressInv` how far the listing has come, `HeldInv` what
is held at which `pc`, `FlagsInv` what the four flags say. `ListingOrFailure` needs
`KeysInv` besides: as long as no allocation has failed, the key of the listing is
there just when the last steps did not fail, and the key of the failure just when
a flag is set; with failed allocations nothing of the kind is true. The time
limit rests on lemmas about division: a second less a nanosecond has 999 whole
milliseconds, and the borrow gives the same as the difference of two numbers.

**NmbLookupProofs** proves the four invariants of `lookup_search` for any names,
interfaces and answers (an answer is a sequence of addresses or `NoList`, no list at
all). `CountInv` and `NamesInv` relate the lists to the names asked for; `ListsInv`
says of every list whether it lies before the current name (it has its answer),
behind it (it is empty) or is the current one (what is in it is the front of
the answer); `AskedInv` that `status`, `smbIpCount` and `ipList` are those of the last
interface queried, and that none before it answered; `DoneInv` that in the end all
lists have their answer if Samba could be prepared, and none has if not.

**SmbTreeProofs** proves both invariants of `tree_enum` for any workgroups and
any number of callbacks. `BrowserOrFailure` needs `KeysInv`: without a failed
allocation the name of the master browser is there just when its connection was
made, and the failure just when the search for it was begun and failed; and
`FlagsInv`, that nothing is listed without a connection.

**Utility.** All three modules also prove the safety part of `ImplementsUtility`:
the initial state maps to an initial state, and each step to `Work`, `Return` or a
stutter. `PartsInv` of each is what a step of `Utility` needs, namely that a field
is added behind those that stand before it in `Layout`; `JsonFieldsProofs` has
the lemmas about keys, values and places of a longer object.

**OptionsProofs** proves the three invariants of `options_parse` for command lines of
any length and any width of `size_t`. `ParsedInv` says that the context is at every moment what
the last options of each name so far ask for, and what the check at the end makes
of password and limit; `LastInv` that `Last` is the last option of its name, so that
one more option changes what counts for its own name only.

**WorkgroupsProofs** proves the two invariants of `workgroups_any` for arguments of
any length and anything behind the copy. `CopyInv` says that what the scan has
not reached is as it was copied, `ScanInv` that the array has the names of the
part passed, and that the scan stands behind a separator, behind the copy, or
beyond; `EndInv` where it begins and ends. The lemmas are about `Names`: what one
more letter or one more separator does to the names of a text.

**JsonHeapProofs** proves all four invariants, `TypeOK`, `DoublyLinked`,
`NothingLost` and `KeysAccounted`, and the action property `PlacedAsAsked`, for any finite number of items and every function
`JsonHeap` has. `DoublyLinked` by itself is not inductive, because a splice follows
links that it says nothing about. `Forested` is: `Shape` has links stay among the
allocated items, the two directions of a list agree, a first child without anything
in front of it and with one parent, and what the caller owns in no list; besides,
there are levels, the same along `next` and growing along `child`, so that nothing
is inside itself and a walk down ends; whatever has what the caller owns and is
closed under the links is all of the allocated items (`Covered`, which excludes a
ring of siblings without a parent); and what is not allocated is blank. `Shape` is
stated of three maps (`Nx`, `Pv`, `Kd`) instead of a heap, and there is one lemma
for each thing the functions do to them: append, insert, unlink, put in place, free,
copy. Walks are treated step by step: one that has not ended after as many steps as
there are items has met one of them twice (pigeonhole), which levels and the two
directions exclude; `Doomed` is therefore closed under the links. For `NothingLost`
the same argument shows that `Tree!Family` is closed under membership; what the
roots' families have is then closed under the links, and `Covered` makes it all of
`live`. A copy that fails half-way (`DuplicateFails`) leaves a forest because the
unfinished copies are each on top of a tree of finished ones, which the deletions
free.`KeysAccounted`
needs `KeysKept`: until a call strays, the flag fits the key of every item, the
constants are the flagged ones, and `strings` is the number of copied keys
(`Balanced`). There is one lemma for each thing that happens to keys: one item gets
another, the keys of the deleted items go, those of the copies come, or both when a
copy is given up.

It also proves `ImplementsTree`. The prover needs the contents of every list before
and after each function as a sequence: `Siblings` from a node is its walk along
`next`, place by place (`SiblingsAre`), and from that what an item has in it, `Kids`,
changes in one item alone when its list gets one more at the end or in the middle, one
less, or another in one place. Per function there is one lemma that names the step of
`JsonTree`: the functions that add take `Put`, whatever they do with the key; `Grow`
for a reference, `Take` for `Detach`, `Delete`, `Replace`; a copy without the children
is a `Create`, one with them a `Duplicate`; `CreateLists` is a `Build`, or a stutter
where it made nothing; a copy that runs out of memory is a stutter. `Delete` needs
that `Doomed` along the links is `Tree!Family` along membership, and `Duplicate` that
the contents of a copy are, place by place, the copies of the contents.
`PlacedAsAsked` follows from the same lemmas, which give the place as well.

### What stays with TLC

- Liveness: `EveryConnectionIsClosed` and the fairness of
  `InvokerChannel!Spec` and `Utility!Spec`. The prover has no rules for fairness.
- The five invariants of `JsonText`: they say what recursive operators compute for
  every document, and induction over documents is out of the prover's reach.

## Not modelled, and why

- cJSON's numbers as binary doubles, texts near 2^30 bytes
  (`pow2gt()` would overflow an int), `cJSON_InitHooks()`, and the lookup of items
  by name, which changes nothing: `JsonHeap` lets the caller take any item.
- What Samba does; the Makefile and the patched build.
- What glibc does when a signal interrupts `printf()` or `malloc()`.
- The debug build, whose log lines go to standard output.
- The timeout of option `-T`, which nothing reads once it is stored; `usleep(50000)`
  after the write.

## Plan

Done: `SmbDiscover` with its proofs first, since everything else serves the
channel; then the utilities, the command line and the items of cJSON; then
cJSON's texts, its failures half-way, and `Utility`; then the proofs of the
safety properties of everything but texts, the refinements included.

Left: a composition in which `SmbDiscover!UtilityReturns` is replaced by the steps
of `Utility`, so that a signal meets a half-filled response.

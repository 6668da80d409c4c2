# TLA+ models of the html-markdown-webserver

The repository is a small multi-threaded HTTP server in C++ (Boost.Asio): it
reads an nginx-like config file, maps URL prefixes to request handlers, and
serves static files, a file-backed CRUD API and a file-backed Markdown editor.
This directory holds TLA+ models of it, TLC configurations that check them on
small instances, and proofs of the main theorems that TLAPS checks.

## 1. The system

| Part | State | Operations | Interacts with |
|---|---|---|---|
| `FileSystem` (src/filesystem.cc) | none of its own; the disk | readFile, writeFile, deleteFile, listFiles: each several system calls | called by the handlers, on any thread, without locks |
| CRUD handler (src/crud_request_handler.cc) | none: a handler object lives for one request | POST (list, choose max+1, write), GET, GET list, PUT, DELETE | FileSystem; other requests only through the disk |
| Markdown handler (src/markdown_request_handler.cc) | none | create, view, list, edit, save, delete, each one to four FileSystem calls | FileSystem; the cpp_markdown library |
| File, echo, error, health, sleep handlers | none | one fixed reply each; sleep holds its thread ten seconds | FileSystem (file handler: its own ifstream) |
| Dispatcher (src/dispatcher.cc) | routes: trimmed path -> factory | built from the config for every session; longest-prefix match for every request | config parser, handler factories |
| Request parser (src/request_parser.cc) | none | bytes of one read -> verb, target, body, or failure | session |
| Session (src/session.cc) | socket, 1024-byte buffer, its own dispatcher, error_status | start: one async read; handle_read: parse, dispatch, handle, write | server, io_service |
| Server (src/server.cc) | acceptor, one pending session, six threads | start_accept, handle_accept, run | io_service |
| Config parser (src/config_parser.cc) | token and block stacks | Parse, ExtractPort, ExtractLocation: three readings of one file that share nothing | main, Dispatcher |
| Process (src/server_main.cc) | -- | start; exit(0) from SIGINT and SIGTERM handlers on any thread | everything |
| cpp_markdown (src/cpp_markdown) | a document: its tokens, its table of references | read; five passes over the tokens (merge tags, inline HTML and references, blocks, paragraphs, spans); write | Markdown handler |
| Logging (src/logging.cc) | -- | log lines | -- |

Hard behaviours: handlers on six threads share the disk without a lock, and
each FileSystem function is a sequence of system calls that others can
interleave with (truncate at open, data at close, unlink by name); the process
exits between any two of them; results of system calls are ignored in several
places; ids are computed from a listing taken earlier, with an uninitialized
variable and an int that can overflow. The parsers are sequential, and hard in
another way: they search and look ahead in characters with little regard to
what they are in the middle of, and where one of them stops is where the next
one goes on.

What makes each part correct:

* FileSystem: what the four functions return and leave on disk (the comments of
  include/filesystem.h), alone and interleaved.
* CRUD handler: an acknowledged write stays until somebody deletes it, with its
  content while nobody else writes; a deleted entity stays deleted; a new entity
  never takes the place of an old one; every request comes to an end; used by one
  client at a time it is an atomic map.
* Markdown handler: a saved text stays as it is, and comes back from the edit form
  as it was if it holds nothing that the form has a meaning for; the page of a save shows what was saved; a deleted post is not listed;
  a new post takes no number in use: all across its several calls.
* Session, server: every well-formed request is answered once; there is always
  an accept pending; descriptors are given back.
* Dispatcher: the handler of the longest matching location, with its root.
* Config parser: what a file says is what is parsed, bound and routed, in each of
  the three readings; nothing is dropped in silence; it ends.
* Request parser: verb and target are those that were sent, and so is the body, as
  far as the text of the request can be told from what is behind it in memory.
* cpp_markdown: no text is lost, doubled or moved; paragraphs are those of the
  author; tags nest; every placeholder is restored; it ends.

## 2. Modules

| Module | Models | Uses |
|---|---|---|
| `FileSystem` | src/filesystem.cc at system-call grain: what is linked in the entity directory (`dir`), what the files hold (`disk`), and the call each worker is in (`call`) | -- |
| `CrudHandler` | src/crud_request_handler.cc: `Receive` (serve up to its first call), `ChooseId` (create between its calls), `Reply`, `Abandon` (an exception), `Exit` | `FileSystem` |
| `CrudClients` | what clients may conclude from the replies; variables that only observe | `CrudHandler` |
| `CrudDeletes` | which names a DELETE answered with 200 has removed | `CrudHandler` |
| `EntityStore` | the abstract specification: an atomic map from names to contents, which an exit may damage in one place, and requests that may be dropped before they take effect | -- |
| `CrudRefinement` | the refinement mapping from `CrudHandler` with one worker to `EntityStore` | `CrudHandler`, `EntityStore` |
| `Server` | src/server.cc, src/session.cc: accept chain, sessions, completed handlers, threads, descriptors | -- |
| `MarkdownHandler` | src/markdown_request_handler.cc: `Receive` (serve up to its first call), `NextCall` (what an operation does between two calls), `Reply`, `Abandon` (an exception), `Exit` | `FileSystem` |
| `MarkdownPosts` | what users see on their pages; variables that only observe | `MarkdownHandler` |
| `Dispatcher` | src/dispatcher.cc: routes from locations, longest prefix, null factory | -- |
| `Characters` | texts as sequences of character codes, with whole words as atoms | -- |
| `ConfigParser` | src/config_parser.cc and main's use of it: Parse, then ExtractPort, then ExtractLocation | `Characters` |
| `RequestParser` | src/request_parser.cc as operators on texts, and session::create_request, which applies them to the one text that a session reads, as far as it takes that for text | `Characters` |
| `FrontEnd` | from the two texts to the handler: config file, routes, request, route | `ConfigParser`, `RequestParser`, `Dispatcher` |
| `ConfigAsWritten` | what the statements of a config file say, and ToString of config_parser.cc, which is how the files are written; only the runs use it, for it is recursive | `FrontEnd` |
| `MarkdownSpans` | src/cpp_markdown/markdown-tokens.cpp: code spans, escapes, links, what looks like emphasis, as operators | -- |
| `MarkdownEmphasis` | `_processBoldAndItalicSpans` of markdown-tokens.cpp: the loops over the tokens of a text, one round per step | `MarkdownSpans` |
| `MarkdownBlocks` | src/cpp_markdown/markdown.cpp: the parsers of blocks and the passes over a document, as operators | `MarkdownSpans` |
| `MarkdownDocument` | markdown::Document: the passes as actions, and the emphasis of every text | `MarkdownBlocks`, `MarkdownEmphasis` |
| `FileSystemProofs` | lemmas about a step of `FileSystem`, for the proofs about both handlers | `FileSystem` |
| `RequestProofs` | theorems about `RequestParser` and about `Dispatcher`, each on its own | both |
| `CrudProofs`, `CrudRefinementProofs`, `ServerProofs`, `FrontEndProofs`, `MarkdownProofs`, `MarkdownEmphasisProofs` | theorems and proofs | the module they are about |
| `MC...` | constants for TLC | the module they are about |

### How state and actions correspond to the code

**FileSystem.** A call is a record: which function, for which name, with which
data, how far it is (`at`), what it returns (`ok`, `out`, `list`). One action
is one system call of the C++ library: `MakeDirectory` (exists and
create_directories before the open of writeFile) and `MakeDirectoryFails` (they throw,
and the call is "thrown", which no caller catches), `OpenToRead`, `OpenToWrite` (creates or truncates),
`ReadChunk`, `Write` and `WriteFails` (the flush of close, with all of the data
or a part), `Remove` (the `remove` by name after the open of deleteFile),
`ListDirectory`, `OpenFails`. A file is an inode, so that an unlinked file that
somebody still writes to is there, as on a POSIX system. `Overlay` is a write at
offset 0, and `Lines` what readFile's getline loop makes of a file: it adds a
newline to a last line without one, and drops nothing else.

**CrudHandler.** `req[w]` is the request a worker serves. Names are ints of a
small width (`MinInt .. MaxInt`), because ids are. `NextId` is the loop over the
listing with its stale `entry_as_int` (`Garbage`) and its overflow, which is
taken to wrap around. `Status` and `Response` are what the reply says; only a
failed writeFile and a failed readFile show in the status. `Abandon` is the catch in
handle_read: the session logs what writeFile threw and never replies. `Exit` is exit(0) in
a signal handler: every call ends where it is, the disk stays.

**Server.** A session's `status` is its outstanding operation ("accepting",
"reading"), or how it completed ("accepted", "refused", "received", "failed").
Completed handlers are in `queue` until a thread takes them (`Take`).
`HandleAccept` and `StartAccept` are two steps, because between
`new_session->start()` and the call of start_accept another thread may already
run the session's handle_read. Descriptors are what accepted sockets and files in
use hold; `Scarce` says that none is left. The config is read when a session is
made (`NewSession`), and a session made while `Scarce` has no routes. The
clients and the completion of operations are external: any client may send
its request in one or two segments and may close at any time.

**Dispatcher.** `Dispatch` is one round of the loop in initialize_handlers with
the call of dispatch, in the order of the map (`Before`); `Compare` one round of
the loop in split_uri; `SplitUri` and `GetHandler` the two halves of get_handler
around it. Paths are sequences of character codes because their order matters.

**MarkdownHandler.** As `CrudHandler`, with up to three calls per request: `Final`
says which call is the last of an operation, `NextCall` makes the next one from
what the last one left (create: list, write, read; save: write, read; delete:
delete, list). A target of fewer than nine characters makes `substr` in serve throw
(the action "short"); it ends in `Abandon`, as does a writeFile that throws.
`ExtractText` takes the ends of line off a saved text and `EditForm`
is the page that an edit makes of a post: its text, pasted as it is between
`<textarea>` and `</textarea>` (markdown_request_handler.cc:366-368), and which placeholder
the number of the post went to. What comes back is up to the browser, and external:
`Textarea` leaves out an end of line at the start, ends at the first end tag and
replaces character references, as HTML has it. Texts are over five characters for this:
a letter, an end of line, the placeholder, the end tag and a reference. `Exit` is that
of `CrudHandler`.

**ConfigParser.** `text` is the file and `at` the position of the stream.
`ParseToken` is the function of that name: each `Parse...` action is one token and
the branch of Parse that takes it. `stack` is config_stack with the blocks by
value, so that `Shut` puts a block into the statement it belongs to, where the code
has pointers; `Whole` does the same with the blocks that are open when Parse returns.
`Quoted` says which characters of a quoted token are kept, where the code keeps or
skips them one by one. `ShowNext` is one statement of ToString, or the end of a
block, blanks apart, and `ShowsAs` that the whole tree is shown as a text; that this
is ToString without its blanks is an assumption of `MCFrontEnd` which TLC evaluates on
the statements of its files (`ShownAsToString`).
`SkipPort` and `ExtractPort` are rounds of the loop of ExtractPort, the `Meets...`
actions rounds of that of ExtractLocation that do something: a round that only goes
on to the next character is part of the next one (`Here`). `index_name` is the one
name of that function that a round can take over from an earlier one
(`MeetsIndex`, config_parser.cc:423 and 563-580). `phase` is where startup is; "undefined"
stands for the top() or pop() of an empty stack and "hangs" for a loop that waits for
a character past the end of the file. Keywords and names are single codes above
255, because the code compares them as a whole; digits, quotes, blanks, braces,
slashes and backslashes are themselves.

**RequestParser, FrontEnd.** `parse_req_str` is the search for the first blank, the
first slash, the first blank after it and the first empty line in the whole
text. Which text that is: async_read_some puts what was `sent` into data_, which is
neither initialized nor terminated, handle_read ignores how much it was
(session.cc:24-45), and parse_req_str makes a string of it up to the first NUL
(request_parser.cc:8). So `data_str` is `sent` and whatever is `left` in the memory
behind it, up to the first NUL there (`ReadSome`, `UpToNul`; `Stale` is what may be
there); the comment at tests/integration_test.py:70-74 tells of bodies that are not
those of the request. `Read` and `Reject` are what create_request makes of it; what is
sent is the text of a request as clients write them (`WellWritten`), or anything
else (`Garbled`). `HandleRead` and `RejectRead` are the halves of handle_read around it, `Route` the rest of get_handler; `InitializeHandlers` hands what
ExtractLocation found to the `Dispatcher`.

**cpp_markdown.** A line is a record: indentation, marks (`-`, `1.`, `>`, `#`, `---`,
tags, `[id]:`), the text after them, and whether it ends in two blanks. The
regular expressions are predicates on such lines; the parsers take a position and
return the token found and the position at which they leave the iterator, since
that is what goes wrong. A text is a sequence of words, blanks, runs of one
emphasis character and single signs, and placeholders (`Hold`, `Escaped`) once a pass has
put something into the table of replacements. `ProcessHtml`, `ProcessBlocks`, ...
are the lines of `_process`; then every text goes through `Protect`, the loop that
makes tokens of it (`NextMarker`, `LastMarker`), the two nested loops over markers
(`SplitClose`, `Match`, `SplitOpen`, `NextClose`, `NextOpen`), the pass that unmatches
(`Unmatch`), and `EndText`. The phase "aborted" is a failed assertion, or a text taken
where there is none. The loops are those of `MarkdownEmphasis`, which takes a text
from whoever begins it: `Protect` is its `Begin`, `EndText` its `Finish`, the loops are
`Round`, and the other passes leave its variables alone (`Elsewhere`), so that what is
proved of `EmphasisSpec` holds of the document's texts.

## 3. Runs

| Run | Question | Bounds |
|---|---|---|
| `crud_contents` | Do acknowledged writes leave exactly their body, acknowledged DELETEs no file, and do POSTs spare acknowledged entities? | 2 workers, client name 1, ids -3..2, 2 bodies of different length (one ends in a newline), 3 files, garbage 0 or 1, exits |
| `crud_faults` | Does an acknowledged write have its file until a DELETE, when opens, writes and the making of the directory fail, and does every request end? | 2 workers, ids -2..1, 1 body, 2 files, exits |
| `crud_refines_store` | Is the handler, used by one client at a time, an atomic map? | 1 worker, ids -3..2, 3 bodies, failing directories, exits |
| `server_scarce` | Is exactly one accept under way, and do accepts resume after one failed? | 2 connections, 2 threads, 1 descriptor |
| `server_answers` | Is no session deleted under a handler, and is a request in one piece served while the sleep handler holds a thread? | 2 connections, one of them a sleeper, 2 threads, descriptors for all |
| `front_end` | Is what the config file and the request say what is parsed, bound, routed and served, and does startup end? | 1955 config files (sections of up to three locations, every port at a boundary, three layouts, three index names for two paths with an extra blank before any of them, every text of up to five tokens, strays), 5 verbs, all targets, a body with a NUL, five texts that are no requests, a NUL or the end of another request behind each |
| `markdown_posts` | Do saved texts stay and come back, do pages show what was saved, do deleted posts vanish, do creates spare posts? | 2 workers, post 1, numbers -3..2, 4 texts (with an end of line at its end, with one at its start, with an end tag, with the placeholder and a reference), 2 files, failing opens and directories, exits |
| `markdown_document` | Is no text lost, doubled or moved, are paragraphs those of the author, do tags nest and the matching end? | 34378 documents: 5 lines of 6 kinds (once without and once with HTML), 4 of 8, 3 of 23, single lines of up to 5 pieces with emphasis, code, links |
| `crud_deletes` | (violated) Does a deleted entity stay deleted? | 2 workers |
| `server_null_factory` | (violated) Is a request without a route handled? | 2 connections, 3 threads, 3 sessions, 2 descriptors |
| `dispatch_root` | (violated) Does each handler get the root the config gives its location? | all configs over 5 overlapping paths, 3 handler names, with or without roots |
| `markdown_marker_sizes` | (violated) Are emphasis markers of size 1, 2 or 3? | single lines of three pieces of a word, `***` and `___` |

Why the bounds are enough. Requests meet in pairs on one name: two workers reach
every interleaving of two calls, and rivalry among more of them is covered by
the proofs. Two ids next to `MaxInt` reach the overflow. Three files (in `crud_contents`)
are one more than the names a pair of workers can hold open, so that an unlinked file is
written to while its name has another one, beside a third; with two files
(`crud_faults`, `markdown_posts`) there is no third. Three sessions are two connected ones
and the pending one; with fewer descriptors than that, accepts fail. Five paths
contain a prefix by name (`/a`, `/ab`), by component (`/a`, `/a/b`), and a pair
that trim_slashes makes equal (`/a`, `/a/`).

Parse depends on a token and on the one before it, and five tokens close two blocks
too many, or leave two open. The ports are those at which a digit, a range
or a width begins to matter (080, 1023, 1024, 40000, 65535, 65536, 2^32 + 80). No
parser of blocks looks further than one line past a blank line, apart from code,
which goes on as it began, and inline HTML, which goes on to its end wherever that is:
five lines are a block, a blank line, the line looked at,
and a block on either side, or HTML that no line ends, a blank line and a paragraph of
two lines. Matches cross with two openers and two closers,
which are among the single lines (`Crossing`), with every size.

`CHECK_DEADLOCK FALSE` is set where the system really may stop: a front end
that has refused its config file or routed its request, a document that is
written, every client of a server connected once. In the runs of the CRUD and
the Markdown handler deadlock is checked.

### What the violated runs show

* `crud_deletes`: deleteFile opens with ios::out before it removes, so a DELETE
  of a name that is gone creates it for a moment (and for good if the process
  exits there); a GET in between finds an empty entity with 200. For the same
  reason deleteFile returns true for a file that never existed.
* `server_null_factory`: a session is made while the handler of another connection
  has a file open. That file and the socket of its connection, which nothing closes
  after the reply, are the two descriptors there are, so the config file cannot be
  opened and the session has no routes. Then the handler closes its file, which
  leaves a descriptor for the next connection, and get_handler calls create on the null
  pointer that `routes["/"]` makes.
* `dispatch_root`: for `location /static/ ...` the root is looked up as
  `/static` and is empty.
* `markdown_marker_sizes`: an open `***` compared with a close `___` is split into
  sizes 0 and 3. The close marker is then split to fit the one of size 0, into
  0 and 3 again: as in `***a___`, the conversion does not end. `SpansEnd` is
  checked for documents in which no run of three meets one of three of the
  other character.

### What else the models record

Behaviours that the properties leave out by a stated condition, each of which the
model has:

* Config: an extra `}` makes Parse call top() or pop() of an empty stack; an
  unclosed block, and `a; }`, are accepted; the last word of a file that ends
  without a blank is lost (`NothingLost` asks for no brace that closes none, which
  empties the stack, and for a last character that ends a word; comments and
  backslashes are not in the tree).
  `location /x;` at the end of the file makes ExtractLocation wait for a blank for
  ever; locations in comments count; a `root` in a later block that is no
  location goes to the last location (`LocationsAsWritten` and `StartupEnds` are about
  files written by their statements). The index of a location is put behind those of
  the locations before it, back to the last one with more than one blank before
  the name: `LocationsAsWritten` says so (`IndexesRead`), and nothing in the code uses
  path_to_index yet. A quote that is escaped ends the token if a
  blank follows it, and loses its backslash.
* Requests: `RequestAsSent` says that the body goes on into what is behind it in
  memory, up to the first NUL, and ends at a NUL of its own. A text without an empty
  line may find one behind it, and is then taken for a request.
* CRUD and Markdown handler: a request whose directory cannot be made, and one for a
  target too short for `substr`, gets no reply and its connection stays open
  (`EveryRequestEnds` counts giving up as an end).
* Markdown handler: a failed listing makes create write over post 1; a text with the
  letters `editsPID` gets the number of the post, which the form that deletes then
  lacks; an editor shows a text with `</textarea>` up to there, one with `&lt;` with what
  that stands for, and one that begins with an end of line without it, and saves
  them like that. `EditSaveIdentity` says that a text comes back exactly if none of
  these is in it (`ComesBack`).
* Markdown: a line directly after a quote, a list or code, without a blank line
  between, is lost if it belongs to neither (the iterator is advanced twice, at
  markdown.cpp:777-782), although the comment at 254-257 lets a line without
  prefix go on with the quote. Inline HTML between two code blocks vanishes, since it counts
  as a blank line. Spans in headers are not processed. `assert(p)` at
  markdown.cpp:380 and 431 fails for an item of a sublist whose text starts with `*`
  or `-`; lines 268 and 405 take the text of a token that has none, or of the end, as for
  a quote, a blank line and inline HTML. Nothing is said of the documents that abort.
  Inline HTML ends only at a line of its own before a blank one (markdown.cpp:119-147),
  or else goes on to the end of the document, over blank lines and paragraphs:
  `ParagraphsAsWritten` is about lines that no HTML may still go on over
  (`MaybeInHtml`). The
  target of an inline link reaches to the last `)` before another `(`.
  Placeholders taken into an image's description or a link's target are
  written as they are.

### Fairness

`crud_faults`: a worker that has a request goes on with it (`WF` of its steps).
Threads are scheduled by the operating system, and no step of a handler waits
for another one; nothing is assumed about requests, which need not come. An exit
ends every request, answered or not, and an exception ends its own: `EveryRequestEnds`
says that no request goes on for ever, not that each gets a reply.

`server_scarce`, `server_answers`: a completed accept or read is delivered and a
thread with a step to take takes it, except in the sleep handler, which the
fairness lets stay for ever (`Awake`): ten seconds are long for the others, and
the property does not depend on their end. Clients have no fairness. There is
no strong fairness anywhere; `AcceptCompletes` is fair for the server as a
whole, since the kernel hands out connections in some order.

`front_end`, `markdown_document`: one thread, which does not stop between two
steps (`WF` of `FrontEndNext`, `WF` of `EmphasisStep`).

## 4. Proofs

All theorems hold for every value of the constants under the modules' ASSUMEs,
which say what constants are (ids are the ints of some width, bodies are data,
clients ask for names; sleepers are clients; paths begin with a slash; requests are
written as `WellWritten` says).

* **CrudProofs** -- `TypeCorrect`; `AckedWritesSurvive` (`AckedWritesExist`) and
  `AckedDeletesLast` (`AckedDeletesGone`). That an acknowledged name has a file
  is not inductive: whether it keeps it depends on who is in a call on it. The
  invariant `KnownInv` adds that rivals are recorded on both sides (`Rivalry`),
  that nothing but a DELETE in a call takes a name away (`WriteHolds`,
  `DeleteHolds`), that a name known present is touched by writes only and one
  known absent by nobody (`PresentHolds`, `AbsentHolds`). `FsStepDir` says once
  what a system call may do to the directory; the steps cite it.
  `PostSparesAcked` (`CreateSparesAcked`) is by `SeenInv`: what a POST has seen
  present is on the disk until a DELETE arrives, hence in its listing, hence
  below its id (`NextIdFresh`, by `MaxIsGreatest`); `AckedContentSurvives`
  (`AckedContent`) by `ContentInv`: no two names share
  a file, the file a write opened is the one its name is linked to while it has
  no rival, and it is empty until written.
* **CrudRefinementProofs** -- `ImplementsStoreAlone` (`ImplementsStore`), for one
  worker and no failing calls but those that make the directory: every step of `CrudHandler` is one of `EntityStore`
  or changes nothing of it. A writeFile and a deleteFile take effect at the open
  that truncates the file, where the old content is lost: from there on the
  mapping shows the new content, or no file, and the reply is fixed, although the
  flush or the removal is still to come. A GET and a listing take effect where
  their call ends, a request whose directory cannot be made is dropped without an effect
  (`AbandonSimulated`), and an exit between the open and the end costs the content of
  that one entity. `AloneInv` says what the one call has done so far: the file
  it writes or removes is the one its name is linked to and is empty, a file
  being read has given nothing yet or all it holds, a listing is of what is
  there, and a chosen id has no file unless the number wrapped around. That a
  missing file is told from every content (`AbsentAssumption`) is assumed of the
  constants.
* **MarkdownProofs** -- `PostsTypeCorrect` (`PostsTypeOK`); `DeletedStaysGone`
  (`DeletedNotListed`) and `CreateTakesFreePost` (`CreateSparesSaved`) by `PostsInv`,
  `SavedTextSurvives` (`SavedTextKept`), `PageShowsWhatWasSaved` (`PageShowsOwnText`)
  and `EditedPageSavesSame` (`EditSaveIdentity`) by `ContentInv`; the last says of every
  text of a post whether it is the one saved after a round through the form. An operation here is up
  to three calls, and what holds between them is what has to be found: a post
  that was written by the first is there for the second to read, or to be
  left out of the list, while no rival came (`Kept`); a name chosen from a list
  is none of those seen saved when the request arrived (`SeenHolds`). `ContentInv`
  adds what the files hold at each point of a call (`TextHolds`, `ReadHolds`).
* **FileSystemProofs** -- no theorem of its own: what one system call may do to the
  directory and to the files (`FsStepDir` and its like), and that a number chosen
  from a listing is above all that it lists. Both handlers' proofs cite it.
* **ServerProofs** -- `ServerTypeCorrect`, `AcceptChainHolds` (`OneAccept`),
  `NoUseAfterDelete` (`SessionsOutliveHandlers`). The conjunction of the three is
  inductive and none of them is alone: the chain forks if two threads run one
  session's handler, and a session's handler is unique because its operation is.
* **RequestProofs** -- of the Dispatcher, `MatchIsLongest` (`LongestMatch`) and
  `ExactLocationKept` (`ExactLocationWins`), with `DispatcherTypeCorrect`. The
  invariant says that the routes are those of the locations dispatched so far
  (`RoutesInv`), that these come before the rest in the order of the map
  (`OrderInv`, with `ExactComesFirst`: a path comes before whatever
  trim_slashes makes into it), and that the loop of split_uri has the longest
  match among the routes it has seen (`SearchInv`). Of the request parser,
  `EveryRequestAsSent` (`RequestAsSent`): `Layout` says where
  the parts of a request are in its text, `Found` that each search of parse_req_str
  stops at the part it is meant for, because the verb is a word, the target has no
  blank and no end of line, and no empty line begins in the headers. The body, and what
  is in memory behind it, may hold anything: the first NUL comes behind the empty line
  (`HeadHasNoNul`), so that the text which is parsed is that of the same request with a
  longer or a shorter body (`LengthenedText`), and what holds for any body holds for it
  (`WholeTaken`, `WholeRejected`).
* **FrontEndProofs** -- `HandlerIsDue` (`ServedAsFound`): for any file and any
  requests, a request gets the handler of a longest location that ExtractLocation
  found and that covers the target as it was sent, and a null factory only if none
  covers it. `FrontEndInv` puts together the invariants of the two components, which
  now get their input from other components: `ExtractInv`, that all paths found
  begin with a slash (a path is read from a slash up to a blank, `PathFound`) and
  that a root is one of a path with a location; `LinkInv`, that the Dispatcher has
  nothing before ExtractLocation is done (`Undispatched`), then what was found, and
  that it searches for the target of the text that was parsed. That the null factory
  comes of no covering location needs the slash: a route at `/` would cover every
  target. From the same invariant, `FrontEndRoutes` (`LongestMatch`,
  `ExactLocationWins`), `FrontEndRequests` (`RequestAsSent`) and `FrontEndTypes`
  (`DispatcherTypeOK`). What the file's statements say is what was found by
  `LocationsAsWritten`, which the run checks.
  `ConfigKept` (`NothingLost`): when Parse says yes, its tree has every character of
  the file. `ParseInv` says that the stack holds what was read by now: level by
  level, the statements that are done with are shown as a text, the open one by its
  words, and all of it one behind the other is what is not blank of the file up to
  `at` (`Between` with no statement open, `Within` with one). `TokenTakes` says that
  a token takes the characters up to where the next one starts, none but blanks
  apart; then every branch of Parse adds to the stack what its token took
  (`WordBegins`, `WordFollows`, `StatementCloses`, `BlockOpens`, `BlockCloses`), and
  at the end of the file `ConfigEnds` closes the blocks that are open. How a tree is
  shown (`Renders`) is stated for whatever follows it and came before it, so that
  one behind the other can be put together (`ConcatRenders`, `BlockRenders`).
  Functions that go through a text are recursive functions: that they exist, and what
  they are, is by the least position at which they would not (`LeastPosition`).
* **MarkdownEmphasisProofs** -- `TopDefined` (`UnmatchDefined`) and `TagsNest`
  (`NestedTags`), for every text, and whatever the regular expression matches in it.
  Matches are made across each other, and a close marker that is compared lengthens
  the list under the iterators: that matched markers come in pairs, in order and
  of one kind (`Paired`), has to survive insertions. The last pass is right
  because of its stack (`StackOK`): every match that is open at `ii` is on it
  (`OnStack`), in the order of the open markers (`Ordered`), so that the top is the
  one opened last, and a close marker of any other crosses it (`NoneCrossed`).
  What was unmatched may stay on the stack, below the top.
  `CharactersKept` (`MarkersConserved`): splitting and lengthening markers, matching
  and unmatching them neither takes nor adds a character. `ConservedInv` says that the
  tokens have the characters of the text up to `prev` while they are made, and all of
  them afterwards. What the expression matches is needed here: in the middle of a word
  it takes the run of characters that it found before the word again behind it. Sums
  over a list are a recursive function; that a list of parts has the sum of its parts
  (`TotalOfBoth`, `TotalOfPart`) is by the least place at which it would not.

Conditions the theorems carry: `PostSparesAcked` and `AckedDeletesLast` need opens
that do not fail; `AckedContentSurvives`, `SavedTextSurvives`, `PageShowsWhatWasSaved`
and `EditedPageSavesSame` writes that do not fail; `ImplementsStoreAlone` needs both (its directory may fail), and
one worker: with two the handler is no atomic map (`crud_deletes`).

Constants are assumed to be what they are in the code: config files are texts, and
the names that a file can give a location are among those the Dispatcher is asked
about (`FrontEndAssumption`).

Only model-checked: the liveness properties (`EveryRequestEnds`,
`AcceptsResume`, `RequestsServed`, `StartupEnds`, `SpansEnd`), which the prover
cannot reach; that what the file's statements say is what is parsed, bound and
found (`ParsedAsWritten`, `PortAsWritten`, `LocationsAsWritten`), which speaks of
trees and their layout by recursive operators (`ConfigAsWritten`); and what is said of
the other passes of cpp_markdown (`KeptInOrder`, `BlankSeparatedKept`,
`ParagraphsAsWritten`, `RestoredOnce`), since `MarkdownBlocks` is recursive over nested
blocks.

## 5. Not modelled, and abstractions

* CRUD: targets that map to the entity directory itself (a PUT of it, a POST of
  an id) and targets so short that substr throws (an outcome in `Server`); names
  with slashes.
* Markdown handler: a `postid` that is no file name, which makes paths of data_path
  itself or of `51` in `create?postid=5`; the looks of the pages; convert's result, which
  is what `MarkdownDocument` is about.
* Server: `handle_write` (nothing calls it); replies too large for the socket's
  buffer, which could make http::write wait; the framing of replies without
  prepare_payload; requests of more than 1024 bytes and of three and more
  segments; opening the config is one step with making the session. Signals are
  in `CrudHandler` and `MarkdownHandler` (`Exit`) and not here, where nothing
  survives them.
* Config parser: words that contain a keyword (`Llisten`), and a keyword so close
  to the end of the file that looking ahead sets the end of the stream, which ends
  the loop early; a file that cannot be opened.
* Request parser: words that contain a verb; a request of more than 1024 bytes, with no
  buffer left behind it (what is behind `data_` then is another member of the
  session).
* Dispatcher: the factories' create functions only pass their arguments on.
* cpp_markdown: attributes of HTML tags, auto-links, titles, double backticks, nested
  parentheses and brackets, emphasis next to punctuation, the levels of headers,
  several ids, several blanks after a mark, blank lines that hold many blanks, tab
  expansion and the encoding of characters. The marks of a line that stays plain
  text are no part of its spans. Two conversions at once are not modelled: they share
  nothing but the tables of isValidTag, which are filled by whoever comes first,
  without a lock.
* File, echo, error, health and sleep handlers: as steps of a session in `Server`; what they
  reply is a constant or a file. Logging has no reader.

## 6. Plan

1. The path level of writeFile (names with slashes, the entity directory itself).
2. That a file in which every brace closes a block never empties the stack of
   Parse, from `ParseInv`.
3. `LocationsAsWritten` for files laid out in one way, with a model of their text that
   is not recursive.

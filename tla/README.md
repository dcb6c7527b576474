# TLA+ models of grammers: message snapshots, topic resolution, message operations and the forum-topic dispatcher

This directory holds the TLA+ models, TLC configurations and TLAPS proofs kept beside
`src/lib/grammers-client`. Two pieces of code are modelled:

- the message snapshot, `src/types/message.rs`;
- the forum-topic bot `examples/forum-topic-filter.rs`, which is built on that snapshot.

## 1. The system

| Part | Code | Role |
|---|---|---|
| **MessageSnapshot** | `Message::from_raw` (91-153), `Message::from_raw_short_updates` (155-223), `struct Message` (74-88) | Turns one of three wire shapes into one `Message`: `Empty` gives `None`; the full `Message` is kept as is; `Service` is widened into a full message with empty text and its action kept aside. The acknowledgment of a local send (`UpdateShortSentMessage`) is combined with the `InputMessage` that was sent. |
| **TopicResolver** | `reply_to_message_id` (525), `is_forum_topic` (538), `topic_id` (554-580), `is_in_topic(s)` (585-600) | Reads the reply header. The header has two variants carrying the same three fields, and a `_` arm for story replies. The topic is `reply_to_top_id`, falling back to `reply_to_msg_id`, and exists only if `forum_topic` is set. |
| **Accessors** | flags (227-272), `sender` (296), `chat` (316), `text` (347), `action` (520) | Pure queries on the snapshot. |
| **ChatRegistry** | `ChatMap`, `utils::always_find_entity` (not under `src/`) | Resolves a peer to a chat. If the response did not carry the chat, it builds a minimal stand-in from the peer. |
| **UpdateDispatcher** | `async_main` (66-130), `handle_update` (27-64), `main` (132-138) | Does the following in order. 1. Connects. 2. Signs in if needed and saves the session. 3. Loops on `select(ctrl_c, next_update)` and spawns one task per update. Each task replies to incoming messages of an allowed forum topic. 4. On Ctrl+C, saves the session and returns. That drops the current-thread runtime, and with it every task still running. |
| **Outbound operations** | `react` (463-471), `reaction_count` (474-490), `get_reply` ... `refetch` (645-789) | Shorthands: each builds one request to the client for the snapshot's chat and id and maps the answer. `reply_album`, `forward_to` and `refetch` unwrap, and `refetch` ends in `todo!`. |
| **Session and restarts** | `Session::load_file_or_create`, `catch_up: true` (83-95), the saves (100, 128) | The session file holds the client's update state; a new start resumes the update stream from it. |
| Formatting | `debug_topic_info`, `Debug`, `markdown_text`, `html_text`, `download_media` | Has no state change. Not modelled. |

**How the parts interact.** Each update the dispatcher takes is a snapshot, built by
`from_raw` against the ChatMap of the response. `handle_update` reads the snapshot through
`outgoing`, `chat`, `text` and `topic_id`, and sends a reply with `send_message`. The
dispatcher's concurrency comes from two things:

- the tasks it spawns;
- the `select` race between Ctrl+C and the next update.

A current-thread runtime runs the spawned tasks only while `async_main` awaits. The
runtime is dropped as soon as `async_main` returns.

**Hard behaviours.**

- The `select` is biased: the left future, Ctrl+C, is polled first.
- Handlers run in any order relative to the loop and to each other.
- A handler's send may fail, and the failure must stay local to that handler.
- A transport error ends the program without a save (`u?`, line 114).
- Ctrl+C before the first `ctrl_c()` call kills the process outright.
- Shutdown drops the handlers that are still running.
- Topic resolution uses two header variants, a fallback, and a catch-all arm.
- A short-sent acknowledgment never carries a forum topic.

## 2. Modules

| Module | Models | State and actions |
|---|---|---|
| `MessageSnapshot` | message.rs: shapes, `from_raw`, `from_raw_short_updates`, accessors, topic resolution. It also has the reference algorithm of spec §4.2 (`Descriptor`, `SpecTopicId`). | No variables; operators only. A Boolean flag is the presence of its name in `flags`; an optional field no query reads is the presence of its name in `extra`; the fields queries read keep their values. `NoneVal` is Rust's `None`. |
| `NormalizationCheck` | A harness that calls `from_raw` or `from_raw_short_updates` once and keeps the input beside the result. | `input`, `result`. Actions `NormalizeWire`, `NormalizeShortSent`. |
| `Dispatcher` | forum-topic-filter.rs | `main` (the point `async_main` has reached: connect, authorize, sign_in, loop, ok, error, killed), `sigint` (Ctrl+C pending), `ready` (an update buffered), `saves`, `task` (per slot: free, spawned, sending, done, failed, cancelled, and its update), `outbox` (replies sent). One action per step: `Connect`, `Authorize`, `SignIn`, `Interrupt`, `UpdateArrives`, `SelectExit`, `SelectUpdate`, `SelectTransportError`, `HandlerPoll(s)`, `HandlerSendDone(s)`. |
| `DispatchLoop` | Spec §4.3 and §5: what the dispatcher promises. | `phase` (Starting, Running, Draining, Stopped, Failed, Killed), `inflight` and `detached` handler counts. Actions `Start`, `Dispatch`, `Signal`, `Complete`, `Persist`, `TransportFailure`, `DetachedComplete`. No code lines: it is the abstract specification `Dispatcher` is shown to implement. |
| `Restart` | The bot across restarts: `Dispatcher` composed with the session file and the server's update stream. | `Dispatcher`'s variables, plus `produced` (updates the server has made), `recv` (the client's update state), `pos` (updates `next_update` returned), `saved` (the state in the file, or none), `runs`, `answered[i]` (replies to update *i* over all runs), `ungraceful`. `Dispatcher` is instantiated with `ready <- pos < recv`; each of its actions is wrapped with what it does to the session (`RSignIn` and `RSelectExit` write `recv` to the file). `Produce` and `Receive` are the server and the client; `Restart` starts the program again, resuming from the file (`catch_up`) or, without a file, from the server's present. |
| `MessageOps` | message.rs 463-490 and 645-789. | `msg` (the snapshot held), `alive` (the message exists on the server), `reqs` (requests made, with the method, client function, chat, id, destination and reply targets), `last` (the last method and its result: ok, err or panic, and a count), `calls`. One action per method, plus `DeletedElsewhere`. The client's Ok/Err is chosen freely. |
| `MC*` | Instances for TLC (see §3). | |
| `MessageSnapshotProofs`, `NormalizationProofs`, `DispatcherProofs`, `DispatcherRefinementProofs`, `RestartProofs`, `MessageOpsProofs` | TLAPS proofs. | See §4. |

**How the dispatcher maps to the code.**

- `Winner` is the `select` at line 112: Ctrl+C wins whenever it is pending.
- `SelectExit` is the `break` plus the save at 127-128, which succeeds (`ok`) or fails (`?`, `error`). Either way the runtime is dropped (`DropRuntime`): every spawned or sending task becomes `cancelled`.
- `SelectUpdate` is the `Right` arm plus `task::spawn` (119): the task goes into a free slot, and whether another update is buffered is chosen freely.
- `HandlerPoll` is `handle_update` up to the `send_message` await; `HandlerSendDone` is that await's outcome (`Ok` adds to `outbox`; `Err` is printed at 122 and the task is `failed`).
- Before the loop there is no SIGINT handler, so `Interrupt` ends the process (`killed`).
- In the loop, every iteration creates a new `ctrl_c` listener (109), which is pending on its first poll. So the exit arm can win only against a `next_update` that is also pending. `Interrupt` in the loop therefore needs `~ready`: it is the signal reaching the listener of a waiting `select`. A signal at any other moment reaches no listener and changes nothing. An update that becomes ready after the signal still loses to the exit arm, which is polled first.

**The refinement mapping** (`Dispatcher`, `Abs`). `Phase` maps start-up to Starting, the
loop to Running, or to Draining once Ctrl+C is pending (from then on `select` can only
take the exit arm), and the exits to Stopped, Failed and Killed. `inflight` is the number
of spawned or sending tasks, `detached` the number the runtime drop cancelled. The
abstract `DetachedComplete` never happens in the code: cancelled tasks never finish. A
safety refinement allows this; it is the `dispatcher_cancel` finding seen from the
abstract side.

**The session contract in `Restart`.** The client and the session file are outside
`src/`, so what they do is modelled from their interface:

- the client receives the server's updates in order while connected;
- `next_update` hands them out in the same order;
- `save_to_file` writes the client's update state, that is, everything received;
- `catch_up` resumes after the saved state;
- a session without a file starts at the server's present and must sign in.

**How `MessageOps` maps to the code.** Each action is one whole method: the request it
builds and how it maps the client's answer.

- `Reply` overrides the message's `reply_to` with `self.raw.id`.
- `ReplyAlbum` panics on an empty album. Otherwise it overrides the first media's `reply_to`.
- `MarkAsRead` uses `channels::ReadHistory` exactly when the packed chat is a channel.
- `ForwardTo` takes the client's contract from its comment (707-708): a failed single forward is an RPC error.
- `Refetch` returns its `?` error or panics. A deleted message comes back as `None` and the unwrap at 787 panics on it; a live one reaches `todo!`.
- `ReactionCount` sums the counts at a width `IntWidth`. `Total` is `Iterator::sum`: a recursive function adding the counts one by one from 0. An overflow panics in a debug build and wraps in a release build, and `Builds` holds both outcomes.

## 3. Runs

| Run | Config | What it shows |
|---|---|---|
| `normalization` (pass) | `MCNormalization.cfg` | `NormalizationContract` (spec §4.1 for every wire shape and acknowledgment) and `TopicResolutionMatchesSpec` (`topic_id`, `is_in_topic(s)` agree with §4.2 for every header and topic set). |
| `dispatcher` (pass) | `MCDispatcher.cfg`, with fairness | `RepliesOnlyToAllowedTopics`: every reply answers an incoming message of an allowed topic, naming that topic, in that chat. `SaveDiscipline`: saves only after sign-in and once at Ctrl+C shutdown, with no handler left running. `ShutdownTerminates`: Ctrl+C always leads to exit. |
| `dispatcher_refines` (pass) | `MCDispatcherRefines.cfg` | `ImplementsDispatchLoop`: the dispatcher implements `DispatchLoop` under the mapping above. |
| `dispatcher_cancel` (violation) | `MCDispatcherCancel.cfg` | `NoHandlerCancelledAtShutdown` fails: a handler sending when Ctrl+C arrives is dropped with the runtime. |
| `restart` (pass) | `MCRestart.cfg` | `NoDuplicateRepliesAfterCleanExits`: across three starts, while every run ended by Ctrl+C and its save, no update is answered twice. `ResumePointMonotone` (an action property): no save writes an older update state than the file's, even across kills during start-up, and while every run ended cleanly `next_update`'s position never decreases, restarts included. |
| `message_ops` (pass) | `MCMessageOps.cfg` | `RequestsTargetSnapshot`: every request names the snapshot's chat and message, forwards go from it to the chosen chat, replies answer it, `mark_as_read` picks the channel form exactly for channels. |
| `message_ops_panic` (violation) | `MCMessageOpsPanic.cfg` | `HandlerFailuresAreErrors` fails: `reply_album` with an empty album panics. |
| `reaction_count_overflow` (violation) | `MCMessageOpsReactions.cfg` | `ReactionCountIsTotal` fails: counts summing past the integer range panic (debug) or wrap negative (release). |

Every property of a passing run has a mutant in `PROJECT.json`: a plausible bug in the
mapped code that TLC finds the property violated under. Examples are a reply addressed to
the chat entity, a filter without the `outgoing` guard, a save per update, the select arms swapped, a restart keeping the old `next_update` position,
a shutdown save without the current update state, an album with the id prepended, and a
forward with its chats swapped.

**Findings.**

1. *Handlers cancelled at shutdown* (`dispatcher_cancel`). Spec §5 says a running handler is never forcibly cancelled. `async_main` returns after the save, so `block_on` (137) drops the runtime with the spawned tasks. The trace: sign in, an update is spawned, Ctrl+C, select exit, and the task is `cancelled`.
2. *`reply_album` panics on an empty album* (`message_ops_panic`, line 697). Specs §4.3 and §7 say a handler's failure is an error that is caught and reported. The `refetch` panics (787-788) break the same property; spec §132 already records `refetch` as unimplemented.
3. *`reaction_count` overflows* (`reaction_count_overflow`, line 486).

**Bounds.**

- Two message ids, one user and one group (plus a channel in `MCMessageOps`). These separate `reply_to_top_id` from `reply_to_msg_id`, an allowed topic from another, and a registered chat from a stand-in.
- Two slots give two handlers at once, and a handler running while the loop exits.
- The seven updates of `MCDispatcher` cover every branch of the filter and the resolver.
- `MCRestart` has a stream of two answered messages and three starts. That allows one update handled and one buffered or in flight at Ctrl+C, a restart after a clean exit, and one after a crash.
- `MCMessageOps` allows three calls (enough for a delete or a deletion elsewhere followed by two more methods) and albums of up to two medias.
- The reaction counts use 16-bit integers rather than 32. The wrap is the same arithmetic, and TLC's own 32-bit integers must hold the unwrapped sum.

**Fairness.** `FairSpec` assumes weak fairness of the start-up steps, of the select (either arm), and of each slot's poll and send outcome. The tokio runtime polls every woken task, and a `select` whose Ctrl+C future is ready completes at the next poll. `Interrupt` and `UpdateArrives` are the environment and get no fairness.

## 4. Proofs

The proofs hold for every value of the constants satisfying the named assumptions
(`ConstantsAssumption`, `InputsAssumption`, `DispatcherAssumption`: at most one allowed
topic, finitely many non-empty slots; `RestartAssumption`: the stream is a
sequence of distinct updates, `None` is no update count and the allowed topic is a
message id, as `DispatcherAssumption` states for `Dispatcher`).

- `MessageSnapshotProofs` holds lemmas about the operators:
  - `TopicIdMatchesSpec`: `topic_id` equals the four steps of §4.2 on every snapshot;
  - `IsForumTopicMatchesSpec` and `TopicQueriesMatchSpec`: the same for `is_forum_topic`, `is_in_topic` and `is_in_topics`;
  - `FromRawType` and `ShortSentType`: normalisation returns `None` or a snapshot.
- `NormalizationProofs` proves three theorems, each inductive on its own because one call sets the input and the result together:
  - `NormalizationTypeCorrect`;
  - `NormalizationMeetsContract` (§4.1);
  - `TopicResolutionCorrect` (§4.2).
- `DispatcherProofs` proves `TypeCorrect` and `RepliesAllowed` (`Spec => []RepliesOnlyToAllowedTopics`).
  - The invariant is not inductive alone. The proof needs to know that a sending task holds an update the filter accepted (`SendingAnswers`) and that every occupied slot holds an input (`HeldUpdates`).
  - The inductive invariant is `IInv == TypeOK /\ HeldUpdates /\ SendingAnswers /\ RepliesOnlyToAllowedTopics`, checked by TLC first. `InitIInv` and `NextIInv` prove it, with one case per action. The send case rests on `AnsweredUpdate`, and the exit cases on `DropRuntimeType`.
- `DispatcherRefinementProofs` proves `Refinement`: `Spec => ImplementsDispatchLoop`. It uses the invariant `RInv`, which is `IInv` plus four facts:
  - Ctrl+C is pending only from the loop on;
  - during start-up every slot is free;
  - no task is cancelled before an exit;
  - no task runs after one.

  Without them, a step such as `Interrupt` during start-up or a handler step after the exit would not map to an abstract step. `StepRefines` shows every step is an abstract step or a stutter, with one case per action. The counting lemmas `CountAdd` and `CountRemove` (from `FiniteSetTheorems`) turn a slot changing state into `inflight` ± 1.

- `DispatcherProofs` also proves the action property `SavesDisciplined` (`Spec => SaveDiscipline`). It rests on `SaveStepHolds`: under `TypeOK`, every step of `Next` is a `SaveStep` or a stutter, with one case per action.
- `RestartProofs` proves `NoReplay`: `Spec => []NoDuplicateRepliesAfterCleanExits` for every stream, number of slots and number of starts. The invariant is not inductive alone. A reply to update *i* only says nothing about the next spawn. The inductive invariant `ReplayInv` (in `Restart`, checked by TLC first on `MCRestart`) adds, while every run has exited cleanly:
  - every update a task holds, and every update answered, lies at or before `pos`;
  - a running task holds an update with no reply yet, and no two running tasks hold the same update;
  - after a clean exit the file's update state is at or past `pos`.

  So `RSelectUpdate` hands out update `pos + 1`, which nobody holds and nobody answered, and `Restart` resumes at or past `pos`. `RHandlerSendDone` turns an answer count from 0 to 1. The lemmas `IndexOfStream` and `IndexOfRange` turn distinct updates into distinct indices. `TaskOnlyStep` covers steps that only move tasks on. `DroppedInv` covers the two exits that drop the runtime.

- `RestartProofs` also proves `RestartTypeCorrect`: `Spec => []TypeOK` for the composition, whatever way the runs end. `TypeOK` is not inductive alone, for two reasons. A restart sets the client's state from the file, so the file must never count more updates than the server produced. A finished send adds its reply to `outbox`, so a task awaiting `send_message` must hold an update the filter accepted. The inductive invariant `TypeInv` (in `Restart`, checked by TLC on `MCRestart`) adds both. The send step rests on `AnsweredReply`, the exits on `DropRuntimeFacts`.
- `RestartProofs` also proves the action property `ResumeNeverRewinds`: `Spec => ResumePointMonotone`. The file's state must never go back, so a save must write a state at or past the file's. That needs a second strengthening, `SavedBehind`: the file never counts more updates than the client has received. It holds because a save writes the client's state and a restart resumes the client from the file's. TLC checked it on `MCRestart` before the proof. `ResumeStep` shows that every step under `ReplayInv /\ SavedBehind` is a step of the property, with one case per group of actions:
  - a restart after a clean exit resumes from the file's state, which `ReplayInv` puts at or past `pos`;
  - `RSelectUpdate` adds one to `pos`;
  - the two saves write `recv`, which `SavedBehind` puts at or past the file's state;
  - every other step leaves both unchanged (`KeepsFileAndClient`).
- `MessageOpsProofs` proves `RequestsAreAboutSnapshot`: `Spec => []RequestsTargetSnapshot` for every set of snapshots, destinations, album sizes and call counts. The snapshot never changes and requests are only ever added, so the invariant is inductive as it stands. `ReqTargets` shows that a request built by `Req` names the snapshot's chat and id. `CallKeeps` lifts that to one method call. `AlbumFirst` shows that a non-empty album's first media answers the message. There is one lemma per group of methods.

**Only model-checked.**

- `ShutdownTerminates`: liveness and `ENABLED` are beyond TLAPS.
- `TypeOK` of `MessageOps`. Its `count` field is `Total(Reactions)`, and showing that this is an integer for every list of counts is an induction over the list, which the provers cannot do.
- The other `MessageOps` properties, and `NoHandlerCancelledAtShutdown`, are violated, and their runs give the counterexamples.

## 5. What is not modelled, and why

- **The transport, the client and the session file's format.** They are outside `src/` and the spec's scope. They appear only through their outcomes and, in `Restart`, through the update-state contract above. The session's authorisation is the `Authorize` outcome.
- **Formatting and I/O.** `debug_topic_info`, `Debug`, `markdown_text`, `html_text`, `download_media` and `photo` change no state.
- **Accessors that clone an optional field** (media, counts, dates, markup). No property tells their values apart.
- **Handler errors** (120-123). The spawned block matches on the result of `handle_update` and only prints the error. In the model the failure arm of `HandlerSendDone` changes its own slot and nothing else, so no property would state more than the action does.
- **The unbounded task set** (line 119). Spawning never blocks, so the slots bound the model and not the code. No property of the code concerns the bound.

## 6. Plan for later sittings

1. Larger instances of `Restart`: three slots and a longer stream.
2. A liveness property of `Restart` under fairness: every update handed out before a clean exit is eventually answered, or its handler cancelled by the runtime drop.

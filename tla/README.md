# Verification of fota_embed_sdk

TLA+ models of the firmware-over-the-air SDK in `sm_fota/` (the application's side: query, download,
sockets) and `smfota/` (the boot loader's side: the differential patch), TLC configurations that check
them on small instances, and TLAPS proofs of what holds for every instance.

## 1. The system

    server --> sm_main.c --> sm_download.c --> flash --> reset --> mi_iot_execute --> firmware_patch --> new firmware
              (query)       (HTTP, MD5)     status=CHECK         (sm_fota.c)       (sm_arch_interface.c)

| component | source | state it keeps | operations | interacts with |
|---|---|---|---|---|
| patch engine | `smfota/src/sm_arch_interface.c` | firmware, backup sea, status table and magic word on flash; `ant_plan_t` and the cursor of `decode_and_patch` in RAM | `firmware_patch`, `decode_and_patch`, `backup_old_sector`, `check_and_recycle_old_backup`, `patch_diff`, `patch_extra`, `clear_patch_status`, `arch_write_flash` | flash driver, LZMA decoder, upgrade status |
| upgrade status | `smfota/src/sm_fota.c` 600-729 | one word of flash: IDLE, CHECK, UPDATE, UPDATEED | `mi_iot_update_moudle`, `mi_iot_execute`, `mi_iot_set_fota_status` | the application writes CHECK, the boot loader the rest |
| flash driver (boot loader) | `smfota/src/sm_fota.c` 180-597 | none | read, write and erase in pages and blocks | vendor FTL |
| LZMA decoder | `smfota/src/sm_lzma_decoder.c` | dictionary and range coder | decode the next bytes of the patch | patch engine |
| download | `sm_fota/src/sm_download.c` | `sm_download_info` (state, `cur_len`, `bin_len`, `retry`, MD5), `sm_pHttpNode`, three timers, the download area | `sm_http_start`, the callbacks connect, write, read, close, the timeouts, `sm_http_retry` | sockets, timers, flash, report |
| sockets, TLS | `sm_fota/src/sm_socket.c` | list `SOC_NodeList` of open nodes, a TLS context per node | create, close, dispatch of events, handshake | download, query |
| query and report | `sm_fota/src/sm_main.c` | one socket `p_sm_soc`, one request buffer, one timer | `sm_sdk_autoCheck`, `sm_download_report`, `sm_read_parse` | sockets, download |
| network attach, task loop | `sm_fota/src/sm_thread.c` | `sm_wait_network_active_mag`, two timers | periodic check, confirmations of the modem, dispatch of every message | query, sockets |
| flash (application) | `sm_fota/src/sm_flash.c` | none | read, write, erase | download, query |
| platform, system | `sm_platform.c`, `sm_system.c` | none | timers, restart, device data | all |
| MD5, 3DES, debug | `sm_md5.c`, `3Des.c`, `sm_debug.c` | local | pure functions (3DES: dead code) | download |
| host tool | `sm_fota/src/bsdiff.c` (a second copy in `差分工具源码/Util/Lzma/`) | none | sorts the suffixes of the old firmware, makes the blocks of a patch, compresses it | the format of the patch engine, the LZMA SDK |
| LZMA SDK | `sm_fota/差分工具源码/` | window, hash tables and trees of the match finder; prices and plans of the compressor; dictionary of the decoder; rings of threads; what is still to be checked of an xz archive | compress, decompress, with one thread or several; make, read and list xz archives | host tool |

What is hard here:

* **Power loss.** The firmware is rewritten in place. A reset may fall between any two flash operations
  of the boot loader, which has nothing but flash to know where it was.
* **A sea that is smaller than the firmware.** Old sectors are copied before they are overwritten, and
  copies are given up while the patch goes on.
* **Callbacks.** The application is one task; sockets, timers and the modem call it in any order, and
  an event may belong to a socket that is no longer there.
* **Network failures and retries.** A download goes on with a Range request; what counts as received
  and what is on flash must agree.
* **Input that is cut anywhere.** The decoder of the boot loader gets its input in pieces and delivers
  what is asked for; the pieces, the symbols and the dictionary end at different places.
* **Threads** in the LZMA SDK: blocks are read, coded and written by whoever is free, and any of them
  may fail.
* **Several flash operations that belong together**: status, length and patch; backup and its record.

What makes each component correct is stated as properties in the modules and listed in section 3;
the hazards, each at its line, are in `PROJECT.json`.

## 2. The modules

| module | models |
|---|---|
| `PatchGeometry` | sectors, the chain of blocks of a patch, and the tests the boot loader makes on them: pure operators |
| `FirmwarePatch` | the boot loader: upgrade status, `firmware_patch` and all it calls, power loss |
| `UpgradePromise` | what the boot loader promises about one upgrade: the abstract specification `FirmwarePatch` implements |
| `PatchRecovery_proofs` | theorems about `FirmwarePatch`: types, geometry, and what is on flash after a reset; then the upgrade as a whole, and backups that are recycled |
| `FlashDriver` | `arch_write_flash` and the driver under it, page by page: what `FirmwarePatch` takes as one step |
| `FlashDriver_proofs` | theorems about `FlashDriver`: reads, and writes |
| `Download` | `sm_download.c` with its socket, its timers, the server and the reset into the boot loader |
| `Download_proofs` | theorems about `Download` |
| `SocketList` | the list of open sockets of `sm_socket.c`: pure operators |
| `Query` | `sm_main.c` and the dispatch of `sm_socket.c` for its two sockets; extends `SocketList` |
| `FotaApp` | `Query` with what starts it: `sm_thread.c`, the modem, the service of the network |
| `FotaApp_proofs` | theorems about `FotaApp` |
| `LzmaStream` | what an LZMA stream says: symbols, the bytes each needs, the text |
| `LzmaDecoder` | the decoder of the boot loader over `LzmaStream` |
| `LzmaDecoder_proofs` | theorems about `LzmaDecoder` |
| `SuffixSort` | `qsufsort` and `split` of the host tool |
| `Bsdiff` | the scan of the host tool; extends `SuffixSort`, and `PatchGeometry` for what the boot loader makes of its blocks |
| `Bsdiff_proofs` | theorems about `SuffixSort` and `Bsdiff` |
| `MatchFinder` | `LzFind.c` |
| `MatchFinder_proofs` | theorems about `MatchFinder` |
| `LzmaEnc` | the compressor of `LzmaEnc.c`, fast and best; extends `MatchFinder` |
| `Lzma2Enc` | the writer of LZMA2 in `Lzma2Enc.c`, and a reader of what is written; extends `LzmaEnc` |
| `MtCoder` | `MtCoder.c` |
| `MtCoder_proofs` | theorems about `MtCoder` |
| `XzFormat` | the fields of an xz archive, made and taken apart: pure operators |
| `XzFilter` | the filters before LZMA2, in pieces: pure operators; extends `XzFormat` |
| `XzEnc` | `XzEnc.c`; extends `MtCoder`, whose callbacks it gives, and `XzFilter` |
| `XzDec` | `XzUnpacker_Code` and `XzDecMt_Decode` of `XzDec.c`; extends `Lzma2Dec` and `XzFilter` |
| `XzIn` | the list of the streams of an archive (`XzIn.c`): pure operators; extends `XzFormat` |
| `XzArchive` | an archive is made, damaged or not, and read back; extends `XzEnc`, `XzDec` and `XzIn` |
| `LzmaDec`, `Lzma2Dec` | the decoders of the SDK, as operators on records |
| `Lzma2Callbacks` | the callbacks of `Lzma2DecMt.c` that parse, code and write a block |
| `MtDec` | the ring of threads of `MtDec.c`; extends `Lzma2Callbacks` |
| `Lzma2DecMt` | `Lzma2DecMt_Decode` and `Lzma2DecMt_Read`, threads first, then one thread; extends `MtDec` |
| `MC...` | instances of the module after `MC`: texts, patches, streams, crash points |

### FirmwarePatch

One action stands for the code between two flash operations, so that `Crash` can fall between any two
of them; `pc` names the step, and the actions are grouped as in the code:

| code | actions |
|---|---|
| `mi_iot_execute` | `Boot`; `SetStatus` = `FlagErase` then `FlagWrite` (the sector of the status word is erased, then written) |
| `firmware_patch` up to the chain | `Open` (a chain that is too long is refused) |
| head of `decode_and_patch` | `Start`, `MagicErase`, `MagicWrite`, or `Resume` |
| its loop | `Chunk`, `Advance` |
| `backup_old_sector` | `AlreadyBackedUp`, `Select`, `SeaErase`, `SeaWrite`, `TableErase`, `TableWrite` |
| `check_and_recycle_old_backup` | `Recycle`, `RecycleFails`, `TableErase`, `TableWrite` |
| `patch_diff`, `patch_extra` | `PatchChunk`, `PatchRefused`, `FirmwareErase`, `FirmwareWrite` |
| `clear_patch_status` | `Clear` |
| reset | `Crash` (RAM is lost, the write under way is torn at any page), `Restart` |

A byte of flash is a *cell* that says what it holds: the old byte of a position, the new byte of a
position, erased, or garbage. `patch_diff` yields the new byte only when it is fed the right old one
(`Patched`); otherwise garbage, which is how a lost backup shows. `arch_write_flash` at an address
inside a sector is the read, erase and write of the whole sector it is in the code; this is why the
magic word and the table disappear together for a moment. `last_bk_addr` is read uninitialised when no
sector is on record: `Resume` lets it be anything.

Named abstractions: erase and write of one sector do not fail; the erase of a sector is not torn; a
write of the table may be cut behind any record (`TornTable`; in the code, at a page of it); old position and chunk are taken in cells, so
that the coincidences of boundaries, not the sizes, are enumerated; the LZMA stream is decoded without
an error (`LzmaDecoder` is about that; a patch that is refused is represented by the chunks `patch_diff`
refuses and the chain that is too long). `get_topatch_chain` looks for the magic word `ANUI`
(`sm_arch_interface.c:409`), where the tool in this repository writes `MIOT` (`bsdiff.c:321`): the two
ends of the format are of different versions, and the model takes the word as one that fits.

### FlashDriver

One action is one call of the vendor's FTL, which may fail (`Fails`).

| code | actions |
|---|---|
| `rs_ua_flash_read` (`mi_bl_read_flash`) | `ReadCall`; section A: `ReadSmall`, `ReadRest`; section B: `ReadHead`, `ReadPage`, `ReadRest` |
| `arch_write_flash` | `WriteCall`: at the start of a block, or inside one (read, erase, write back) |
| `mi_bl_write_flash` | `WritePage`, the last page filled up with FF (`Filled`) |
| `mi_bl_earse_flash` | `EraseCall`, `Erase` |

A byte is at first its address, so that a byte read from the wrong place is seen; a byte written has a
number of its own, and a cell that is programmed without having been erased may become `Mixed`.
`TornInOrder` is what `FirmwarePatch` assumes of a power loss during a write (`Torn`): a beginning of
the sector and erased flash behind it. Writes stay inside a block, as those of every caller do; the
read inside `arch_write_flash` is taken as one step.

### Download

One action is one callback, except that each turn of the receive loop of `sm_http_read` is an action:
the server and the connection move on between two `recv`. A cell stands for a run of bytes; what the
area holds is the position in the file, erased, or a mixture of two (NOR flash that was not erased).

| code | actions |
|---|---|
| `sm_http_start` | `Start` (`CanStart`, `EraseArea`) |
| `sm_http_retry` | `Retry` |
| the three timeouts | `Timeout` |
| `sm_http_connect`, `sm_http_write` | `Connect`, `Writable` (`HttpWrite`, `SendFails`) |
| `sm_http_close`, `sm_http_connect_error` | `Close`, `ConnectError`, in every action that closes |
| `sm_http_read` | `Readable`, `RecvNothing`, `RecvFails`, `RecvSuccess` (200), `RecvRange` (206), `RecvBody`, `RecvTooBig`, `RecvRefusal`; `Judge` is the comparison of the MD5 |
| `sm_soc_message_dispatch` | which of them runs: `SocketClosed`, `StaleEvent` (an event of an earlier socket with the same number) |
| `sm_restart`, boot loader | `RestartTimer`, `Reset`, `Reboot` |
| server | `Answer` |

Undefined behaviour: after a wrong MD5 the loop condition at line 736, and after a failed last attempt
line 762, read through the freed `sm_download_info`. The model lets the device reset, or the download
end there. Timers are not given durations, but their order is kept where the code fixes it: a restart
that is due (10 s) comes before the retry (60 s) and the timeouts (15 s and more).

Named abstractions: a socket without TLS; the head of an answer arrives in one `recv`; the writes of
the length and of the status word do not fail, and neither does an erase; the reports that
`sm_download_report` sends go over another socket and are left out.

### Query and FotaApp

One task runs everything, so one action is one callback, up to a call that gives the network time:
`todo` holds the calls that are left, and each turn of the loop of `sm_protocol_write` is an action.

| code | actions |
|---|---|
| `sm_sdk_autoCheck` | `AutoCheck`, started by `ServiceFull` (`sm_event_handler`) or by `AutoCheckUpdata`, `Activated` (`sm_thread.c`) |
| `sm_download_report` | `Report` |
| `sm_socket_creat`, `sm_socket_close` | `Created`, `CreatFails`, `Close` (with `CloseCallback`), inside every action that opens or closes |
| `sm_protocol_write` | `SendSome`, `SendBlocks`, `SendFails` |
| `sm_protocol_read`, `sm_read_parse` | `QueryRead` |
| `sm_soc_message_dispatch` | `Dispatch`: `QueryEvent`, `HttpEvent`, or nothing for a number no node has |
| timeouts | `QueryTimeout`, `HttpTimeout`, `Retry`, `Restart`, `ActivePdpTimeout` |
| `sm_http_start`, as far as it uses the sockets | `Start`, `HttpRead`, `HttpClose` |
| `sm_auto_check_updata`, `sm_system_ppp_attach`, `sm_system_ppp_active` | `AutoCheckUpdata`, `Ask` |
| confirmations of the modem | `Attached`, `Activated` |
| network, server, modem | `Connects`, `Breaks`, `PeerGone`, `PiledUp`, `Answers`, `DataReady`, `ServerCloses`, `Modem`, `Detached` |

`sm_socket_delete_node` sets `head` of the node behind only when the first node goes; `Delete` does the
same, and `ListMatches` says that with the two nodes of this SDK the list stays whole. Socket numbers
are used again, and events carry nothing but the number. The messages themselves are left out: a
request is "query", "report" or garbled (`Arrived`: a send that takes only part of the buffer is
followed by one that starts at its beginning again), an answer tells of a patch or does not.

### LzmaDecoder

| code | actions |
|---|---|
| `read_decode_by_length` (`Lzma_decode2Buf`) | `Ask`, `Refill`, `ToBuf`, `Made`, `FromDic` |
| `LzmaDec_DecodeToDic` | `Flush`, `NoRoom`, `FromSrc`, `FromTemp`, `Marked`, `Error` |
| `LzmaDec_DecodeReal2`, `LzmaDec_WriteRem` | `RealSymbol`, `RealDone` |
| `LzmaDec_TryDummy` | `TryDummy` |

The range coder is abstracted to the number of bytes each symbol needs before its first bit is known
(`cost`) and to the byte it may take ahead (`late`); both are chosen by the instance, which makes every
cut of the input possible without a bit of arithmetic. A byte is its position in the stream, so that
one that is taken twice, or never, is seen. Three facts a reader may miss: `src_end` is the end of the
whole area and not of the patch; the call returns 0 also when `unpackSize` is reached before all that was
asked for is delivered; and `decode_and_patch` never uses a decoder again that has returned an error.

### SuffixSort and Bsdiff

| code | actions |
|---|---|
| `qsufsort`, `split` | `Sort`: one turn of a round |
| `main`, lines 282-300 | `ReadNew`, `Outer`, `Find` (`search`), `Score`, `InnerEnds` |
| `main`, lines 302-364 | `Extend`, `Divide`, `Emit` |

A group of suffixes is a set; the pivot, which the code takes from the middle of the group, is any of
its members. `Rebuilt` is the boot loader: it adds the differences to the old bytes that
`PatchGeometry!OldStart` says. The tool may begin with a block whose run of differences is empty, which
`patch_diff` refuses (see `patch_failure`).

### MatchFinder

`Get` and `Skip` are the two operations the encoder has; a call does all of `MatchFinder_GetMatches`
or `_Skip`, including the move of the window, the read of the stream and the normalisation of the
positions. The four kinds (`bt2`, `bt3`, `bt4`, `hc4`) are one definition with the number of hashed
bytes and tree or chain as parameters. Trees and chains are the arrays of the code, walked as it walks
them. Hashes collide as much as the code allows, and not as the CRC table happens to. `W`, `MaxPos` and
`NormStep` stand for 2^32, its limit and the mask of `MatchFinder_GetSubValue`.

### LzmaEnc and Lzma2Enc

| code | actions |
|---|---|
| `LzmaEnc_CodeOneBlock` up to its loop | `CodeOneBlock`; the symbol and the checks behind it: `Codes`, in every action that chooses one |
| `GetOptimum` | `Choose` (up to its loop), `Parse` (a turn of it), `Planned` (what `Backward` has left to be written) |
| `GetOptimumFast` | `Choose`, `Look` (behind its second look at the match finder) |
| `LzmaEnc_Encode2`, `LzmaEnc_MemEncode` | `Encode2` |
| `Lzma2EncInt_EncodeSubblock`, the loop of `Lzma2Enc_EncodeMt1` | `BeginSubblock`, `EndSubblock` |

One action is the code from one call of the match finder to the next. The range coder is left out: a
symbol is a record with the bytes and the state its coding depends on, and `Reading` is a decoder that
insists on them. Prices come from a table of the instance (`Weights`) which may make anything cheap or
dear, as the statistics of a text may; which of the two forms of a chunk is shorter is left open. Left
out: the tables of prices and when they are renewed, progress, the several threads of `Lzma2Enc_Encode2`
(they are those of `MtCoder`).

### MtCoder

| code | actions |
|---|---|
| `MtCoder_Code` | `Call`, `Return` |
| `ThreadFunc2` | `Read`, `Take`, `Spawn`, `Unlock`, `Code`, `Publish`, `Write`, `Advance`, `Release` |
| `ThreadFunc`, `MtCoderThread_CreateAndStart` | `Start`, `Leave`, `Count` |

The actions are the code between two things another thread can notice. After an error in one block a
later one may still be written; the call then returns the error. `MTCODER__USE_WRITE_THREAD` is not
defined and left out. The tool compiles the SDK with `_7ZIP_ST`, so that the threads are part of the
repository and not of the tool.

### XzFormat, XzFilter, XzEnc, XzDec, XzIn, XzArchive

| code | where |
|---|---|
| `XzEnc_Encode` with one thread | `EncodeAlone`, `EncodeBlock` |
| with several | `EncodeMt`, then the actions of `MtCoder`; `XzEnc_Destroy` is `Destroyed` |
| `Xz_CompressBlock`, `XzBlock_WriteHeader`, `XzEncIndex_WriteFooter` | `BlockOfText`, `BlockHeader`, `WriteFooter`: what is on file follows from the blocks that were written (`FileOf`) |
| `XzDecMt_Decode`, `XzDecMt_Decode_ST` | `Opened`, `Feed`, `Deliver` |
| `XzUnpacker_Code` | one action per state of it: `StreamHeader`, `BlockHeaderSize`, `BlockHeaderBytes`, `BlockHeaderDone`, `Block`, `BlockPadding`, `BlockCheck`, `IndexHead`, `IndexBody`, `IndexPadding`, `IndexDone`, `IndexCrc`, `Footer`, `Padding`; `NeedsInput` is its return for want of input |
| `MixCoder_Code`, `BraState_Code2` | `MixCode`, `BraCode2` |
| `Xzs_ReadBackward`, `Xz_ReadBackward`, `Xz_ReadIndex2` | `Listed`, `ReadBackward`, `ReadIndex2` |

An archive is a sequence of bytes, with smaller words (`Align` for 4), numbers (`VarBase` for 128) and
signatures; CRC32, CRC64 and SHA-256 are one sum modulo a prime, which the checks of the code compare as
they compare theirs. A chunk of LZMA2 is copied text with its size in the high half of a byte. A byte of
text is a digit. Of the filters there are the two kinds the code has: one that keeps bytes back until an
instruction is whole (`ARM`) and one that does not (`Delta`). Left out: decoding by several threads and
into a buffer of the caller (`XzUnpacker_CodeFull`), `XzProps_Normalize`, blocks made of several LZMA2
blocks, `XzBlock_ReadHeader`, the other branch filters of `Bra.c`, and the limit of 64 kB for the zeros
that `Xz_ReadBackward` skips.

### LzmaDec, Lzma2Dec, Lzma2Callbacks, MtDec, Lzma2DecMt

`LzmaDec` and `Lzma2Dec` are pure operators on records (`DecodeToDic`, `Decode2ToDic`, `Parse`), since
nothing can happen between their steps. The rest is:

| code | actions |
|---|---|
| `Lzma2DecMt_Decode` | `Call`, `Return` |
| `Lzma2Dec_Decode_ST` | `Prepare`, `TakeKept`, `Turn1` |
| `Lzma2DecMt_Init`, `Lzma2DecMt_Read` | `StartReading`, `ReadTurn` |
| `ThreadFunc2` of `MtDec.c` | `TakeTurn`, `ParseCross`, `ParseRead`, `Pass`, `Code`, `NothingToCode`, `Write` |
| `MtDec_PrepareRead`, `MtDec_Read` | `PrepareRead`, `ReadKept` |
| callbacks | `ParseBlock`, `CodeBlock`, `Made` |

Assumptions about the environment: a stream that has failed gives nothing any more, a write that fails
writes nothing, and each kind of failure happens at most once in a behaviour. `ResultTells` asks that one
thread tells everything: a stream that is cut short or broken, a write that is refused, a read and a
progress callback that fail. Of several threads it asks the last two, and whatever goes wrong once
they have left the rest to one. What it does not ask of them, because the code does not do it: a
stream that is cut short or broken may be reported as decoded (`mtc.codeRes` is not looked at; what was
written is then the beginning of the text, `WritesText`), and so may a write that is refused (`WriteTold`,
section 5).

## 3. The runs

| run | configuration | shows |
|---|---|---|
| `patch_power` | patches of up to 2 blocks on 5 cells, a sea with room for all, up to 2 power losses at any flash write but those named below | `Resumable`: flash always suffices to go on; `UpgradedIsNew`, `UpgradeCompletes`; `KeepsPromise`: refinement of `UpgradePromise` |
| `patch` | every patch of up to 2 blocks on 6 cells, refused ones included, a sea of 2 slots for 3 sectors; a power loss while the firmware is rewritten | `DecodedIsNew`: recycling never gives up a copy that is read later, and no garbage reaches the firmware; `SlotsDistinct`; `BackupsIntact`, `SafeToRewrite` (write-ahead); `TypeOK`; `BootEnds` |
| `patch_failure` | one patch that is refused | section 5 |
| `flash_driver` | pages of 3 bytes, blocks of 2 pages, 2 blocks; every read, write inside a block and erase, two in a row | `ReadExact`, `ReadsOnlyNeeded`, `WriteExact`, `TornInOrder` |
| `download` | in one world a server that does what it is asked and a network that fails; in the other any answer, wrong MD5, failing flash, late query | `PrefixIntact`, `DownloadSucceeds` of the first; `FlagMeansWhole`, `TimersMatch`, `DownloadEnds` of both |
| `fota_app` | two nodes, two numbers, both platforms, one failure anywhere, two checks that do not wait for the last | `ListMatches` (the list, the handles and the timers agree), `ConnectingHasRequest`, `ComesToRest` (under the assumptions it names) |
| `lzma_decoder` | streams of up to 4 symbols, whole, cut, too long, bad; input buffers of 1, 2 and 7 bytes; a dictionary of 3 bytes that wraps | `DeliversText`, `ReadsLikeRAM`, `CallsReturn` |
| `bsdiff` | all old firmwares up to 5 and all new ones up to 6 bytes of 2 values | `Ranked`, `Reproduces`, `ToolEnds` |
| `lz_find` | all texts of 6 bytes of 2 values, and periodic ones of 48; all of 10 for the prices, periodic ones of 8 for LZMA2 | `MatchesHold` (what is found is there, and the nearest of its length where the code promises it), `SkipLikesGet`, `EncodesText`, `PricesRight` |
| `xz_archive` | 2 threads, 3 blocks under way, inputs of 0 to 4 blocks, one failure, two calls; archives of 0 to 2 blocks, none or one filter, read in pieces, cut anywhere, any byte changed, twice, or followed by something | `WrittenInOrder`, `ReturnMeansDone`, `ReadsBack`, `CallsEnd` |
| `lzma2_dec_mt` | streams of 1 to 4 blocks, 1 to 3 threads, two kinds of failure | `WritesText`, `ResultTells`, `DecodeReturns` |
| `lzma2_write` | the same with one kind of failure | section 5 |

Bounds. Two cells to a sector are the least that tell the start of a sector from its inside; five or six
cells are three sectors, so that a chunk can read a sector before, at and behind the one it rewrites,
and a sea of two slots has to recycle. Two blocks are what it takes to read backwards (`adjust` is any
number that keeps the reads inside the old firmware). `Pool` has one sector more than the firmware,
because the code looks one sector too far. Two power losses are one during the recovery from another.
For the flash driver, three bytes to a page tell its first, its last and one between, and two pages to a
block put a page boundary inside a block and one at its end; the second operation meets flash the first
one has written. For the download, three cells in chunks of at most two give every split into head and
body; one retry (10 in the code) has a first and a last attempt, and two losses use both up. For the
application, two nodes are all it has, and two numbers are what it takes for one to be used again while
the other is open; `BufLen = 2` is a send that takes part of a request. One event waits at a time
(the ends of connections not counted); the safety properties are proved for any number. For the decoder, a symbol is
longer than the input buffer, the dictionary is longer than one match and shorter than another, and
`OutBuf` is less than what is asked for. For the tool, a group of three suffixes is one that `split`
treats by a pivot (`SmallSort = 3`), and six bytes are two matches with something between them; `Slack`
(32) is 1, so that a match may be worth a block. For the match finder, a history of 4 and a limit of 44
make the window move and the positions be normalised in a text of 48. For the compressor, matches of at
most 6 bytes and plans of at most 8 steps (`MaxLen`, `NumOpts`) are cut by the end of the plan, of the block
(`BlockLimit = 9`) and of the chunk (`UnpackMax = 17`); a chunk that is copied goes out in pieces of 2. For
the threads, one more block than threads lets one wait while two are coded; two calls meet what the first
has left. For xz, every buffer (`InBuf`, `OutStep`, `MixBuf`, `BraBuf`, `FilterBuf`, `DicBuf`) is 2 or 3 bytes,
less than a header and less than a block, so that each of them is full in the middle of things; the reader
takes what the stream gives, at least as many bytes at a time as `Fates` says of that fate.

Where the system may really stop (`CHECK_DEADLOCK FALSE`): the flash driver after its last call, the
decoder after an error or when all has been asked for, the tool and the compressor at the end of the
text, the two pools of threads when the calls are done, the reader of an archive when it has read it.

The passing patch runs exclude the windows in which the code does lose the upgrade, each by a constant or
a definition that names it. With `SectorSize = 2`, `Pool = 4`, `SeaSlots = 3`, 4 cells, `Gapless` and one
power loss, each of the points in the first item is enough for TLC to refute `UpgradedIsNew` or
`UpgradeCompletes`:

* `CrashPoints`. `stWrite`: while the sector of the table is rewritten it is erased, and the magic word with
  it; the patch is started afresh on a firmware that is partly new (`arch_write_flash`,
  `sm_arch_interface.c:79`). `record`: after `clear_patch_status` (line 1018) and before the status says UPDATEED
  (`sm_fota.c:671`) the new firmware is patched again; a patch that fails is set to IDLE before its
  table is cleared. `flagWrite`: while the status word is rewritten it is erased, and the request is lost.
* `Gapless`: the scan that restores `bk_map` (line 794) stops at the first sector without a record, although
  a sector that nothing reads never has one. With `Accepted` patches `SlotsDistinct` fails after a reset.
* `EndsInside`: an empty last part that ends at a sector boundary recycles a backup although no record
  follows, and a reset there finds the sources gone (the code's own TODO, line 730).
* `RiskFirst = FALSE`: no reset before the first record. With `TRUE`, `UpgradedIsNew` fails:
  `last_bk_addr` is compared without having been assigned (line 830).
* While a backup is recycled, from `recErase` to `stWrite`, what is on flash does not suffice to resume:
  the old record is cancelled before the new one exists. The comment at line 730 names this
  risk; `patch` therefore checks that flash suffices whenever the firmware is about to be
  rewritten (`SafeToRewrite`), and loses power only there (`RewriteSteps`). In `patch_power` the sea has
  room for all and nothing is recycled.

`GivenMax` is such a constant of `XzArchive`: the size of the output is given to the reader only for texts of
at most `OutStep` bytes. `outProcessed` is counted when bytes are decoded and again when they are written
(`XzDec.c:2425`, `2434`): for a longer text a whole archive may be refused with `SZ_ERROR_DATA`, when what
seems to be missing ends inside a block. `GivenMax = 5` with `BlockSize = 5` in `Xz.cfg` shows it.

`MtCoder` has one as well: with `LateCount = TRUE` a thread that has counted itself (`MtCoder.c:358`) may be
so late with the comparison of line 359 that the call has returned and the next one has set
`numStartedThreads` to 1 again (lines 526 to 532). If it was the first to be counted it then sets `finishedEvent`, and
that call returns at once while its thread works: `ReturnMeansDone` is violated without any failure.

Fairness. The boot loader is a sequential program: `WF(Step)` says that it keeps running; nothing is
assumed about resets beyond their number. The decoder, the tool, the reader of an archive and each thread are likewise weakly fair;
what the caller asks next is not. In `Download`, weak fairness on callbacks and timers says that
the task loop dispatches events and that timers go off; on `Answer` and `SocketClosed`, that a server
answers a request it received and closes the connection when it has sent everything; strong fairness
on `Receive`, that data that keeps being ready is some day received although `recv` may report nothing.
`Start` and every loss are not fair. In `FotaApp` the same holds of the task, the timers, the modem and the
network (`Fairness`); failures, and the service that comes and goes, are not fair. The timer of 12 h in
`sm_thread.c` makes `AutoCheckUpdata` fair. `sm_event_handler` has none (the timers of `sm_main.c:367` and
`505` are commented out): a query that was lost stays unanswered there until the service is lost and
found again (line 674), which nothing in the code brings about. `ComesToRest` therefore carries that as a
premise of its own, `ServiceReturns`, which says nothing of the other platform; TLC refutes it without.
Its other premise, `DownloadsEnd`, is what `DownloadEnds` shows of `Download`; without it reports of a
download that is tried again for ever keep the socket in use. That a send that
would block comes to an end is part of it: the network gives up a connection on which too much has
piled up (`PiledUp`); nothing in `sm_protocol_write` ends the loop.

## 4. What is proved

`PatchRecovery_proofs`, for every `SectorSize`, `Pool`, `SeaSlots`, set of patches and number of resets
that satisfy `GeometryAssumption` and `PatchAssumption`:

* `TypeCorrect`: `Spec => []TypeOK`. `TypeOK` alone is not inductive: the cursor stays inside the table
  (`Cur \in Sectors`) only because the patch fits the pool, the remaining length is that of the current
  part, and the flag is one that was set. `TypeInv` adds `CursorOK` and `FlagOK`, one lemma per group of
  actions (`TypeExecute`, `TypeBackUp`, `TypeRewrite`) shows that it is preserved.
* `SlotsStayDistinct`: when power is never lost, no two sectors share a slot of the sea and no slot in
  use counts as free, however small the sea. `SlotsDistinct` is not inductive while a backup is under
  way: its slot is taken in `bkmap` (`Select`) two flash operations before the record exists
  (`SeaWrite`). `SlotsInv` adds `FillingOK` for that time and `MagicOK`, which says that a patch that
  has a record is never started as a fresh one. With resets the property is false for patches that leave a sector unread (section 3).

The second part of it, for every geometry, every number of resets and a sea of any size, under
`Hypotheses`: every patch reads inside the pool; power may be lost only during patches that read some byte
of every sector they rewrite, at every flash operation but `recWrite`, `stWrite` and `record`, and with
`RiskFirst = FALSE`. The three points and the two other conditions are windows of section 3 in which the
property is false; nothing else is excluded.

* `DecodesTheNew` (`DecodedIsNew`), `BackupsStayIntact` (`BackupsIntact`), and `SlotsSurvive`
  (`SlotsDistinct`, now through resets). The inductive invariant `RecoveryInv` says, for each step, what
  flash promises: a sector on record is whole in the sea (`InSea`), a sector without a record that the
  patch reads is still the old one (`InPlace`), records are behind the sector being worked on and have no
  gap (`FrontAt`: what the scan of line 794 relies on), every new byte before that sector is in place
  (`DoneTo`), and the table in RAM is the one on flash except in the steps that write it (`TableRight`).
  `ProgressOK` ties the cursor of a patch that is still skipping to the sector at which it will go on.
  The argument for a byte that `patch_diff` reads: either its sector is on record, and `arch_read_old`
  finds it in the sea, or the patch has not reached it; a recycled record (`Recycle`) is one no later
  chunk reads, which is what the loop of `check_and_recycle_old_backup` looks for.

The last part of it, for the same constants:

* `AlwaysResumable` (`Resumable`), `EndIsNew` (`UpgradedIsNew`) and `StepsKeepPromise`, under
  `NothingFails`: `Hypotheses`, no reset between erase and write of the status word, patches that
  `decode_and_patch` does not refuse, and a slot of the sea for every sector. `PromiseInv` adds that
  nothing is recycled, that slots are counted only for sectors on record (so that one is always free), and
  that each way to the end goes through the whole firmware (`EndOK`). `StepsKeepPromise` is the safety part of
  the refinement: the initial state of `FirmwarePatch` is one of `UpgradePromise`, and every step, resets
  included, is one of its steps or leaves its variables alone. The rest of `KeepsPromise` is fairness.
* `RewritesAreSafe` (`SafeToRewrite`), under `RecyclesSafely`: `Hypotheses`, no reset while a backup is
  under way (`Unrecorded`; a record may just have been cancelled for it, section 3), and patches that do
  not end with an empty run at a sector boundary. The sea may have any size. `RewriteInv` says which positions
  no longer need the recycled sectors (`NotNeeded`), counted from where a reset would resume; the
  difference between that position and the cursor is the window.

`FlashDriver_proofs`, for every `PageSize`, `BlockPages`, `Blocks` and `MaxCalls`
that satisfy `FlashAssumption`:

* `ReadsAreExact`: `Spec => []ReadExact`. `ReadExact` only speaks of the end of a read; `ReadInv` says
  where one stands on the way: `BeforeFirst` (the cursor is the page of `addr`, `align` bytes before it),
  `AfterFirst` (what was delivered is the flash from `addr` up to the cursor, and `count` pages and
  `remain` bytes are what is missing). The arithmetic is in `PageStart` (a page address and its block and
  page are the same thing) and `NextPageAddr` (moving on to the next page adds `PageSize`, also across
  blocks). `Done` and `Onward` are the two ways a page can be followed; each section of the code uses one
  of them.
* `ReadsStayInside`: `Spec => []ReadsOnlyNeeded`, from the same invariant.
* `WritesAreExact` (`WriteExact`) and `WritesTearInOrder` (`TornInOrder`). `WriteInv` says what every byte
  of the device is after each page: outside the block unchanged, inside it the buffer up to `sent` over what
  was there when the pages began to go out (`Written`, `Ground`). It needs that a write never leaves its block, so that
  the step of `mi_bl_write_flash` to the next block is never taken.

`Download_proofs`, for every file that fits the area, every chunk and number of retries, all answers and
any number of faults:

* `FlagNeedsWhole` (`FlagMeansWhole`), `PrefixStaysIntact` (`PrefixIntact`) and `TimersStayMatched`
  (`TimersMatch`: the retry timer runs exactly while a download has no connection; the connect timer only
  while it has one, and until an answer begins always). None of the three is inductive. What is added is mostly about the 10 s in which the
  restart is due and the connection still open (`FlagOK`), about which answer can still come over a connection
  whose request went out in pieces or not at all (`ConnectionOK`), and that flash behind `cur_len` is erased
  (`Behind`), so that what is written there is what was received.

`FotaApp_proofs`, for any set of socket numbers, any `BufLen`, `MaxRequests`, `MaxEvents`, `MaxFaults` and
either platform:

* `ListAlwaysMatches` (`ListMatches`) and `RequestAlwaysWaits` (`ConnectingHasRequest`). `ListMatches` is about
  walks along the list; what is kept is `Linked`, the links of the nodes that are in the list, since
  `sm_socket_delete_node` leaves stale ones in the node it takes out. `InsertLinks` and `DeleteLinks` say
  that both operations keep it, `LinkedHolds` and `GetNodeFinds` what walks then find. `AppInv` adds that the two
  nodes never have one number, and what `CallsOK` and `WaitOK` say of connections being made.

`MtCoder_proofs`, for every `NumThreads`, `NumBlocksMax` and `BlockSize` that satisfy the assumption of
`MtCoder`, every input, any number of failures and any sequence of calls, under `~LateCount`:

* `InOrder` (`WrittenInOrder`) and `ReturnsDone` (`ReturnMeansDone`). The code numbers no block: a thread
  knows its place in the ring and the place after it. `CoderInv` says that numbers exist: `T` blocks have been
  given a place and those before `W` have left the ring, `tk` is the block of each thread, `U` the blocks that
  have a buffer and `bf` says which. Its parts are about whose turn it is to read (`TurnOK`), that at
  most `NumBlocksMax` blocks are under way (the semaphore counts the places left, `RingOK`), that no two blocks
  have one buffer (`BuffersOK`), what a failure leaves (`ErrorsOK`), and that the threads started are those
  counted and those still at work (`TeamOK`), which is why the last to be counted is alone. `LateCount`
  breaks `TeamOK` (section 3).
* The specification of the theorems is `CoderSpec`, the actions of `MtCoder` with a caller that may call again
  whenever a call has returned. `XzArchive` uses these actions, and two things beside them which stay with TLC:
  its encoder on one thread, and `Destroyed`.

`LzmaDecoder_proofs`, for every stream the format can express, good or bad, whole or cut off, every `DicSize`,
`DicBufSize`, `InitSize`, `RequiredMax`, every size of `inbuf` and `outbuf` and every way the patch is asked for, under
`DecoderAssumption`. That asks of a stream only what every stream has: `WellFormed` gives the length of a match
and of a rep, the bounds of a distance and that nothing follows the end mark; `FitsRequired` that no symbol
takes more than `LZMA_REQUIRED_INPUT_MAX` bytes. A stream that is valid holds at least what its header announces;
one that is not may do anything else, among it point before the beginning of the text.

* `DeliversRight` (`DeliversText`). `got` says nothing of what the next call delivers; `DecoderInv` does. `HistoryOK`:
  the dictionary is a window on the text that the symbols before `p.next` stand for, wherever it has wrapped
  around (`Holds`), the four distances are those of the encoder, and `remainLen` is what that text has beyond the
  dictionary, periodic in `rep0` (`Repeats`), so that `LzmaDec_WriteRem` can go on with a match that another call
  began. `CheckOK` ties `checkDicSize` to `processedPos`, without which a distance that reaches too far would not
  be refused. `BytesOK`: range coder, `tempBuf` and the rest of `inbuf` hold the bytes of the stream, each once
  and in order, and the fast loop never has less before it than a symbol can take; that the byte a symbol needs is
  read after it (`owed`) is why the two checks for an internal error never fail. `CountOK` and `DeliveredOK` carry this
  through `LzmaDec_sm_DecodeToBuf`, which copies piece by piece, to `got`.
* `ReadsRight` (`ReadsLikeRAM`), from `ReadInv`. For a stream that is valid and there in full it adds that nothing is
  refused, that end of input and a full `tempBuf` never meet a symbol that is not complete, and that every
  turn of the loop of `read_decode_by_length` uses input or makes output (`Moved`), which is what its check for
  a decoder that is stuck (`Stuck`) asks. That calls return at all is liveness and stays with TLC.

`Bsdiff_proofs`, for old and new firmwares of any length over any alphabet:

* `SortsRight` (`Ranked`), whatever member of a group is taken as pivot. `SortInv` says what a round of
  `qsufsort` knows: `V` names the last place of a group, so that as many suffixes lie up to a group as its
  value says (`PlacesOK`); groups the scan has passed agree in `2h` bytes, the others in `h` (`RoundOK`); what is left of
  the group that `split` takes apart lies in the calls under way, one behind the other and in the order of
  the suffixes (`FramesOK`). The hard point is that `split` compares by values of `V` that it changes itself: a
  value may already be finer than the prefix of `h` bytes, never against the order.
* `PatchReproduces` (`Reproduces`). `ToolInv` adds `ScanOK`, where the scan stands and how far a block may be
  extended in both directions, and `BlocksOK`, that each block begins in both texts where the one before it ended.
  Nothing is assumed of the search: what it finds may be wrong, and the patch is still right, only longer.

`MatchFinder_proofs`, for every text, every history, window, length of a match and limit of positions, every stream, in
memory or read piece by piece, that may end or fail anywhere, under `SettingsAssumption`. That asks that the window and
what is kept behind the position fit below `MaxPos`, that a normalisation gains room (`HistorySize + NormStep < MaxPos`),
and that text in memory is there in full:

* `WindowRight` (`WindowHolds`). `WindowInv` says where position, window and text stand to each other (`WindowOK`), that
  enough has been read ahead unless there is no more (`AheadOK`), that `end` and a failure come only when all is read
  (`EndOK`), and that the limits are set so that the position is checked no later than it must be (`LimitsOK`). The
  positions are numbers modulo `W` and `streamPos` may wrap around before `pos` is made smaller.
* `SkipsRight` (`SkipLikesGet`). The walk that looks for matches and the one that only links go hand in hand (`Alike`)
  although one stops at a match that is whole only when it is longer than what it has: it never has one that is whole.
* `FindsRight` (`MatchesHold`). `KnowsInv` adds what the tables say (`Tables`: the last place of each hash, if it is not
  too old) and what lies behind them, a chain (`ChainIs`) or trees (`TreeIs`). For a tree there are, for each place, the
  places that may lie under it, all older and of its hash, on one side those below it in the order of the text and on the
  other those above; every link stays inside them. When `cutValue` cuts no walk short, every place that no newer one
  makes useless (`Kept`) can be reached from its root, and by one link only. A walk takes the tree apart and
  leaves two holes, for what is below the position and what is above; what it knows turn by turn is in `Walking`. A
  normalisation takes the same off the position and off every entry, so that an entry names the same place or one that
  is too old (`LowIs`). What the table of two or three bytes gives is the nearest match of every length up to its own
  (`Newest`), so that the walk may begin behind it.

Each invariant was checked by TLC on the instance of the run of its property (the trees of `TreeIs` with the places that
can be reached under each as those that may lie there), and the
conditions of the theorems hold there: `Patch.cfg` satisfies `RecyclesSafely` and `PatchPower.cfg`
`NothingFails`, so that no theorem is about constants that do not exist.

Only model-checked:

* Everything under fairness, and the fairness in `KeepsPromise`.
* `EncodesText`, `PricesRight` and `ReadsBack`: their modules (`Lzma2Enc`, `XzFormat`, `XzFilter`, `XzEnc`, `XzDec`, `XzIn`,
  `XzArchive`) hold RECURSIVE operators, which switch the SMT prover off, and what a recursive definition
  computes needs induction over data.
* `WritesText` and `ResultTells` (`Lzma2DecMt`): both speak of what an LZMA2 stream says, which only `MCLzma2DecMt` gives,
  one stream at a time; for every stream it would take a definition by recursion over its bytes.
* `FailureNotRecorded` and `WriteTold` are false (section 5).

## 5. Findings

`patch_failure`: `decode_and_patch` refuses a patch, and the 0 of `clear_patch_status` overwrites its error
(`sm_arch_interface.c:1018`): the status says that the upgrade is done. The tool can make such a patch: its
first block may have an empty run of differences.

`lzma2_write`: when the write of a block is refused while several threads decode, they end with an error that the result of
`mtProgress` overwrites (`Lzma2DecMt.c:919`): the call returns `SZ_OK`, where `Lzma2DecMt.h:35` names
`SZ_ERROR_WRITE`. `WriteTold` says what the header says.

Other disagreements, each of which a change of the constants of a passing run shows:

* The windows of section 3: a reset while the table or the status word is rewritten, between
  `clear_patch_status` and the status, or at a gap of the table.
* `Download`, `LateQuery`: a query that is answered in the 10 s before the restart starts a download, and with
  it the erase of the area, when the connection of the verified attempt was the last one and the server
  has closed it (`sm_download.c:839`): the verified patch is gone. The status word is erased with it, so
  that `FlagMeansWhole` holds.
* `XzArchive`, `GivenMax`: a whole archive read with the size of its output given may
  be refused (section 3).
* `MtCoder`, `LateCount`: a thread late with the comparison of `MtCoder.c:359` ends the next call at once (section 3).
* A patch with a wrong MD5 stays on flash although the comment at `sm_download.c:721` has it erased; an
  answer such as 404 leaves the download without a timer until the server closes the connection (line 682).

## 6. Not modelled, and the plan

Out of scope: MD5 (taken as free of collisions), 3DES (dead code), debug output, the wrappers of vendor
functions in `sm_platform.c` and `sm_system.c`, TLS (mbedTLS is not in the repository and nothing
defines `MBEDTLS_SUPPORT`), what the messages of query and report say (JSON, cell information), the
prebuilt libraries, and of the LZMA SDK the 7z container, PPMd, BCJ2, AES and the match finder with threads of
its own (`LzFindMt.c`), which nothing in the repository calls. What is left out inside a modelled part is
named in section 2.

Out of the prover's reach: everything under fairness (`BootEnds`, `UpgradeCompletes`, `DownloadEnds`,
`DownloadSucceeds`, `ComesToRest`, `CallsReturn`, `ToolEnds`, `CallsEnd`, `DecodeReturns`),
modules with RECURSIVE operators, and the induction theorems of the library, which take an operator. Where
a proof about `FirmwarePatch` counts along the chain of a patch, it argues from a least counterexample
(`CountUp`); a recursive function of fixed depth (`Walk` in `SocketList`) is evaluated step by step
(`WalkSteps`).

What is left, in this order:

1. Proofs: `StepsKeepPromise` for a sea with fewer slots than the firmware has sectors.
2. `FotaSystem`: download, status word and boot loader in one behaviour, a second patch after a failed
   one included (the magic word and the table outlive it).
3. The callbacks of `XzDec.c` over `MtDec`.

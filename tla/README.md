# Verification of the SAME_CDI core

TLA+ models, TLC runs and TLAPS proofs for `libretro/same_cdi`, the Philips CD-i
player (Mono-I board, Digital Video Cartridge) as a libretro core. Paths below
are relative to the repository root; `machine/x.cpp` stands for
`src/mame/machine/x.cpp`.

The core is MAME code: one thread, devices that call each other synchronously,
and timers that the scheduler fires between instructions of the emulated CPU.
Its hard behaviour is therefore not threads but *interleaving*: the guest
program (drivers of the 68070's operating system), several kinds of periodic timer
and the user (disc tray, pointer, reset, save states) act on the same registers
in any order. The models take every handler as one atomic step and let TLC or
the proof order the steps.

## 1. Inventory

| component | state | operations | talks to |
|---|---|---|---|
| board (`drivers/cdi.cpp`) | latches of two interrupt requests, flip-flop owner | `cdic_intreq_w`, `dvc_intreq_w`, `iack4_r`, post-load | CDIC and DVC call in; calls `in4_w` of the 68070 |
| CDIC (`machine/cdicdic.cpp`) | registers, the read in progress, two sector banks, two audio banks, audio map | `regs_r/w`, `ram_w`, `sector_tick`, `audio_tick`, `media_changed`, reset | interrupt callback to the board; pulls the disc handle; DMA channel 1 of the 68070 |
| SLAVE (`machine/cdislavehle.cpp`) | four answer channels, one timer, one command buffer, pointer and its baseline | `slave_r/w`, `trigger_readback_int`, `mouse_update`, `media_changed`, reset, post-load | IN2 of the 68070, attenuation to the CDIC, machine reset; input ports |
| DVC (`machine/cdidvc.cpp`) | status/enable of two units, pending DMA, start/pause schedule, picture buffers, audio ring | register accesses, `dclk_tick`, `try_dma`, `sound_stream_update`, pre-save/post-load, vblank | board, DMA channel 2, demultiplexers and decoders |
| MPEG demultiplexer (`machine/mpeg1demux.cpp`) | parser state, lengths, time stamps | `feed`, `reset` | DVC |
| MPEG video decoder (`machine/mpeg1video.cpp`) | FIFO, sequence parameters, three frames | `write`, `decode`, `seek`, state | DVC |
| MPEG audio decoder (`machine/mpeg1audio.cpp`) | buffer with two positions | `write`, `decode`, `reset`, state | DVC |
| MCD212 (`video/mcd212.cpp`, over the screen of `src/emu/screen.cpp`) | control registers, ICA/DCA pointers, fetch pointer, parity, DA, interrupt flags | register accesses, ICA, DCA and scanline timers, drawing, reset, post-load | INT1/INT2 of the 68070, plane RAM, the beam of the screen |
| 68070 (`src/devices/machine/scc68070.cpp`) | interrupt levels and latches, UART, timers, I2C, DMA, MMU | register accesses, timers, `in*_w`, `int*_w`, `iack_r` | CPU core |
| CD image (`src/devices/imagedev/chd_cd.cpp`) | the open disc | `call_load`, `call_unload`, `notify_media_change` | calls the CDIC, then the SLAVE |
| disc list and tray (`disk_control.h`) | list, index, tray, remembered image, disc identity of a state | libretro disk control interface, `prepare`, `restored` | CD image; `libretro.cpp` |
| libretro entry points (`libretro.cpp`) | machine started, options, state envelope | load, unload, run, reset, (un)serialize | all of the above |
| scheduler and input lines (`src/emu/schedule.cpp`, `diexec.cpp`, `save.cpp`) | timer list, running slice, event queue | `timeslice`, `adjust`, `set_state_synced`, post-load | every device |
| input ports (`src/emu/ioport.cpp`) | accumulated positions, last values told | `frame_update` | SLAVE |
| the rest of MAME, CPU cores, OSD, libraries | | | |

Hard behaviours, and what makes each component correct:

* **Board.** The cartridge announces edges only and the latches are not saved, so
  one wrong update is never repaired. Correct: the line follows the devices, the
  vector is that of a device with a cause, nobody is starved.
* **CDIC.** Two free-running timers, the driver and the user meet in one set of
  registers. Correct: the request is never stale, sector and audio banks
  alternate, a read lives neither past its enable bit nor past its medium, a
  buffer is played to the end and reported, a read is answered.
* **SLAVE.** Four channels share one line, one timer and one command buffer; the
  disc changes between two bytes of a packet. Correct: an unread packet is
  signalled, a removal is never lost, the firmware ends up knowing the truth.
* **Pointer.** It is a difference of two accumulators that a state carries in two
  parts, one of them optional. Correct: the pointer moves by what the host's mouse
  moved, and no edge of a button is lost.
* **Disc and save states.** Index arithmetic at the ends of a list under edits, mounts
  that fail, states of another disc or of an older build. Correct: tray and drive
  agree, edits keep the selection, the guest finds out about every change of disc,
  and is never told of a removal without one (run-ahead restores a state in every frame).
* **68070.** Sources share levels the guest chooses, and one of them is an edge.
  Correct: the CPU is given the highest request, an acknowledge ends one request,
  no edge is swallowed.
* **Scheduler.** Callbacks and register accesses move timers while the list is being
  walked and a slice is running; states restore times, not the order of the list.
  Correct: the head of the list is the earliest timer, callbacks come on time, every
  event of a line is applied.
* **MCD212.** Three timers, each set by its own callback, cross one raster whose geometry
  the guest may change between two fields; drawing is skipped in some fields and the
  fetch pointer is not in a state. Correct: every line is drawn from where the
  control programs of the field put it, and the status the guest reads follows the beam,
  rendered or not.
* **DVC, video.** Commands take effect on a later tick of the decoder clock, pictures are
  decoded ahead in an order that is not the display order, two buffers are swapped
  by another timer, and a state saved anywhere carries only one of them. Correct:
  pictures come in order and once, damage is never displayed nor predicted from, a
  halt stays in force, a torn down clip never comes back, the driver hears of the
  end and of running dry, and hears of it once.
* **DVC, audio.** Transfers cut the stream anywhere, one DMA slot serves two units, and
  the decoder is without a frame most of the time. Correct: the payload is whole, no
  frame is lost or taken twice, no sample changes its channel, an underflow is
  reported when there is one and only then, sound starts within a bounded time.

The hazards are listed one by one, at their lines, in `PROJECT.json`.

## 2. Modules

The modules that compose others: `Media` extends `DiskControl` and adds what the
CDIC, the SLAVE, the guest and a save state know of the disc; `DvcAudio` extends
`Mpeg1Demux`; `DvcVideo` extends `Mpeg1Video`; `Irq4` takes `Irq4Abs` as its abstract
specification, `Media` takes `DiskControl!Spec` as its own.

### Irq4Abs, Irq4 (MCIrq4, Interrupts_proofs)

`Irq4Abs` promises exclusive ownership of one line: a set of requesters, and an owner
that nothing displaces while it requests, unless a saved state is restored. A restore
brings back the requests of the state (`saved`) and flips `era`, which nothing else
does: no other step can pass for one, and a flip-flop that takes the line from an owner
does not implement the module. `Irq4` is the code. `update_irq4(o, cdic, dvc)` is `cdi_state::update_irq4()` for given latches
and starting owner, `NewOwner` its two switches. `cdic_intreq_w` and
`dvc_intreq_w` are the callbacks, `dvc_update_interrupts` the edge test inside the
cartridge.

| variable | code |
|---|---|
| `cdic_req` | value of `cdicdic_device::intreq()` |
| `dvc_causes` | units with `isr & ier # 0` |
| `dvc_intreq` | `cdidvc_device::m_intreq`, a save item |
| `m_cdic_intreq`, `m_dvc_intreq`, `m_irq4_owner` | the same in `cdi_state`, not saved |
| `in4_line` | the argument of the last `in4_w` |
| `saved` | what a state carries of the above |
| `era` | history: flips with each `Load`; maps to the `era` of `Irq4Abs`, as `Requests` and `SavedRequests` to its other variables |

`CdicUpdate` stands for every CDIC handler that ends in
`update_interrupt_state()` (module `Cdic` shows which do). `DvcFeed` is the one
place where status bits rise without an update (bytes fed by DMA, 673 and 690);
`DvcTick` is the decoder clock, `DvcRegister` a read-to-clear of a status register
or a write of an enable register. `Load` restores the devices and then runs
`device_post_load`.

Abstraction: the eight bits of each status register are one fact per unit; which
bits a unit may raise is unconstrained, so the model has more behaviours than the
code.

### Cdic (MCCdic, Cdic_proofs)

One action per timer, register operation and callback. `process_disc_sector` is
the chain `process_disc_sector` / `process_sector_data` / end of `sector_tick` for
one sector, `NextBuffer` and `StopMap` the two ends of `process_audio_map`.

What is abstracted, and how:

* A sector is a record of the outcomes that the code's tests can have (`file`:
  the file number matches; `chan`, `achan`: the two channel masks select it;
  `eof`, `mark`, `payload`, `form2`, `coding`). The driver's file and channel
  registers are therefore part of the choice of sector, not variables.
* The registers keep the bits with control meaning: bit 15 of XBUF and ABUF,
  bits 0, 2 and 14 of DBUF, bit 13 of AUDCTL. Bit 2 of DBUF is written 0 by the
  driver. Register writes are of whole words.
* Audio bank RAM keeps its coding byte. `FillAudioBank` is a write through
  `ram_w()` or the DMA of register 0x3ff8.
* `curr_lba` wraps at `DiscSize`; `m_time` is the sector it names, so the BCD
  arithmetic of `lba_from_time()` is not in this module.
* Not modelled: samples and attenuation, descrambling and the byte order flag,
  TOC and subcode contents, the status bit that toggles when AUDCTL is read,
  saved states (`Media` has the check of a restored read).

Three history variables carry what the state itself forgets: `read_medium` (the
medium a read was started on), `bank_seq` and `map_seq` (the last bank used and
whether one was ever used twice in a row; a bank the driver writes starts a new
sequence).

### Slave (MCSlave, Slave_proofs)

A channel holds a packet: command, read position, remaining bytes, and for disc
status what it says of the disc. `timer` is `m_interrupt_timer` in three values:
`never`, `later` (a positive delay) and `now` (delay zero). A zero delay expires
before the next bus access of the guest, which is `BusFree` in the driver's
actions; the frontend's actions are not so ordered, because frames may be paused.
`in_first`, `in_index`, `in_count` are the shared command buffer: its first byte,
its index and its expected length, for all four channels as in the code.

`slave_r`, `slave_w_0` to `slave_w_3` are the two register handlers by offset;
`Eject`, `Insert`, `Renew` are `media_changed` as the image device calls it (once,
or low then high from `notify_media_change`), while the machine runs.
`device_reset` resets the device and, in `guest`, the firmware.

Abstracted: bytes without a meaning of their own are `other`; pointer coordinates
(module `InputState`), LCD text, `m_xbus_interrupt_enable` (stored, never tested;
its command 0xfa is left out) and audio volume. The driver is assumed to stay within
`BufSize` bytes of `m_in_buf` (17 in the code). Mute, unmute and "reset player" end a
command the same way and are one class ("82", "8a"); the machine reset that 0x8a
schedules may happen at any time.

History variables: `view`, what the last complete status packet told the
firmware; `unseen`, a removal not yet told; `silenced`, an f6 answer switched the
timer off.

### InputState (Slave_proofs)

The way of a mouse from the host to the guest, in two axes, with one button.

| variable | code |
|---|---|
| `port` | `m_accum` of MOUSEX and MOUSEY, as `apply_settings` wraps it, and MOUSEBTN |
| `oldval` | `m_oldval` of the button; that of an axis is always its port, which travels with it |
| `mouse` | the SLAVE: `base` is `m_input_mouse_x/y`, `device` is `m_device_mouse_x/y`, `told` the button it last read |
| `saved` | a state: `mouse` in the layout of the core, the ports in the trailer of `libretro.cpp` |
| `legacy`, `fresh` | history: the ports are of another past than the SLAVE; it has seen no port since its reset |

`frame_update` is a frame of `ioport_manager`. It goes through the ports in the order of
their names (`m_portlist` is a map: MOUSEBTN, MOUSEX, MOUSEY), and each that has changed
calls `mouse_update`, which reads all three: the first two callbacks see the ports behind
them as they were a frame ago. `pointer_update` is `mouse_update` as a function of the
SLAVE, so that a frame can apply it up to three times. `set_mouse_position` is the guest's
command. `retro_unserialize` has three ways out: a whole state, one of an older build
without the trailer (`legacy`: then the SLAVE takes the current ports for its
baseline), and one that the core layout refuses after the trailer was applied, which
is undone. Save and load happen between two frames.

`0xffff` both marks a SLAVE without a baseline and is a position a port can have. A
callback that finds it in the baseline of *either* axis drops the displacements of both
(`cdislavehle.cpp` 100), also in the middle of a frame: a move along x that ends at 0xffff
loses the move along y of the same frame. `PointerFollows` excludes exactly that
(`MeetsUnset`), the frames up to the first callback after a reset (`fresh`), and a pointer
that the guest put beyond the screen, which the first callback brings back to the edge
before the second axis moves it (`OnScreen`). See *Disagreements met*.

### DiskControl, Media (MCMedia, Media_proofs)

`DiskControl` has the statics of `disk_control.h` plus `mounted`, the image in
the machine's drive. `set_eject_state` is split into `Open` and `Close`;
`replace_image` and `remove_image` are the two halves of `replace_image_index`;
`retro_load_game` and `retro_unload_game` are the paths of `libretro.cpp` that touch
this state. Calls that return an error without a change are steps that do not
happen. A mount may fail at any time (the third alternative of `Close`), as may a
game load. Paths are model values, `prepare` receives the parsed list, labels and
path copies are left out. `retro_unload_game` includes the end of the machine,
which `retro_deinit` brings about before another game can be started.

`Media` extends it by everyone who holds something of the disc. The actions of
`DiskControl` that change `mounted` are joined with the callbacks they bring about
(`media_changed`: first the CDIC, then the SLAVE).

| variable | code |
|---|---|
| `reading`, `banks` | the disc of the CDIC's read in progress, and of the sectors in its data banks |
| `packet` | the disc status packet in the SLAVE's channel 3 |
| `known`, `booting` | the guest: the disc whose contents it relies on; it has not asked yet since the reset |
| `saved` | a state: the four above and the identity of the disc |
| `blind` | history: a state of an older build hid that the disc differs |
| `moved` | history: since the guest last learnt what is in the drive a disc has left it, or a state was restored over a disc that is not, or not certainly, the state's own (`Doubtful`) |

`Restore` is `retro_unserialize` with `restored()` behind it. A state of this build
identifies its disc (`identified`); of an older one the code has the two data banks as
evidence, which another disc may happen to share (`unlike` is FALSE then). A mismatch
is announced by `notify_media_change`, and so cancels the read that came back with the
state.

### Scc68070 (Interrupts_proofs)

Every source of interrupt that occurs on this board: the external lines IN2 and IN4,
the latches INT1 and INT2, timer 0, the transmitter, the DMA channels. `Requested`
is the set of levels asked for and `update_ipl` makes `ipl` its maximum; where the
code changes a source and does not call `update_ipl()`, neither does the action.
`iack` is the CPU's acknowledge cycle with `iack_r`. INT1 comes from the interrupt
flags of the MCD212 (`it`), set by the INTERRUPT instruction of either plane and cleared by
the read of status register 2.

Left out because nothing in this core drives them: the UART's receiver, I2C, IN5, NMI,
and `int2_w`, which assigns `m_int1_line` (it has no caller). Timers 1 and 2 and the
MMU only store. The history `stale` says that a level register was written without
the clear bits, after which the code leaves `m_ipl` as it was until the next change;
`seen` that the guest has dealt with INT1 since it last read the flags.

### Mcd212 (MCMcd212, Mcd212_proofs)

The raster, for one of the two paths: the beam, the timers that meet it, and what they do
with the pointers of the path.

| variable | code |
|---|---|
| `dcr`, `st`, `vsr`, `dcp`, `dca` | bits DE, FD, ICA, DCA of `m_dcr`, bit ST of `m_csrw[0]`, `m_vsr`, `m_dcp`, `m_dca` |
| `csrr` | bits DA and PA of `m_csrr[0]` |
| `vsr_pos` | `m_vsr_pos`, which a state does not hold |
| `ntsc` | the geometry last given to `screen().configure()`, with `m_total_height` and `m_ica_height` |
| `beam` | `screen().vpos()` and one of three places in the line: its start, its horizontal blanking (where the DCA timer is set to), its end |
| `timers`, `due` | where the beam will be when `m_ica_timer`, `m_dca_timer` and the screen's scanline timer expire; those that have and did not run yet |
| `scanline` | the parameter of the scanline timer |
| `frontend`, `skip`, `mame_reset` | between two calls of `retro_run`; video is not rendered; a reset was asked for |
| `field` | history: the picture, the list and the parity with which the field began, and what happened to it since |

`Advance` moves the beam and says which timers expire; at one moment the vertical blanking
comes first, then the scanline timer, the ICA and DCA timers, a soft reset last. `ica_tick`
applies a change of FD first (`configure`), then runs the ICA and reloads the DCA pointer.
An address counts lines of a picture or blocks of 64 bytes; an ICA may leave any of
`Lists` and `Pictures`, the DCA is the constant `Dca`, a block per line with the two
instructions that move pointers.

`retro_unserialize` is a state saved and continued at once: between two fields a
state holds everything here but `vsr_pos`, so continuing from an older one is what would
have followed had it been loaded then. The interrupt instructions are in `Scc68070`. The
plane is on in every line; pixels, mixing, matte, cursor, the second path (which shares
nothing but the geometry with the first), interlaced doubling and the wait states of
plane memory are left out.

### Scheduler (Scheduler_proofs)

The timer list of `device_scheduler` with its order of insertion, `adjust()`, the
slices of one CPU, the callbacks, one input line with its event queue and the
anonymous timer that empties it, save and load.

| variable | code |
|---|---|
| `m_timer_list`, `m_enabled`, `m_expire`, `m_period` | the list, and the fields of each `emu_timer` |
| `m_basetime`, `m_localtime` | the scheduler's and the CPU's time |
| `phase`, `target`, `now`, `stop` | where `timeslice()` is; the slice that runs |
| `m_callback_timer*` | the timer whose callback runs, and whether it was moved by it |
| `m_queue`, `m_curstate` | the event queue of a `device_input` |
| `m_ipl`, `requests` | what the line's owner last gave it, and what its registers ask |

A slice is `SliceBegins`, instructions, and the callbacks that are due; between the
instructions a register access (`Access`) may arm a timer or move the line, which ends the
slice early (`abort_timeslice`). Quanta are one per machine; several CPUs, suspension,
triggers and `emu_timer::enable()` (no caller in this core) are left out. Ties in the
list may be in another order after a load; nothing modelled depends on it. `Plus` is the
addition of `attotime`, which stays at "never" once it is there, `postload` the insertion
again of the timers that are left, in the order in which the old list had them.

### Mpeg1Demux, DvcAudio (MCDvcAudio, DvcAudio_proofs)

`Mpeg1Demux` has no variables: the demultiplexer is a record and `feed` the switch of
`mpeg1_demux::feed()`, a state per case, with the fields that the code keeps under the
same names. The state in which it waits after a stream number that does not match
(`MAGIC_MATCH`) is as in the code.

`DvcAudio` is the path from the DMA channel to the sound stream.

| variable | code |
|---|---|
| `m_audio_demux`, `m_audio` | the same; `buffer`, `read`, `bit`: `m_buffer`, `m_read_pos`, `m_bit_pos` in bytes |
| `dma` | `pending`, `for_fma`: the request slot; `count`, `into`, `at`: the channel and the words it points to; `fma_bit`: the DMA bit of the command |
| `fma` | the audio unit: stream, status, `start_valid`/`start_in` (ticks to the latched start), `dsp_enable`, `since` (ticks since the buffer was last fed or played) |
| `out` | the ring, its ends, `m_audio_primed`, `m_audio_prime_wait` |
| `phase` | the call that runs: `dclk_tick` and `write_fma_cmd` are one call in the code and several steps here, a frame at a time |
| `hist` | history of the properties |

`try_dma` moves a whole transfer; whether it is made, kept or dropped is `Served`.
`decode` is `mpeg1_audio_decoder::decode()` with its ways out (a frame, one that is not
all there, none), over the real header bytes. `SaveAndLoad` is a save and a load of
the same state, because only the decoder's own state changes on the way
(`Reloaded`); saving at one time and loading at another is the same for the unit as
a driver that goes back on the disc.

Left out: frame sizes other than one constant, samples (left or right is all that is
kept of one), the bits UPD, CSU and EOI, the video unit's own bytes. What the code
does and no property asks for: a refused direction leaves the DMA bit set; a channel is
served as soon as its counter is not zero; the comparison with the start time is not
true across a wrap of the 32-bit clock; a packet without payload leaves
`m_packet_body` set until the next; the move of the buffer in `write()` wraps a scan
position behind the read position (381-382) when a transfer overfills the buffer then.
Positions wrap below zero, and `clean` excludes what follows.

### Mpeg1Video, DvcVideo (MCDvcVideo, DvcVideo_proofs)

`Mpeg1Video` has no variables: a decoder is a record and each method of
`mpeg1_video_decoder` an operator from decoders to decoders. `Headers` and
`Complete` are the two loops of `decode()`, `Decoded` is what
`predict_macroblock()` makes of a picture's references, `decode_picture` the
rotation of the three frames. `set_decoder_state(d, s)` joins `get_decoder_state`
and `set_decoder_state`.

`DvcVideo` puts one decoder in the cartridge.

| variable | code |
|---|---|
| `m_video` | `m_video`, the decoder |
| `ctl` | `m_fmv_dsp_enable`, `m_fmv_playback_active`, `m_fmv_single_step_pending`, `m_fmv_show`, `m_fmv_slow_motion`; `start`, `pause`: ticks to the two latched clock values; `scan`: GEN_DEC_CMD is 22xx; `pausing`: the last SYSCMD has PAUSE |
| `pace` | `m_picture_pending`, `m_seen_first_picture`, `m_video_underflow`; `due`: `m_next_picture_tick - m_display_ticks` |
| `m_fmv_isr` | the status bits in `Watched` |
| `m_picture`, `shown` | the two picture buffers: `len` the buffer's size, `size` its dimensions, the picture in it, `updated` and `valid` |
| `src`, `hist` | the disc and its encoder; history of the properties |
| `saved` | a save state |

`write_syscmd` has one disjunct per command bit (the drivers set one bit at a time;
the DMA bit is `Feed`), `dclk_tick` one per outcome of `advance_video()`:
`DecoderOff`, `NoPicture`, `HoldPicture`, `SkipPicture`, `ShowPicture`. Each
applies the latched start and pause first, as the clock does. `Feed*` are
`feed_byte()` for all bytes of a unit, and generate only streams an encoder
produces: an anchor, then the B pictures that precede it, each with the pictures it
was predicted from.

Abstracted: the FIFO counts start code units, not bytes, and headers leave it as
soon as they are read (the code keeps them until the picture behind them is
complete, so its level may be a few bytes higher); picture contents are the number
of the picture and whether it was predicted from the right ones, which is history;
a size is one number; `due` stops at a whole picture late, from where the schedule
starts anew anyway; the geometry registers are left out. The driver is assumed to
respect SYS_STS (`buffer_full`), and the streams to hold I, P and B pictures.

## 3. Runs

Type invariants of `Irq4`, `Cdic`, `Slave`, `DiskControl`, `Media`, `InputState`,
`Scc68070`, `Mcd212`, `Scheduler` and `DvcAudio` are theorems and take no run.

| run | bounds | shows |
|---|---|---|
| `irq4` | none: the module has no parameter | `LineFollowsDevices`, `ImplementsOwnership`, and under a fair decoder clock `CdicIsServed`, `DvcCauseIsSeen` |
| `cdic` | 1 disc, 2 sectors, 10 kinds of sector, 3 codings, 2 frames per second; a title that gives all commands, and one that uses the audio map beside reads in mode 2 | `RequestAnnounced`, `DriveMatchesEnable`, `NoBankRepeated`, `NoBufferRepeated`; under fair timers `ReadIsAnswered`, `BufferIsReported` |
| `slave` | command buffer of 5 bytes, 6 + 4 command bytes | `PendingIsSignalled`; `MediumIsLearnt` if the firmware serves its interrupts |
| `media` | 2 discs (symmetric), lists of at most 2 entries, 1 saved state, replaced at any time | `TrayMatchesDrive`, `SelectionIsKept`, `GuestFindsOut`, `ReadsMountedDisc`, `NoFalseRemoval` |
| `input` | ports modulo 4, a screen of 2 by 2 places, 1 place a frame in each axis, 1 saved state, replaced at any time | `ButtonIsTold`, `PointerFollows` |
| `scc` | levels 0 and 4, 1 DMA channel, 1 plane | `IplIsHighest`, `DisplayInterruptIsSeen`, `AcknowledgeIsExact` |
| `raster` | fields of 4 (NTSC) and 6 (PAL) lines, 1 and 2 of them blank, a border of 1; a DCA list of 6 blocks, 1 picture, 3 register writes at any place of the beam, any number of skips, resets and states | `FieldFollowsGuest` (`LineFollowsProgram` and `StatusFollowsBeam`) |
| `scheduler` | a device timer and the screen's, 2 anonymous timers, queue of 2, instructions of 1 and 2 cycles of 2 ticks, quantum of 5, slices that begin before tick 3 | `HeadIsEarliest`, `CallbackOnTime`, `LineIsServed` |
| `dvc_play` | 3 pictures, 1 B picture between anchors, FIFO of 3, picture time of 2 ticks, start after 1 | `TypeOK`, `HaltIsKept`, `ValidFramesAreGood`, `EndIsKept`, `ShownInOrder`, `DryIsReportedOnce` |
| `dvc_state` | 4 intra pictures in clips of 2 sizes, the larger not carried by a state; a state saved while a picture of one size waits behind one of the other (`SavedMidSwap`), loaded any number of times | `BuffersMatchDimensions`, `NoStaleClip` |
| `dvc_audio` | a program stream of 90 bytes, 2 audio streams, transfers of 30 bytes; frames of 6 bytes and 1 pair, a buffer limit of 8, ring of 6, cushion of 3, dry after 3 ticks | `PayloadIsWhole`, `FramesInOrder`, `RingIsPaired`, `AudioIsPlayed`, `UnderflowIsExact`, `RequestIsServed` |
| `dvc_resume` | as `dvc_audio`, states saved at any time | **violated**: `FramesInOrder` |

Why the bounds are enough. The two sector banks and two audio banks are the
code's own. One disc and the empty drive give every change of medium that the CDIC
can tell apart, because it only asks whether it has a handle; the proofs cover any
set. Two sectors let a read advance and wrap; a second of two frames makes CD-DA
skip a sector and deliver one; one tick of spin-up is entered and left. In
`MCCdic`, each test of the selection code fails for one kind of sector and passes
for another. No title of that run mixes all commands with the map; of such titles the
proofs speak, but for the two liveness properties. In `slave`, a buffer of five bytes holds every command that can be
completed (the longest, 17 bytes, never is: see *Disagreements met*). In `media` two
discs are this one and another; with two entries an edit is below, at or above the
selection, and the proofs cover any list. In `input` four
port values are 0xffff, its neighbours on either side of the wrap and one more, with a
displacement of one below half the range as the proof needs it; frames move both axes, one
or none, so that each order of callbacks meets each sentinel. On two by two places every
move is stopped by an edge or not; a pointer beyond the screen, of which the property says
nothing, is left to the proof.
In `scc`, 0 and 4 are "off" and a level shared with IN4, while IN2 is on another;
priority among three levels is in the proof.

In `raster` a field of four lines has one that is blank, one that is first, one that is
last and one between, and PAL's six put each of its lines beyond, at and before the end of
an NTSC field. Three writes are display on with another FD, the ICA or DCA bit with it,
and one more at the wrong moment. The list of blocks has plain ones, one that reloads the
picture and one that jumps back.

In `scheduler` the three times from which slices begin, delays of 0 and 3, a period of
2, the screen's 6 and instructions of 2 and 4 ticks make timers expire before, in and
after an instruction, at the end of a slice and beyond the quantum. Two anonymous
timers are one that is due and one that is requested from its callback. With a queue
of two, the third event finds it full.

In `DvcVideo` three pictures are two anchors and a B picture between them, or three
anchors: with three, each of the three frame buffers has been past, future and
work, and a seek can fall between any two. A FIFO of three units holds a picture,
the start code that ends it and one more. In `dvc_state` two clips of two anchors put
one picture of each size in the two buffers. Delays of one and two ticks for 1000 and
some 1500 let every command fall before, on and after the tick that matters.

The stream of `dvc_audio` is laid out so that one transfer ends with a frame whose last
byte looks like a sync, one within a frame, and one after a packet with every optional
field; between them lie video with a start code in it and the other audio stream. Its
buffer is moved up after two frames (16384 bytes in the code), and also while bytes of it are
unread, when a transfer finds eight of them there (64K in the code). A ring of six holds two
of its frames and not a third.

TLC evaluates the assumptions on that disc as well: that the places of a stream are
those the demultiplexer takes when it gets the disc in one go (`PayloadAssumption`) and that
headers are where frames begin, or inside one (`FrameAssumption`). The disc is laid out by the
format of a program stream and not by the model, so a mistake in the model of the
demultiplexer stops TLC there.

Fairness. `DvcTick`, `SectorTick` and `AudioTick` are weakly fair: their timers are
periodic (45 kHz, 75 Hz) and nothing stops them after the reset; re-arming the
audio timer (1101) restarts its period but a driver cannot do so while the map
decodes. In `Slave` the timer is one-shot and weakly fair (it expires). The
firmware's interrupt routine is strongly fair (`Serve`): IN2 is level triggered and
entered again and again, and a read may be disabled for the moment in which an
immediate timer is pending. No action of the user is fair, and none of the driver
except that routine. The other modules state no fairness: where something has to
happen in time there, it is a bound (`CallbackOnTime`, `AudioIsPlayed`,
`UnderflowIsExact`, `RequestIsServed`), which says more.

Liveness is stated with the disturbances it has to survive: `ReadIsAnswered` and
`MediumIsLearnt` hold once the driver stops issuing commands, or the user stops
changing discs; `CdicIsServed` holds if the cartridge lets go now and then;
`BufferIsReported` allows for a driver that stops the map and for disc audio, which
both end the map without a report.

### The finding

`dvc_resume`: `get_decoder_state()` of the audio decoder rebases its buffer, "so the
read position becomes byte 0; nothing behind it is read again" (`mpeg1audio.cpp` 306).
The scan position may be *behind* the read position: when `find_frame_sync()` finds
nothing in a buffer that was consumed to its end, it leaves `m_bit_pos` at the last
byte (436). The unsigned difference (312) then wraps and is clamped to the end of the
buffer. In a state saved when the next transfer has arrived but has not been decoded, a
whole frame is passed over once the state is loaded. `dvc_audio` checks the same property
with `SavesBehind = FALSE`, that is over every other save.

### Disagreements met

Places where the code and a comment part, found while modelling. They have no run of
their own; each is one step, and the step is in the module.

* "Playback runs from the moment the driver arms it" (`cdicdic.cpp` 1096): at an end
  marker the map reports the last buffer and stays "decoding" with nothing queued until
  the next tick (513-517); a driver that answers this very interrupt by arming the map
  again is ignored at 1088 and stopped at 484. `BufferIsReported` shows what does hold.
* "Apply changes at the field boundary so ICA/DCA and display status share the same
  geometry" (`mcd212.cpp` 1013): at the top of a field the scanline timer waits for the
  first visible line, PAL's line 32 before a change to NTSC, and `screen().configure()`
  leaves it there. In that field the DCA is read from line 22 on while Display Active comes
  up, and drawing begins, ten lines later. `LineFollowsProgram` and `StatusFollowsBeam`
  therefore speak of fields that the scanline timer meets from their first visible line
  on (`whole`): every field but that one, the one after a reset and the first of all.
* "Set Attenuation Audio" (`cdislavehle.cpp` 341) and "Set Front Panel LCD" (344) cannot
  be completed. Channel 2 neither stores bytes nor advances `m_in_index`, so the branch
  that calls `m_atten_w` (290) is not reached.
* "Re-baselining here means the next update applies one frame of movement, as it would
  have without the load" (`cdislavehle.cpp` 536-537): not while a port rests at 0xffff. One
  step up from y = 0, where the ports of a new session are, puts MOUSEY there, and every
  move to the side is dropped, with or without a load, until MOUSEY moves.
* "it then holds the decoder's current display frame, so rebuild it from there"
  (`cdidvc.cpp` 463) is true only until the next tick, on which `advance_video()`
  decodes ahead (719-723) and moves the display frame on. A state taken
  between that tick and the vertical blanking comes back with a later picture in
  the back buffer.
* The comment at `cdidvc.cpp` 745 says that the end code is reached when "the last
  picture has already been decoded and displayed". An anchor is displayed when the next
  one displaces it, and nothing flushes it at an end code: the last one never is.
* "on hardware the device simply keeps REQ asserted" (`cdidvc.cpp` 552): here one slot
  holds the request (602) and that of the other unit replaces it. `RequestIsServed`
  makes that exception (`overlap`).
* "So the buffer counts as dry only when there is neither a frame left to decode nor any
  decoded audio left to play" (`cdidvc.cpp` 942): bytes that are no frame, or only a part of
  one, count as well, and a stream that ends in them never underflows.
* "if there are anonymous timers, we can't save just yet, and we can't load yet either"
  (`src/emu/machine.cpp` 852): `retro_serialize` and `retro_unserialize` go past
  `can_save()`. A load with a line event waiting drops its timer and leaves
  the queue. `LineIsServed` excludes such loads (`dropped`).
* `decode()` of the video decoder never gets past a D picture or a zero f_code: it
  returns false at the same place on every call until a seek.
* The comment on `device_pre_save()` of the cartridge says a picture above the cap is
  left out; the code saves its first `MAX_SHOWN_PIXELS`.

## 4. Proofs

Every safety and action property of the passing runs is proved for all values of the
constants, from the named assumptions in the modules (`CdicConstants`, `SlaveConstants`,
`DiskConstants`, `InputConstants`, `SccConstants`, `RasterAssumption`, `DcaAssumption`,
`SchedulerAssumption`, `VideoConstants`, `DvcVideoConstants`, `DvcAudioConstants`,
`PayloadAssumption`, `FrameAssumption`). Each proof module has for each component an
inductive invariant, mostly `IInv`, a lemma with one step per action that preserves it, and
short theorems that draw the properties from it. With them are proved six more properties that the runs leave
out: `VectorIsFromARequester` and `OwnerKeepsLine` (Irq4), `ReadsPresentMedium` and
`StopWaitsForBuffer` (Cdic), `RemovalIsKept` and `PacketIsWhole` (Slave).

* **Interrupts_proofs, level 4.** `LineFollowsDevices` is not inductive: the cartridge's level may
  differ from its causes (`DvcFeed`), and a saved state may be loaded at any time. The
  invariant adds that the board's latches equal the announced levels, that the
  owner is a requester whenever there is one, that an announced level has a cause,
  and the same of the saved state. `Refinement` has a lemma for each action of `Irq4Abs`:
  a load is its restore, with the requests that were saved; a save and a reset are its own;
  every other step is a change by one device in which, by `OwnerAfter`, an owner that still
  requests stays.
* **Cdic_proofs.** One part for the drive (`DriveMatchesEnable` and
  `ReadsPresentMedium` need each other and the mode), one for the sector banks (the
  last delivered bank is the one DBUF holds unless the driver wrote it) and one for
  the map (a queued bank is the other one than the last played). `StopIsLate` needs
  only the type invariant.
* **Slave_proofs, the channels.** Channels and timer form one part, the command parser a second,
  the firmware and the disc a third; the lemma `Prepared` says what any new answer
  does to the announcement of the others.
* **Media_proofs, the tray.** `Removed` states where the entries of a list end up when
  one is removed, from the definition of `RemoveAt`; `TrayMatchesDrive` and
  `SelectionIsKept` follow from it for lists of any length.
* **Media_proofs, the observers.** `DiskRefined` shows `MediaSpec => Spec`, Spec being that of
  `DiskControl`, so that its theorems hold here too. `GuestFindsOut` and
  `ReadsMountedDisc` are inductive only with the same two facts of the saved state at the
  disc it was saved over (`SavedIsSound`). `NoFalseRemoval` needs more than itself (`ReasonInv`): a guest
  that relies on another disc than the one in the drive already has a reason to be told,
  as its next status command may be answered with a removal; and both again of the saved
  state at its disc.
* **Interrupts_proofs, the CPU's level.** The type invariant gives a finite, non-empty set of levels;
  that it has a maximum is the lemma every `update_ipl` step cites.
  `AcknowledgeIsExact` follows from `IplIsHighest`, `DisplayInterruptIsSeen` from the
  edge detector alone.
* **Slave_proofs, the pointer.** `Displacement`: the difference of two positions modulo the
  range, taken as a signed number, is what was added, if that is less than half the
  range (`MaxDelta < PortRange \div 2`; the code's ports have 16 bits). The invariant is
  the type, `BaseIsPort` (the baseline is where the ports are, between two frames, in both
  axes), `ButtonIsTold` and `SavedAgrees`, the same of the saved state. `FrameMoves` follows
  a frame through its callbacks (`Pressed`, `Across`): the first displaces by nothing, the
  second along x, the third along y, each from the baseline that the one before it left.
* **Mcd212_proofs.** `StatusFollowsBeam` speaks of moments at which no timer is due; what
  holds between them is `ScanIsAhead`: in a whole field the scanline timer is set to the
  line of its parameter, that line is the next one below the beam (or, from the last line
  and in the blanking, a first one ahead of it), and while it is due the status is still
  that of the line above. The field's own start establishes it, because `whole` says that
  the parameter is one of the lines up to the first visible one.
  `LineFollowsProgram` is the part `Followed`. It relates the pointer of the line below the
  beam to `AddressOf` that line, and, while the DCA timer is on its way, the block it will
  read to `BlockOf` its line: blocks are read in the blanking in front of the line they
  act on, so the two are one apart, and which of them is ahead depends on the place of
  the beam. A load and a skipped field leave the picture alone (`PictureIsKept`).
  The two are recursive functions of the line; that such a function exists, and so what it
  is at a line in terms of the line above, is a lemma by least counterexample.
* **DvcVideo_proofs.** `HaltIsKept`, `BuffersMatchDimensions` and `NoStaleClip` each
  hold of the controls or a buffer by themselves, but not over a load: their invariant
  adds that a saved state has the same three properties, and that its pixel count is 0
  unless its picture was valid. Nothing of it depends on the stream.
  The other five do, and share the invariant `VInv`. It says where in the encoder's stream
  the decoder is: a context (the two anchors, and the last picture in display order) for
  every position of the FIFO, each unit leading from one to the next and the last of them
  where the encoder stands; the reference frames are the anchors of the first
  context unless they are marked damaged, and what waits to be displayed comes after what
  was shown last. `decode_picture` turns the three frames into each other's
  places: the lemma about it is what `ValidFramesAreGood` and `ShownInOrder`
  rest on. `EndIsKept` adds that an end owed to the driver is known to the decoder or is
  still in the FIFO, `DryIsReportedOnce` that what was reported stays noted. All of it is
  said again of the saved state.
* **Scheduler_proofs.** `HeadIsEarliest` needs the whole list sorted, disabled timers
  included, and that a disabled timer never expires, except the one whose callback
  runs. `timer_list_insert` and the removal of a timer keep a list sorted whatever its length
  (`TimersAreSound`, `ListIsSorted`); `postload` inserts one by one, so that its result is
  by least counterexample. `CallbackOnTime` needs where the clocks are: the base
  time is within a frame of the screen's timer and less than one cycle ahead of the CPU's,
  and a CPU that runs never goes past a timer without being about to give way
  (`TimeIsSound`); that there is a longest instruction follows from their being finitely
  many. `LineIsServed` rests on the last event of the queue being what the owner
  gave the line last, and a timer waiting for every queue that is not empty
  (`QueueIsSound`), in a saved state as well.

* **DvcAudio_proofs.** The type invariant (`TypeInv`) adds that the decoder has not consumed
  more than it holds and that the channel stays within the disc. A transfer is a fold over
  its bytes, and what one byte does (`feed_byte`) is carried through it by least
  counterexample. Three invariants stand on it alone. `RingInv`: the ring holds twice the
  pairs owed, and the silence so far is part of a wait that has not timed out (`MuteInv`); the
  arithmetic of the ring is in the lemmas about `Between` and `Wrap`. `ClockInv`: the ticks
  counted by the code since something was left to play and those counted by the history
  differ by at most a period of `advance_audio()`, or both have reached the limit.
  `ReqInv`: a command whose DMA bit is up holds the request slot.
  `PayloadIsWhole` needs more (`Demuxed`): the demultiplexer is in the state it would be in had
  it been given the disc up to here in one go, and the buffer is what it took on the way.
  It is proved for any program stream, any cut into transfers and any buffer limit.
  `FramesInOrder` needs besides where the decoder is (`Scanned`): it has consumed the stream
  up to the end of the last frame, and the scan has not passed a header that lies beyond. The
  first header it finds is therefore that of the next frame. Only a save with the scan
  position behind the read position breaks it, which is what the theorem's hypothesis
  `~SavesBehind` excludes and `dvc_resume` shows. `PayloadAssumption` defines the stream of a
  disc as what the demultiplexer takes from it in one go; `FrameAssumption` is about the
  disc: frames begin with a valid header and do not overlap, and whatever else looks like
  one is inside of a frame and not in its last byte, or too near the end of the stream.

Model-checked only, in the instances of the table: the liveness properties (`CdicIsServed`,
`DvcCauseIsSeen`, `ReadIsAnswered`, `BufferIsReported`, `MediumIsLearnt`), because the prover has
neither fairness nor ENABLED; and that `FramesInOrder` fails with `SavesBehind`.

## 5. Not modelled

The map covers about a hundredth of the repository, and could not cover much more:
instruction interpreters (`src/devices/cpu`, of which `m68kops.cpp` alone is 26 000
generated lines), MAME's rendering, memory, sound and file services (`src/emu`,
`src/lib`, `src/frontend`), the libretro support library, third-party code and
the software list are most of its lines. They are shared with MAME, and are
computation or I/O rather than protocol.

Of the program's own code: the MCD212's pixel decoding and the instructions of its control
programs that set how a line looks, MPEG decoding inside a picture or a frame,
sector descrambling and the byte order flag, sample decoding, the TOC, the bits UPD, CSU
and EOI of the audio unit, the geometry registers of the cartridge, the UART's data,
the frontend's options, video and input mapping, and the Quizard machine's
microcontroller. `PROJECT.json` says for each
component what is left out.

## 6. Plan

1. **Refinement**: the audio path (transfers, buffer, frames, ring) as an implementation of a
   queue that hands out the frames of a disc in order, with `RingIsPaired` and
   `FramesInOrder` as its refinement mapping.
2. **Arithmetic**: `lba_from_time` and `get_sector_count_for_coding` against
   reference definitions over all BCD times and coding bytes.

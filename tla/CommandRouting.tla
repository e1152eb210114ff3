---------------------------- MODULE CommandRouting ----------------------------
(***************************************************************************)
(* Commands to devices and their answers (src/src/device/sync), the zones   *)
(* that switch the pumps of all their devices (src/src/zone/zone.service.ts)*)
(* and the broker's questions whether a gateway may use the topics of a     *)
(* device (src/src/emqx).  All of them look up caches that no write of the  *)
(* database invalidates.                                                    *)
(***************************************************************************)
EXTENDS CacheAside

\* Command names; an irrigation mode stands for SET_IRRIGATION_MODE.
PumpCommand == {"PUMP_ON", "PUMP_OFF"}
Command == PumpCommand \cup Mode

-----------------------------------------------------------------------------
(* sendCommandToDevice and handleDeviceResponse. *)

SendCommand(r) ==
  \E d \in Device, c \in PumpCommand :
    /\ Start(r, LookUp([Idle EXCEPT !.kind = "command", !.of = d, !.arg = c, !.key = <<"route", d>>]))
    /\ UNCHANGED asked

\* The answer of a device that switched its pump, or changed its mode.
DeviceResponse(r) ==
  \E d \in Device, c \in Command :
    /\ Start(r, LookUp([Idle EXCEPT !.kind = IF c \in PumpCommand THEN "response" ELSE "mode_response",
                          !.of = d, !.arg = c, !.key = <<"route", d>>]))
    /\ asked' = IF c \in PumpCommand THEN [asked EXCEPT !.pump[d] = c = "PUMP_ON"] ELSE asked

\* publishToDevice: to the topic of the gateway in the route if there is one,
\* otherwise to that of the device.  No row changes.
Publish(r) ==
  /\ job[r].kind = "command" /\ job[r].pc = "use"
  /\ Finish(r)
  /\ UNCHANGED <<now, tables, cache, bounds, gone, met, asked>>

UpdatePump(r) ==
  LET j == job[r] IN
  /\ j.kind = "response" /\ j.pc = "use"
  /\ Write([devices EXCEPT ![j.of].pump = j.arg = "PUMP_ON"], zones, rules)
  /\ Finish(r)
  /\ UNCHANGED <<now, cache, bounds, met, asked>>

\* A change of irrigation mode is announced once the row is written.
UpdateMode(r) ==
  LET j == job[r] IN
  /\ j.kind = "mode_response" /\ j.pc = "use"
  /\ Write([devices EXCEPT ![j.of].mode = j.arg], zones, rules)
  /\ Goto(r, "invalidate")
  /\ UNCHANGED <<now, cache, bounds, met, asked>>

-----------------------------------------------------------------------------
(* checkGatewayAcl on a topic of a device, to publish or to subscribe. *)

CheckAcl(r) ==
  \E g \in Gateway, d \in Device :
    /\ Start(r, LookUp([Idle EXCEPT !.kind = "acl", !.of = g, !.arg = d, !.key = <<"owned", g>>]))
    /\ UNCHANGED asked

Granted(j) == j.arg \in j.data

Answer(r) ==
  /\ job[r].kind = "acl" /\ job[r].pc = "use"
  /\ Finish(r)
  /\ UNCHANGED <<now, tables, cache, bounds, gone, met, asked>>

-----------------------------------------------------------------------------
(* togglePump. *)

Members(z) == {d \in Device : devices[d].zone = z}

TogglePump(r) ==
  \E z \in Zone, c \in PumpCommand :
    /\ Start(r, [Idle EXCEPT !.kind = "toggle", !.pc = "find", !.of = z, !.arg = c])
    /\ asked' = [asked EXCEPT !.pump[z] = c = "PUMP_ON"]

\* The zone with its devices.
ToggleFind(r) ==
  LET z == job[r].of IN
  /\ job[r].kind = "toggle" /\ job[r].pc = "find"
  /\ IF zones[z].there
       THEN Become(r, [job[r] EXCEPT !.pc = "wait", !.held = zones[z],
                         !.members = Members(z), !.left = Members(z)])
       ELSE Finish(r)
  /\ UNCHANGED <<now, tables, cache, bounds, gone, met, asked>>

\* The commands to the devices run concurrently, each a request of its own.
ToggleSend(r, q) ==
  LET j == job[r] IN
  /\ j.pc = "wait" /\ job[q].pc = "idle"
  /\ \E d \in j.left :
       job' = [job EXCEPT ![r].left = @ \ {d},
                 ![q] = LookUp([Idle EXCEPT !.kind = "command", !.of = d, !.arg = j.arg,
                                            !.key = <<"route", d>>, !.parent = r])]
  /\ UNCHANGED <<now, tables, cache, bounds, gone, met, asked>>

\* All are settled, whatever became of them; save() loads the row and the ids
\* of the members.
ToggleLoad(r) ==
  LET j == job[r] IN
  /\ j.pc = "wait" /\ j.left = {} /\ \A q \in Active : job[q].parent # r
  /\ Become(r, [j EXCEPT !.pc = "save", !.loaded = zones[j.of], !.left = Members(j.of),
                         !.held.pump = j.arg = "PUMP_ON"])
  /\ UNCHANGED <<now, tables, cache, bounds, gone, met, asked>>

\* The columns an UPDATE leaves: those the ORM saw changed get the value of the
\* entity, the others keep what the row holds by now.
Changed(row, held, loaded) ==
  [c \in DOMAIN row |-> IF held[c] # loaded[c] THEN held[c] ELSE row[c]]

\* The row after save(held); a row that was not there is inserted.
Merge(row, held, loaded) ==
  IF ~loaded.there THEN held
  ELSE IF ~row.there THEN row
  ELSE Changed(row, held, loaded)

\* Faulty variant: the entity is saved with an empty list of devices.
ToggleSaveEmpty(r) ==
  LET j == job[r]
      row == Merge(zones[j.of], j.held, j.loaded)
      Zoned(d) == IF d \in j.left THEN None ELSE devices[d].zone
  IN
  /\ j.kind = "toggle" /\ j.pc = "save"
  /\ Unannounced([d \in Device |-> [devices[d] EXCEPT !.zone = Zoned(d)]],
                 [zones EXCEPT ![j.of] = row], rules)
  /\ Finish(r)
  /\ UNCHANGED <<now, bounds, met, asked>>

\* The entity has its devices: those that left the zone meanwhile come back,
\* and those that came are put out, because the ORM makes the members of the
\* row those of the entity.  Nothing is announced to the caches.
ToggleSave(r) ==
  LET j == job[r]
      row == Merge(zones[j.of], j.held, j.loaded)
      Zoned(d) == IF ~row.there THEN devices[d].zone
                  ELSE IF d \in j.members \ j.left THEN j.of
                  ELSE IF d \in j.left \ j.members THEN None
                  ELSE devices[d].zone
  IN
  /\ j.kind = "toggle" /\ j.pc = "save"
  /\ Unannounced([d \in Device |-> [devices[d] EXCEPT !.zone = Zoned(d)]],
                 [zones EXCEPT ![j.of] = row], rules)
  /\ Finish(r)
  /\ UNCHANGED <<now, bounds, met, asked>>

-----------------------------------------------------------------------------
(* DeviceService.update, which may give a zone, a mode and pumpEnabled.  What
   it gives of other columns is left out, and so it stands for each request that
   finds a device and saves it: a firmware report, unpairing, regeneration of
   the credential, provisioning.  Nothing is announced to the caches. *)

Moves == {"move", "edit"}
Switches == {"switch", "edit"}

\* By the columns that the properties speak of.
DeviceKind(dto) ==
  IF dto.zone = Keep THEN IF dto.pump = Keep THEN "rename" ELSE "switch"
  ELSE IF dto.pump = Keep THEN "move" ELSE "edit"

UpdateDevice(r) ==
  \E d \in Device, dto \in DeviceUpdate :
    /\ Start(r, [Idle EXCEPT !.kind = DeviceKind(dto), !.pc = "preload_device", !.of = d, !.arg = dto])
    /\ UNCHANGED asked

Given(old, new) == IF new = Keep THEN old ELSE new

\* The row with what is given.  The query of the zone, which follows if one is
\* given, is for its farm.
PreloadDevice(r) ==
  LET j == job[r] IN
  /\ j.pc = "preload_device"
  /\ Become(r, [j EXCEPT !.pc = "load_device",
                  !.held = [devices[j.of] EXCEPT !.zone = Given(@, j.arg.zone), !.mode = Given(@, j.arg.mode),
                                                 !.pump = Given(@, j.arg.pump)]])
  /\ UNCHANGED <<now, tables, cache, bounds, gone, met, asked>>

\* The columns that save() will write as the preload found them, although they
\* were changed since.
Stale(j, row) == {c \in {"zone", "pump"} : j.arg[c] = Keep /\ j.held[c] # row[c]}

LoadDevice(r) ==
  LET j == job[r] IN
  /\ j.pc = "load_device"
  /\ Become(r, [j EXCEPT !.pc = "save_device", !.loaded = devices[j.of]])
  /\ met' = met \cup {{c, "stale"} : c \in Stale(j, devices[j.of])}
  /\ UNCHANGED <<now, tables, cache, bounds, gone, asked>>

\* Faulty variant: all columns of the entity are written.
SaveDeviceWhole(r) ==
  LET j == job[r] IN
  /\ j.pc = "save_device"
  /\ IF j.held.zone # None /\ ~zones[j.held.zone].there
       THEN UNCHANGED <<tables, cache, gone, asked>>
       ELSE /\ Unannounced([devices EXCEPT ![j.of] = j.held], zones, rules)
            /\ asked' = [asked EXCEPT !.zone[j.of] = Given(@, j.arg.zone),
                                      !.pump[j.of] = Given(@, j.arg.pump)]
  /\ Finish(r)
  /\ UNCHANGED <<now, bounds, met>>

\* The database refuses a zone that is gone.
SaveDevice(r) ==
  LET j == job[r]
      row == Changed(devices[j.of], j.held, j.loaded)
  IN
  /\ j.pc = "save_device"
  /\ IF row.zone # None /\ ~zones[row.zone].there
       THEN UNCHANGED <<tables, cache, gone, asked>>
       ELSE /\ Unannounced([devices EXCEPT ![j.of] = row], zones, rules)
            /\ asked' = [asked EXCEPT !.zone[j.of] = Given(@, j.arg.zone),
                                      !.pump[j.of] = Given(@, j.arg.pump)]
  /\ Finish(r)
  /\ UNCHANGED <<now, bounds, met>>

-----------------------------------------------------------------------------
(* What other requests on devices change here; Provisioning and Gateways model them. *)

\* Pairing a device or a gateway, or deleting a gateway.
AssignGateway ==
  /\ "assign" \in scope /\ started + failures < MaxRequests
  /\ started' = started + 1
  /\ \E d \in Device, g \in Gateway \cup {None} :
       Unannounced([devices EXCEPT ![d].gateway = g], zones, rules)
  /\ UNCHANGED <<now, job, scope, failures, met, asked>>

=============================================================================

----------------------------- MODULE ServeConfig -----------------------------
(***************************************************************************)
(* From a loaded config to the cameras of a frontend: config.py,           *)
(* device_resolver.py and serve.py, as functions.  An exception, of any    *)
(* text, is the empty sequence, and what a function that may raise returns *)
(* is a sequence of one.  Of the values a field may have those are told    *)
(* apart that the code treats differently.                                 *)
(*                                                                         *)
(* A raw camera has a name, an id, rtsp ("yes", "no", or what is not a     *)
(* boolean), rtsp_path (none, or a path with or without its leading        *)
(* slash), enabled, rtc_mode, lan_protocol, signaling_port (0 for what is  *)
(* no integer) and env: what the environment variables it names hold.  A   *)
(* required string that is missing raises like an rtsp that is no boolean. *)
(***************************************************************************)
EXTENDS Integers, Sequences, Functions

CONSTANTS
  UrlSafe     \* the names that are one URL-safe segment

Raised == <<>>

NoPath == [slash |-> FALSE, segment |-> ""]

RawCamera ==
  {raw \in [id : STRING, name : STRING, rtsp : {"yes", "no", "junk"},
            rtsp_path : [slash : BOOLEAN, segment : STRING], enabled : BOOLEAN,
            rtc_mode : STRING, lan_protocol : STRING, signaling_port : Int,
            env : [ip : STRING, local_key : STRING, password : STRING]] : raw.name # ""}

\* RtspServer.normalize_path: the path, as a set that is empty when it raises
NormalizePath(path) == IF path.segment \in UrlSafe THEN {path.segment} ELSE {}

\* _device_config and load_config
DeviceConfig(raw) ==
  [raw EXCEPT !.rtsp_path = IF @ = NoPath /\ raw.rtsp = "yes"
                            THEN [slash |-> FALSE, segment |-> raw.name] ELSE @]
LoadConfig(raws) ==
  IF \E i \in DOMAIN raws : raws[i].rtsp \notin {"yes", "no"} THEN Raised
  ELSE [i \in DOMAIN raws |-> DeviceConfig(raws[i])]

\* select_camera: the camera, as a sequence of one
Matches(config, selector) ==
  LET named == {i \in DOMAIN config : config[i].name = selector}
  IN  IF named # {} THEN named ELSE {i \in DOMAIN config : config[i].id = selector}
SelectCamera(config, selector) ==
  IF \E i \in DOMAIN config : Matches(config, selector) = {i} /\ config[i].enabled
  THEN <<config[CHOOSE i \in DOMAIN config : Matches(config, selector) = {i}]>>
  ELSE Raised

\* without a filter, every camera that opted in
Serves(camera) == camera.enabled /\ camera.rtsp_path # NoPath
Serving(config) ==
  LET upto[n \in 0..Len(config)] ==
        IF n = 0 THEN <<>>
        ELSE IF Serves(config[n]) THEN Append(upto[n - 1], config[n]) ELSE upto[n - 1]
  IN  upto[Len(config)]

SelectServeCameras(config, selectors) ==
  IF selectors = <<>> THEN Serving(config)
  ELSE IF \E i \in DOMAIN selectors : SelectCamera(config, selectors[i]) = Raised THEN Raised
  ELSE LET selected == [i \in DOMAIN selectors |-> SelectCamera(config, selectors[i])[1]]
       IN  IF /\ IsInjective([i \in DOMAIN selected |-> selected[i].name])
              /\ \A i \in DOMAIN selected : selected[i].rtsp_path # NoPath
           THEN selected ELSE Raised

PathsAsWritten(selected) ==
  IsInjective([i \in DOMAIN selected |-> selected[i].rtsp_path])
PathsDiffer(selected) ==
  IsInjective([i \in DOMAIN selected |-> NormalizePath(selected[i].rtsp_path)])

ValidateServeConfig(config, selectors) ==
  LET selected == SelectServeCameras(config, selectors)
  IN  IF /\ \A i \in DOMAIN selected : NormalizePath(selected[i].rtsp_path) # {}
         /\ PathsDiffer(selected)
         /\ IsInjective([i \in DOMAIN selected |-> selected[i].id])
      THEN selected ELSE Raised

\* validate_config_file, which the config flow asks
ValidateConfigFile(raws) == ValidateServeConfig(LoadConfig(raws), <<>>) # Raised

\* resolve_rtc_mode, with the override of the command line or "none"
ResolveRtcMode(camera, cli_override) ==
  LET mode == IF cli_override # "none" THEN cli_override ELSE camera.rtc_mode
  IN  IF \/ mode \notin {"direct", "preconnect"}
         \/ mode = "preconnect" /\ camera.lan_protocol # "3.4"
      THEN Raised ELSE <<mode>>

\* resolve_device_runtime without a resolver, as every frontend calls it
ResolveDeviceRuntime(camera) == IF camera.env.ip = "good" THEN <<camera.id>> ELSE Raised

ResolveDeviceCredentials(camera) ==
  IF camera.env.local_key = "set" /\ camera.env.password = "set" THEN <<camera.id>> ELSE Raised

\* assemble_camera_config
Ports == 1..65535
AssembleCameraConfig(camera, runtime) ==
  IF \/ camera.lan_protocol \notin {"3.3", "3.4"}
     \/ camera.signaling_port \notin Ports
     \/ ResolveRtcMode(camera, "none") = Raised
  THEN Raised
  ELSE <<[name |-> camera.name, device_id |-> camera.id, ip |-> runtime[1],
          signaling_port |-> camera.signaling_port, lan_protocol |-> camera.lan_protocol,
          rtc_mode |-> ResolveRtcMode(camera, "none")[1]]>>

\* what main() and the manager pass as resolve_camera
ResolveCamera(camera) ==
  IF ResolveDeviceRuntime(camera) = Raised \/ ResolveDeviceCredentials(camera) = Raised
  THEN Raised ELSE AssembleCameraConfig(camera, ResolveDeviceRuntime(camera))

\* resolve_runtime_config and main(): the command for one camera
RunOne(config, selector, cli_override) ==
  IF SelectCamera(config, selector) = Raised THEN Raised
  ELSE LET camera == ResolveCamera(SelectCamera(config, selector)[1])
       IN  IF camera = Raised \/ ResolveRtcMode(camera[1], cli_override) = Raised THEN Raised
           ELSE <<[camera[1] EXCEPT !.rtc_mode = ResolveRtcMode(camera[1], cli_override)[1]]>>

BuildServeCameras(config, selectors) ==
  LET valid == ValidateServeConfig(config, selectors)
  IN  IF \E i \in DOMAIN valid : ResolveCamera(valid[i]) = Raised THEN Raised
      ELSE [i \in DOMAIN valid |->
              [camera |-> ResolveCamera(valid[i])[1],
               path   |-> CHOOSE path \in NormalizePath(valid[i].rtsp_path) : TRUE]]

\* the publications after a frontend has published all, or those before the
\* one RtspServer.publish refuses
PublishAll(specs) ==
  LET upto[n \in 0..Len(specs)] ==
        IF n = 0 THEN [paths |-> {}, refused |-> FALSE]
        ELSE IF upto[n - 1].refused \/ specs[n].path \in upto[n - 1].paths
        THEN [paths |-> upto[n - 1].paths, refused |-> TRUE]
        ELSE [paths |-> upto[n - 1].paths \cup {specs[n].path}, refused |-> FALSE]
  IN  upto[Len(specs)]
=============================================================================

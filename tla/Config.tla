-------------------------------- MODULE Config --------------------------------
(***************************************************************************)
(* The configuration files of server and client once they are parsed:      *)
(* pkg/config/config.go.  A key that the file does not have is zero, FALSE *)
(* or "".  NewServer, NewClient and ReloadTunnels refuse what Validate     *)
(* refuses; the other modules take their constants from what is left.      *)
(* Addresses and paths are left out where nothing depends on them.         *)
(***************************************************************************)
EXTENDS Integers, Sequences

ServerConfig ==
  [token : STRING, port : Int,
   min_port : Nat, max_port : Nat,
   max_connections : Int, max_tunnels_per_client : Int, max_conns_per_tunnel : Int,
   auth_disabled : BOOLEAN, auth_max_failures : Int, auth_block_duration : Int,
   auth_lru_size : Int, auth_clean_interval : Int, auth_record_ttl : Int]

TunnelConfig ==
  [name : STRING, local_ip : STRING, local_port : Int, remote_port : Nat, timeout : Int]

ClientConfig ==
  [server_addr : STRING, server_port : Int, token : STRING,
   tunnels : Seq(TunnelConfig), health_check_interval : Int]

Or(value, default) == IF value = 0 THEN default ELSE value

(* ServerConfig.setDefaults.  The limit per tunnel follows the other one.  *)
SetDefaults(cfg) ==
  LET connections == Or(cfg.max_connections, 100)
  IN [token |-> cfg.token,
      port |-> Or(cfg.port, 7835),
      min_port |-> Or(cfg.min_port, 1024),
      max_port |-> Or(cfg.max_port, 65535),
      max_connections |-> connections,
      max_tunnels_per_client |-> Or(cfg.max_tunnels_per_client, 10),
      max_conns_per_tunnel |-> Or(cfg.max_conns_per_tunnel, connections),
      auth_disabled |-> cfg.auth_disabled,
      auth_max_failures |-> Or(cfg.auth_max_failures, 3),
      auth_block_duration |-> Or(cfg.auth_block_duration, 600),
      auth_lru_size |-> Or(cfg.auth_lru_size, 1000),
      auth_clean_interval |-> Or(cfg.auth_clean_interval, 60),
      auth_record_ttl |-> Or(cfg.auth_record_ttl, 86400)]

(* ServerConfig.Validate.  Nothing is asked of max_conns_per_tunnel.       *)
ValidServer(cfg) ==
  /\ cfg.token # ""
  /\ cfg.min_port <= cfg.max_port
  /\ cfg.max_connections > 0
  /\ cfg.max_tunnels_per_client > 0
  /\ ~cfg.auth_disabled =>
       /\ cfg.auth_max_failures > 0
       /\ cfg.auth_block_duration > 0
       /\ cfg.auth_lru_size > 0
       /\ cfg.auth_clean_interval > 0
       /\ cfg.auth_record_ttl > 0

(* What LoadServerConfig and NewServer make of a file, if they accept it.  *)
Accepted(file) == ValidServer(SetDefaults(file))

IsValidPort(cfg, port) == port = 0 \/ port \in cfg.min_port .. cfg.max_port

(* ClientConfig.setDefaults and Validate.                                  *)
SetClientDefaults(cfg) ==
  [cfg EXCEPT !.health_check_interval = IF @ <= 0 THEN 30 ELSE @]

ValidClient(cfg) ==
  /\ cfg.server_addr # "" /\ cfg.server_port # 0 /\ cfg.token # ""
  /\ \A i \in DOMAIN cfg.tunnels :
       LET t == cfg.tunnels[i]
       IN t.name # "" /\ t.local_ip # "" /\ t.local_port # 0

=============================================================================

----------------------------- MODULE ConfigProofs -----------------------------
(* What the configuration that a server or client runs with can be.        *)
EXTENDS Config, TLAPS

LEMMA OrFills ==
  ASSUME NEW n \in Int, NEW d \in Int \ {0}
  PROVE  /\ Or(n, d) \in Int \ {0} /\ Or(Or(n, d), d) = Or(n, d)
         /\ n \in Nat /\ d \in Nat => Or(n, d) \in Nat \ {0}
         /\ d > 0 => (Or(n, d) > 0 <=> n >= 0)
BY DEF Or

(* The fields of a file and of what the defaults make of it.               *)
LEMMA Numbers ==
  ASSUME NEW file \in ServerConfig
  PROVE  /\ file.port \in Int /\ file.min_port \in Nat /\ file.max_port \in Nat
         /\ file.max_connections \in Int /\ file.max_tunnels_per_client \in Int
         /\ file.max_conns_per_tunnel \in Int
         /\ file.auth_max_failures \in Int /\ file.auth_block_duration \in Int
         /\ file.auth_lru_size \in Int /\ file.auth_clean_interval \in Int
         /\ file.auth_record_ttl \in Int
BY DEF ServerConfig

LEMMA Others ==
  ASSUME NEW file \in ServerConfig
  PROVE  file.token \in STRING /\ file.auth_disabled \in BOOLEAN
BY DEF ServerConfig

LEMMA Defaults ==
  ASSUME NEW file
  PROVE  /\ SetDefaults(file).token = file.token
         /\ SetDefaults(file).min_port = Or(file.min_port, 1024)
         /\ SetDefaults(file).max_port = Or(file.max_port, 65535)
         /\ SetDefaults(file).max_connections = Or(file.max_connections, 100)
         /\ SetDefaults(file).max_tunnels_per_client = Or(file.max_tunnels_per_client, 10)
         /\ SetDefaults(file).max_conns_per_tunnel = 
              Or(file.max_conns_per_tunnel, SetDefaults(file).max_connections)
         /\ SetDefaults(file).auth_disabled = file.auth_disabled
         /\ SetDefaults(file).auth_max_failures = Or(file.auth_max_failures, 3)
         /\ SetDefaults(file).auth_block_duration = Or(file.auth_block_duration, 600)
         /\ SetDefaults(file).auth_lru_size = Or(file.auth_lru_size, 1000)
         /\ SetDefaults(file).auth_clean_interval = Or(file.auth_clean_interval, 60)
         /\ SetDefaults(file).auth_record_ttl = Or(file.auth_record_ttl, 86400)
BY DEF SetDefaults

(* Everything setDefaults fills in is there afterwards, so that a second   *)
(* pass changes nothing, not even max_conns_per_tunnel, which follows      *)
(* max_connections (config.go:110-152).                                    *)
THEOREM DefaultsOnce ==
  ASSUME NEW file \in ServerConfig
  PROVE  /\ SetDefaults(file) \in ServerConfig
         /\ SetDefaults(SetDefaults(file)) = SetDefaults(file)
<1> DEFINE connections == Or(file.max_connections, 100)
           cfg == SetDefaults(file)
<1>1. connections \in Int \ {0}
  BY Numbers DEF Or
<1>2. cfg \in ServerConfig
  <2>1. /\ Or(file.port, 7835) \in Int
        /\ Or(file.min_port, 1024) \in Nat /\ Or(file.max_port, 65535) \in Nat
        /\ connections \in Int /\ Or(file.max_tunnels_per_client, 10) \in Int
        /\ Or(file.max_conns_per_tunnel, connections) \in Int
        /\ Or(file.auth_max_failures, 3) \in Int /\ Or(file.auth_block_duration, 600) \in Int
        /\ Or(file.auth_lru_size, 1000) \in Int /\ Or(file.auth_clean_interval, 60) \in Int
        /\ Or(file.auth_record_ttl, 86400) \in Int
    <3> HIDE DEF connections
    <3> QED BY <1>1, Numbers DEF Or
  <2>2. file.token \in STRING /\ file.auth_disabled \in BOOLEAN
    BY Others
  <2> QED BY <2>1, <2>2 DEF SetDefaults, ServerConfig
<1>3. cfg.port = Or(file.port, 7835)
  BY DEF SetDefaults
<1>4. /\ Or(cfg.port, 7835) = cfg.port
      /\ Or(cfg.min_port, 1024) = cfg.min_port /\ Or(cfg.max_port, 65535) = cfg.max_port
      /\ Or(cfg.max_connections, 100) = cfg.max_connections
      /\ Or(cfg.max_tunnels_per_client, 10) = cfg.max_tunnels_per_client
      /\ Or(cfg.max_conns_per_tunnel, cfg.max_connections) = cfg.max_conns_per_tunnel
      /\ Or(cfg.auth_max_failures, 3) = cfg.auth_max_failures
      /\ Or(cfg.auth_block_duration, 600) = cfg.auth_block_duration
      /\ Or(cfg.auth_lru_size, 1000) = cfg.auth_lru_size
      /\ Or(cfg.auth_clean_interval, 60) = cfg.auth_clean_interval
      /\ Or(cfg.auth_record_ttl, 86400) = cfg.auth_record_ttl
  BY <1>3, Numbers, Defaults DEF Or
<1>5. cfg = [token |-> cfg.token, port |-> cfg.port,
             min_port |-> cfg.min_port, max_port |-> cfg.max_port,
             max_connections |-> cfg.max_connections, max_tunnels_per_client |-> cfg.max_tunnels_per_client,
             max_conns_per_tunnel |-> cfg.max_conns_per_tunnel, auth_disabled |-> cfg.auth_disabled,
             auth_max_failures |-> cfg.auth_max_failures, auth_block_duration |-> cfg.auth_block_duration,
             auth_lru_size |-> cfg.auth_lru_size, auth_clean_interval |-> cfg.auth_clean_interval,
             auth_record_ttl |-> cfg.auth_record_ttl]
  BY DEF SetDefaults
<1> HIDE DEF cfg
<1>6. SetDefaults(cfg) = cfg
  BY <1>4, <1>5 DEF SetDefaults
<1> QED BY <1>2, <1>6 DEF cfg

(* A file is refused only for what it writes: "zero configuration is safe" *)
(* (config.go:150-151), a token alone is a configuration.  A max_port      *)
(* below the default of min_port has to come with a min_port.              *)
THEOREM RefusedForCause ==
  ASSUME NEW file \in ServerConfig, ~Accepted(file)
  PROVE  \/ file.token = ""
         \/ file.max_port # 0 /\ file.max_port < 1024
         \/ file.min_port > file.max_port
         \/ file.max_connections < 0 \/ file.max_tunnels_per_client < 0
         \/ /\ ~file.auth_disabled
            /\ \/ file.auth_max_failures < 0 \/ file.auth_block_duration < 0
               \/ file.auth_lru_size < 0
               \/ file.auth_clean_interval < 0 \/ file.auth_record_ttl < 0
<1> DEFINE cfg == SetDefaults(file)
<1>2. \/ cfg.token = "" \/ ~(cfg.min_port <= cfg.max_port)
      \/ ~(cfg.max_connections > 0) \/ ~(cfg.max_tunnels_per_client > 0)
      \/ /\ ~cfg.auth_disabled
         /\ \/ ~(cfg.auth_max_failures > 0) \/ ~(cfg.auth_block_duration > 0)
            \/ ~(cfg.auth_lru_size > 0) \/ ~(cfg.auth_clean_interval > 0)
            \/ ~(cfg.auth_record_ttl > 0)
  BY Zenon DEF Accepted, ValidServer
<1>3. /\ ~(cfg.max_connections > 0) => file.max_connections < 0
      /\ ~(cfg.max_tunnels_per_client > 0) => file.max_tunnels_per_client < 0
      /\ ~(cfg.auth_max_failures > 0) => file.auth_max_failures < 0
      /\ ~(cfg.auth_block_duration > 0) => file.auth_block_duration < 0
      /\ ~(cfg.auth_lru_size > 0) => file.auth_lru_size < 0
      /\ ~(cfg.auth_clean_interval > 0) => file.auth_clean_interval < 0
      /\ ~(cfg.auth_record_ttl > 0) => file.auth_record_ttl < 0
  BY Numbers, Defaults DEF Or
<1>4. ~(cfg.min_port <= cfg.max_port) =>
        \/ file.max_port # 0 /\ file.max_port < 1024
        \/ file.min_port > file.max_port
  BY Numbers, Defaults DEF Or
<1>5. cfg.token = file.token /\ cfg.auth_disabled = file.auth_disabled
  BY Defaults
<1> HIDE DEF cfg
<1>6. CASE cfg.token = "" \/ ~(cfg.min_port <= cfg.max_port)
  BY <1>4, <1>5, <1>6
<1>7. CASE ~(cfg.max_connections > 0) \/ ~(cfg.max_tunnels_per_client > 0)
  BY <1>3, <1>7, Zenon
<1>8. CASE /\ ~cfg.auth_disabled
           /\ \/ ~(cfg.auth_max_failures > 0) \/ ~(cfg.auth_block_duration > 0)
              \/ ~(cfg.auth_lru_size > 0)
              \/ ~(cfg.auth_clean_interval > 0) \/ ~(cfg.auth_record_ttl > 0)
  <2>1. ~file.auth_disabled
    BY <1>5, <1>8
  <2>2. \/ file.auth_max_failures < 0 \/ file.auth_block_duration < 0
        \/ file.auth_lru_size < 0
        \/ file.auth_clean_interval < 0 \/ file.auth_record_ttl < 0
    BY <1>3, <1>8, Zenon
  <2> QED BY <2>1, <2>2
<1> QED BY <1>2, <1>6, <1>7, <1>8, Zenon

(* What the other modules assume of their constants holds of every server  *)
(* that starts: the limits are positive, port 0 is outside the range,      *)
(* which is not empty, and an enabled block list counts to at least one,   *)
(* blocks and keeps records for some time, has room in its cache, and has  *)
(* a cleaner whose ticker starts (NewTicker panics otherwise).  The limit  *)
(* per tunnel alone may be negative, if the file says so.                  *)
THEOREM LimitsUsable ==
  ASSUME NEW file \in ServerConfig, Accepted(file)
  PROVE  LET cfg == SetDefaults(file) IN
         /\ cfg.max_connections \in Nat \ {0}
         /\ cfg.max_tunnels_per_client \in Nat \ {0}
         /\ cfg.max_conns_per_tunnel \in Nat \ {0} \/ file.max_conns_per_tunnel < 0
         /\ 0 \notin cfg.min_port .. cfg.max_port
         /\ \E p \in Nat \ {0} : IsValidPort(cfg, p)
         /\ ~file.auth_disabled =>
              /\ ~cfg.auth_disabled
              /\ cfg.auth_max_failures \in Nat \ {0}
              /\ cfg.auth_block_duration \in Nat \ {0}
              /\ cfg.auth_lru_size \in Nat \ {0}
              /\ cfg.auth_clean_interval \in Nat \ {0}
              /\ cfg.auth_record_ttl \in Nat \ {0}
<1>1. \A n \in Int, d \in Int \ {0} : d > 0 => (Or(n, d) > 0 <=> n >= 0)
  BY OrFills
<1> DEFINE cfg == SetDefaults(file)
<1>2. cfg \in ServerConfig
  BY DefaultsOnce
<1>3. ValidServer(cfg)
  BY DEF Accepted
<1>4. /\ cfg.min_port = Or(file.min_port, 1024) /\ cfg.auth_disabled = file.auth_disabled
      /\ cfg.max_conns_per_tunnel = Or(file.max_conns_per_tunnel, cfg.max_connections)
  BY Defaults
<1> HIDE DEF cfg
<1>5. cfg.min_port \in Nat \ {0} /\ cfg.max_port \in Nat /\ cfg.min_port <= cfg.max_port
  <2>1. cfg.min_port <= cfg.max_port
    BY <1>3, Zenon DEF ValidServer
  <2>2. file.min_port \in Nat /\ cfg.min_port \in Nat /\ cfg.max_port \in Nat
    BY <1>2, Numbers
  <2>3. cfg.min_port = Or(file.min_port, 1024)
    BY <1>4
  <2> QED BY <2>1, <2>2, <2>3 DEF Or
<1>6. 0 \notin cfg.min_port .. cfg.max_port /\ IsValidPort(cfg, cfg.min_port)
  BY <1>5 DEF IsValidPort
<1>7. cfg.max_connections \in Nat \ {0} /\ cfg.max_tunnels_per_client \in Nat \ {0}
  <2>1. cfg.max_connections > 0 /\ cfg.max_tunnels_per_client > 0
    BY <1>3, Zenon DEF ValidServer
  <2>2. cfg.max_connections \in Int /\ cfg.max_tunnels_per_client \in Int
    BY <1>2, Numbers
  <2> QED BY <2>1, <2>2
<1>8. cfg.max_conns_per_tunnel \in Nat \ {0} \/ file.max_conns_per_tunnel < 0
  BY <1>1, <1>4, <1>7, <1>2, Numbers
<1>9. ~file.auth_disabled =>
        /\ ~cfg.auth_disabled
        /\ cfg.auth_max_failures \in Nat \ {0}
        /\ cfg.auth_block_duration \in Nat \ {0}
        /\ cfg.auth_lru_size \in Nat \ {0}
        /\ cfg.auth_clean_interval \in Nat \ {0}
        /\ cfg.auth_record_ttl \in Nat \ {0}
  <2>1. ~file.auth_disabled =>
          /\ ~cfg.auth_disabled
          /\ cfg.auth_max_failures > 0 /\ cfg.auth_block_duration > 0
          /\ cfg.auth_lru_size > 0 /\ cfg.auth_clean_interval > 0 /\ cfg.auth_record_ttl > 0
    <3>1. cfg.auth_disabled = file.auth_disabled
      BY <1>4
    <3>2. ~cfg.auth_disabled =>
            /\ cfg.auth_max_failures > 0 /\ cfg.auth_block_duration > 0
            /\ cfg.auth_lru_size > 0 /\ cfg.auth_clean_interval > 0
            /\ cfg.auth_record_ttl > 0
      BY <1>3, Zenon DEF ValidServer
    <3> QED
      BY <3>1, <3>2, Zenon
  <2>2. /\ cfg.auth_max_failures \in Int /\ cfg.auth_block_duration \in Int
        /\ cfg.auth_lru_size \in Int /\ cfg.auth_clean_interval \in Int
        /\ cfg.auth_record_ttl \in Int
    BY <1>2, Numbers
  <2>3. \A n \in Int : n > 0 => n \in Nat \ {0}
    OBVIOUS
  <2> QED BY <2>1, <2>2, <2>3, Zenon
<1> QED BY <1>5, <1>6, <1>7, <1>8, <1>9 DEF cfg

(* The ticker of the health checks starts whatever the file says (and for  *)
(* an unchecked one too), and the defaults leave the tunnels alone, which  *)
(* is what a reload compares (client.go:448-451).                          *)
THEOREM ClientUsable ==
  ASSUME NEW file \in ClientConfig
  PROVE  /\ SetClientDefaults(file) \in ClientConfig
         /\ SetClientDefaults(file).health_check_interval > 0
         /\ SetClientDefaults(file).tunnels = file.tunnels
         /\ ValidClient(SetClientDefaults(file)) <=> ValidClient(file)
<1> DEFINE cfg == SetClientDefaults(file)
<1>1. cfg \in ClientConfig /\ cfg.health_check_interval > 0 /\ cfg.tunnels = file.tunnels
  BY DEF ClientConfig, SetClientDefaults
<1>2. /\ cfg.server_addr = file.server_addr /\ cfg.server_port = file.server_port
      /\ cfg.token = file.token
  BY DEF ClientConfig, SetClientDefaults
<1> HIDE DEF cfg
<1>3. ValidClient(cfg) <=> ValidClient(file)
  BY <1>1, <1>2 DEF ValidClient
<1> QED BY <1>1, <1>3 DEF cfg

=============================================================================

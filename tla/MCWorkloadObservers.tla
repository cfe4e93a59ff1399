------------------------ MODULE MCWorkloadObservers ------------------------
(* One workload, two transports, two places: each script changes one part   *)
(* of the configuration.                                                    *)
EXTENDS WorkloadObservers
CONSTANTS web, syslog1, syslog2, host, data, dataSlash, usb, sda, sdb, bucket

MCWorkloads == {web}

\* A configuration that asks for nothing but the workload.
Plain == [workloads |-> {web}, target |-> [x \in {web} |-> None],
          address |-> [n \in {syslog1, syslog2} |-> None], storage |-> None, data |-> {},
          mounts |-> <<>>, volume |-> [x \in {web} |-> None]]
Empty == [Plain EXCEPT !.workloads = {}]

\* The logs of the workload go to one server, and there may be another.
Logs(n) == [Plain EXCEPT !.target[web] = n, !.address[n] = host]
LogsBeside(n, other) == [Logs(n) EXCEPT !.address[other] = host]

Transfer == [Plain EXCEPT !.storage = bucket, !.data = {web}]
TransferAnew == [Transfer EXCEPT !.volume[web] = data]

\* The directories data and data/ are one place, and the line of sdb mounted on
\* it cannot be parsed.
MCPlace == [d \in {data, dataSlash, usb} |-> IF d = dataSlash THEN data ELSE d]
MCParsed == [x \in {sda, sdb} \X {data, usb} |-> IF x = <<sdb, data>> THEN None ELSE x[2]]

On(device, directory) == [device |-> device, directory |-> directory]
Mounts(list, volume) == [Plain EXCEPT !.mounts = list, !.volume[web] = volume]

MCScripts == {
  <<LogsBeside(syslog1, syslog2), Logs(syslog1)>>,
  <<Logs(syslog1), Logs(syslog2)>>,
  <<Empty, Logs(syslog1), Empty>>,
  <<Transfer, TransferAnew, Empty>>,
  <<Empty, Transfer, [Empty EXCEPT !.storage = bucket]>>,
  <<Mounts(<<On(sda, usb)>>, usb), Mounts(<<On(sdb, usb), On(sda, usb)>>, usb), Plain>>,
  <<Mounts(<<On(sdb, data)>>, data), Mounts(<<On(sda, dataSlash)>>, dataSlash),
    Mounts(<<On(sdb, data), On(sda, dataSlash)>>, data)>> }

\* The storage is configured anew, and nothing else happens.
MCStorageScripts == {<<Transfer, TransferAnew>>}
=============================================================================
